----------------------------- MODULE BlobStore -----------------------------
(***************************************************************************)
(* What the relay's storage contract (relay/internal/store/backend.go)     *)
(* promises: blobs are written once and never changed in place, a blob is  *)
(* accepted only while what is stored leaves room for it, and nothing but  *)
(* a removal makes it disappear - in particular no restart.                *)
(***************************************************************************)
EXTENDS Integers

CONSTANTS
  Key, Record, Absent,               \* blob keys, records, no record
  Identity,                          \* owners; k[1] owns the key k
  Bytes(_, _), Count(_, _),          \* what an owner stores
  AllBytes(_),                       \* what is stored
  IdentityCap,                       \* bytes one owner may store
  TotalCap                           \* bytes stored for all owners

VARIABLE blobs   \* blobs[k]: the record stored under the key k, or Absent

Init == blobs = [k \in Key |-> Absent]

\* The record that appears leaves the relay within its capacity and its owner
\* within the quota; only an owner's single record may be larger than the quota
\* (fs.go, PutWithin: "if u := s.usage[id]; u != nil").
Put(k) ==
  /\ blobs[k] = Absent
  /\ blobs'[k] \in Record
  /\ blobs' = [blobs EXCEPT ![k] = blobs'[k]]
  /\ AllBytes(blobs') <= TotalCap
  /\ Bytes(blobs', k[1]) <= IdentityCap \/ Count(blobs', k[1]) = 1

Remove(k) ==
  /\ blobs[k] # Absent
  /\ blobs' = [blobs EXCEPT ![k] = Absent]

Next == \E k \in Key : Put(k) \/ Remove(k)

Spec == Init /\ [][Next]_blobs

\* Nothing stored exceeds the relay's capacity.
WithinTotal == AllBytes(blobs) <= TotalCap

\* No owner exceeds the quota with more than a single record.
WithinQuota == \A i \in Identity : Bytes(blobs, i) <= IdentityCap \/ Count(blobs, i) <= 1
=============================================================================
