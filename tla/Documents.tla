------------------------------- MODULE Documents ------------------------------
(***************************************************************************)
(* How a request of the server changes a document of MongoDB: it finds the *)
(* document, decides, awaits other things, and saves what it has changed   *)
(* with one update. Mongoose keeps a version, __v, in each document. A     *)
(* save that replaces an array, or changes an array inside another, names  *)
(* the version it has read and increments it: it fails with a VersionError *)
(* when the version has changed. A save that pushes to an array of the     *)
(* document increments the version without naming it, one of an element in *)
(* its place names it without incrementing it, and one of plain fields     *)
(* does neither. All that is kept of the versions is which requests hold a *)
(* document whose version has changed since they read it.                  *)
(***************************************************************************)
EXTENDS Integers, Sequences, FiniteSets

CONSTANTS
    Slots,    \* requests that are served at the same time
    NoOne     \* nobody

VARIABLES
    asked,    \* how many requests were received
    stale     \* the slots whose document has changed its version

documentVars == <<asked, stale>>

DocumentTypeOK == asked \in Nat /\ stale \subseteq Slots

DocumentInit == asked = 0 /\ stale = {}

(* readers are the requests that hold the document r saves. *)
SaveVersion(r, readers) == stale' = (stale \cup readers) \ {r}
SaveReplacing(r, readers) == r \notin stale /\ SaveVersion(r, readers)
SavePushing(r, readers) == SaveVersion(r, readers)
SaveInPlace(r) == r \notin stale /\ stale' = stale
SavePlain(r) == stale' = stale \ {r}

(* The save fails, and the request with it: nothing is changed. *)
VersionError(r) == r \in stale /\ stale' = stale \ {r}
==============================================================================
