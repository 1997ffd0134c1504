------------------------------- MODULE Store --------------------------------
(***************************************************************************)
(* The key-blind object store (crates/cc-store/src/lib.rs), one system     *)
(* call at a time: objects named by the hash of their bytes, each written  *)
(* to a temporary file and renamed into place, and one ref.                *)
(*                                                                         *)
(* A hash has no collisions, so an address is the object it names.  What a *)
(* file holds is then either all the bytes of that object or only some.    *)
(***************************************************************************)
CONSTANT None    \* no address

VARIABLES
    objects,   \* objects/xx/...: what stands at each address in use
    drafts,    \* the .tmp files beside them
    main       \* refs/main: an address, None if absent or not 64 digits

Set(f, x, v) == [y \in DOMAIN f \cup {x} |-> IF y = x THEN v ELSE f[y]]
Drop(f, x) == [y \in DOMAIN f \ {x} |-> f[y]]

\* Path::exists, which is all that put asks.
Exists(a) == a \in DOMAIN objects

\* Store::get gives bytes back only if they hash to their address.
Gets(a) == Exists(a) /\ objects[a] = "whole"

OpenInPlace(a) ==  \* faulty: no temporary file, the object itself is written
    objects' = Set(objects, a, "torn") /\ drafts' = Set(drafts, a, "torn")
\* fs::write opens the temporary file, which creates or empties it.
OpenDraft(a) == drafts' = Set(drafts, a, "torn") /\ UNCHANGED objects

\* It then writes all the bytes to the file it opened: by now that may stand
\* at the address, if another process renamed it.
FillDraft(a, moved) ==
    IF moved THEN objects' = Set(objects, a, "whole") /\ UNCHANGED drafts
    ELSE drafts' = Set(drafts, a, "whole") /\ UNCHANGED objects

\* fs::rename replaces what stood at the address; it fails if another process
\* took the temporary file away.
CanRename(a) == a \in DOMAIN drafts
Rename(a) ==
    /\ objects' = Set(objects, a, drafts[a])
    /\ drafts' = Drop(drafts, a)

\* Store::set_ref: fs::write empties the file...
EmptyRef == main' = None

\* ...and writes the address.
WriteRef(a) == main' = a
=============================================================================
