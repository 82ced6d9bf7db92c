--------------------------- MODULE DeviceTreeDocs ---------------------------
(***************************************************************************)
(* What a comment says of canonical paths, where the code of DeviceTree    *)
(* does something else.                                                    *)
(***************************************************************************)
EXTENDS DeviceTree

(* scope.cc:155-157, of resolve_path(): "Canonicalize a path string,       *)
(* expanding and finalizing things like bookmarks and array                *)
(* reverse-indices."  The canonical form of a path is a path to the same   *)
(* dirent.                                                                 *)
CanonicalFormOfThePath ==
  \A s \in Scopes, p \in Path :
    LET w == WalkPath(s, p, TRUE)
        r == ResolvePath(s, p)
        again == WalkPath(s, r, TRUE)
    IN w.end = "dirent" /\ IsInitialized(r) =>
         again.end = "dirent" /\ again.de = w.de
=============================================================================
