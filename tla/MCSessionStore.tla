---------------------------- MODULE MCSessionStore ----------------------------
(* Small instances of SessionStore for TLC. *)
EXTENDS SessionStore, TLC

CONSTANTS f1, f2, i1, i2, s1, s2, keep, remove

OneFolder == {f1}
TwoFolders == {f1, f2}
Photos == {i1, i2}
OnePhoto == {i1}
OneSaver == {s1}
TwoSavers == {s1, s2}
OneChoice == {keep}

\* The two worker threads are alike, and so are the photos.
Alike == Permutations({s1, s2}) \cup Permutations({i1, i2})
==============================================================================
