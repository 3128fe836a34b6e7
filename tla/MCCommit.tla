------------------------------- MODULE MCCommit -------------------------------
(* Small instances of Commit for TLC.                                         *)
EXTENDS Commit, TLC

CONSTANTS a, b, c, lost, main, jpg, xmp, raw, none, outside

\* a and b are IMG_1 of two cameras, c is in the library already, the session
\* has no record of lost.
AllPhotos == {a, b, c, lost}
InSession == {a, b, c}
InOrder == (a :> 1) @@ (b :> 2) @@ (c :> 3) @@ (lost :> 4)
Folders_ == (a :> "left") @@ (b :> "right") @@ (c :> "left") @@ (lost :> "left")
Stems == (a :> "one") @@ (b :> "one") @@ (c :> "two") @@ (lost :> "one")
Exts == [p \in AllPhotos |-> jpg]
Related == (a :> {xmp, raw}) @@ (b :> {xmp}) @@ (c :> {}) @@ (lost :> {})
Contents == (<<a, main>> :> "a") @@ (<<a, xmp>> :> "ax") @@ (<<a, raw>> :> "ar")
  @@ (<<b, main>> :> "b") @@ (<<b, xmp>> :> "bx") @@ (<<c, main>> :> "c") @@ (<<lost, main>> :> "a")
Sizes == ("a" :> 5) @@ ("ax" :> 1) @@ ("ar" :> 9) @@ ("b" :> 6) @@ ("bx" :> 1) @@ ("c" :> 5) @@ ("old" :> 6)

LowerCase == ("left" :> "left") @@ ("right" :> "right") @@ ("trip" :> "trip") @@ ("Trip" :> "trip")

\* The library holds c under another name, in a folder that differs from the
\* plan's in case, an IMG_1-2.xmp beside it, and where the source tree would put a and b another file, of
\* b's size.
File(dir, stem) == [dir |-> dir, stem |-> stem, n |-> 1, ext |-> jpg]
Library == (File("Trip", "own") :> [bytes |-> "c", whole |-> TRUE])
        @@ ([File("Trip", "one") EXCEPT !.n = 2, !.ext = xmp] :> [bytes |-> "old", whole |-> TRUE])
        @@ (File("left", "one") :> [bytes |-> "old", whole |-> TRUE])
        @@ (File("right", "one") :> [bytes |-> "old", whole |-> TRUE])

OneTrip == [p \in AllPhotos |-> "trip"]
NoFolders == [p \in AllPhotos |-> none]
Climbs == [OneTrip EXCEPT ![b] = outside]
KeepSome == {{a, b, c, lost}, {a, b}, {b}}
SomePlans == {OneTrip, NoFolders, Climbs}
==============================================================================
