------------------------------- MODULE MCAnalysis -------------------------------
(* Analysis over small libraries, with every step as a disjunct of its own.       *)
EXTENDS Analysis

PhotoItem == [kind |-> "photo", readable |-> TRUE, lap |-> 300, tiles |-> <<>>, shadows |-> 0,
              cells |-> 0, dark |-> 0, bright |-> 0, features |-> 0, color |-> 500, faces |-> <<>>, class |-> "real"]
VideoItem == [kind |-> "video", readable |-> TRUE, duration |-> 4000, frames |-> <<>>]
Frame == [readable |-> TRUE, lap |-> 200, hash |-> 0, class |-> "real"]

\* A line, but for two pairs that are nearer than the way over the others allows:  the
\* search from 100 turns off before 40, the one from 30 before 120.
MCFeatures == {0, 10, 20, 30, 40, 50, 60, 80, 100, 120}
MCDifference ==
  [a \in MCFeatures |-> [b \in MCFeatures |->
     IF {a, b} \in {{40, 100}, {30, 120}} THEN 20 ELSE Max({a, b}) - Min({a, b})]]

Plain(h) == [PhotoItem EXCEPT !.features = h]
\* At the thresholds and on either side:  a sharp subject in a soft frame, a frame that is
\* soft but for one tile, a flat and a dark one, a night photo with lit cells.
Qualities ==
  { [PhotoItem EXCEPT !.lap = 20, !.tiles = <<5, 120, 130>>],
    [PhotoItem EXCEPT !.lap = 20, !.tiles = <<5, 11, 130>>],
    [PhotoItem EXCEPT !.lap = 40, !.tiles = <<50, 60, 70>>],
    [PhotoItem EXCEPT !.lap = 8, !.dark = 60, !.shadows = 70],
    [PhotoItem EXCEPT !.lap = 8, !.shadows = 40, !.cells = 2],
    [PhotoItem EXCEPT !.lap = 8, !.shadows = 40, !.bright = 30],
    [PhotoItem EXCEPT !.readable = FALSE] }

Face(eyes) == [size |-> 20, focus |-> 300, eyes |-> eyes, red |-> 0]
Faces ==
  { [PhotoItem EXCEPT !.lap = 60, !.faces = <<Face(<<310>>)>>],
    [PhotoItem EXCEPT !.lap = 60, !.faces = <<Face(<<270, 280>>)>>],
    [PhotoItem EXCEPT !.lap = 60, !.faces = <<[Face(<<310>>) EXCEPT !.red = 2]>>],
    [PhotoItem EXCEPT !.lap = 60, !.faces = <<Face(<<310>>), [Face(<<270>>) EXCEPT !.size = 2]>>] }

Clips ==
  { [VideoItem EXCEPT !.readable = FALSE], [VideoItem EXCEPT !.duration = 1000],
    [VideoItem EXCEPT !.frames = <<Frame, [Frame EXCEPT !.readable = FALSE], [Frame EXCEPT !.hash = 9]>>],
    [VideoItem EXCEPT !.frames = <<Frame, Frame>>],
    [VideoItem EXCEPT !.frames = <<[Frame EXCEPT !.lap = 20], [Frame EXCEPT !.hash = 9]>>],
    [VideoItem EXCEPT !.frames = <<[Frame EXCEPT !.class = "screenshot"], [Frame EXCEPT !.hash = 9]>>] }

Shot == [Plain(0) EXCEPT !.class = "screenshot"]

MCLibraries ==
  {<<q, Plain(20), r>> : q \in Qualities, r \in {Plain(50), Shot}}
    \cup {<<[f EXCEPT !.features = 10], [g EXCEPT !.features = 30], Plain(50)>> : f, g \in Faces}
    \cup {<<Plain(a), Plain(b), Plain(c)>> : a, b, c \in {0, 20, 40, 80}}
    \cup {<<Plain(0), Plain(40), Plain(100)>>, <<Plain(0), Plain(60), Plain(120), Plain(30)>>}
    \cup {<<Shot, v, w>> : v \in Clips, w \in Clips}

Strict == [blur |-> 100, under |-> 30, over |-> 20]
Lax == [blur |-> 10, under |-> 50, over |-> 50]
Request(kind, scope, key, skip, t) == [kind |-> kind, scope |-> scope, key |-> key, skip |-> skip, thresholds |-> t]
MCRequests ==
  { Request("quality", {}, "all", {}, Strict), Request("quality", {1, 2}, "first", {}, Lax),
    Request("similar", {}, "all", {}, Lax), Request("similar", {1, 2}, "first", {}, Lax), Request("similar", {}, "marked", {1}, Lax),
    Request("junk", {}, "all", {2}, Lax), Request("junk", {1, 2}, "first", {}, Lax),
    Request("video", {}, "all", {}, Lax), Request("video", {3}, "second", {}, Lax) }

MCNext ==
  \/ \E request \in Requests : BeginAnalysis(request)
  \/ \E p \in Items : Measure(p)
  \/ \E p \in Items : Look(p)
  \/ Stop \/ WriteQuality \/ WriteGroups \/ Finish \/ Fail \/ ModelArrives

MCSpec == AnalysisInit /\ [][MCNext]_analysisVars
================================================================================
