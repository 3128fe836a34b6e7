-------------------------------- MODULE Measures --------------------------------
(***************************************************************************)
(* What the analysis passes decide from what can be measured of a photo or *)
(* a video (backend/src/pass: quality, similar, keeper_signals, video).    *)
(*                                                                         *)
(* The pixels are abstracted to the measures that the code takes of them,  *)
(* whole numbers:  variances as they are, ratios in hundredths, what a     *)
(* score is made of in thousandths.  The distance of two photos weighs the *)
(* correlation of histograms and bits that differ:  any symmetric function *)
(* of their features, which need not obey the triangle inequality.         *)
(***************************************************************************)
EXTENDS Integers, FiniteSets, FiniteSetsExt, SequencesExt

CONSTANTS
  Radius,           (* default_similarity_radius                              *)
  Features,         (* what a photo's histogram and hash may be               *)
  Difference,       (* how far two such features are apart                    *)
  PeakRatio,        (* blur_peak_ratio                                        *)
  PeakFloor,        (* blur_peak_floor                                        *)
  MinCells,         (* min_passing_cells                                      *)
  MinFace,          (* k_min_face_frac, of the short edge                     *)
  MinDuration, VideoBlur, Motion    (* video_thresholds                       *)

ASSUME RadiusAssumption == Radius \in Nat
ASSUME DifferenceAssumption ==
  /\ Difference \in [Features -> [Features -> Nat]]
  /\ \A a, b \in Features : Difference[a][b] = Difference[b][a] /\ Difference[a][a] = 0

Clamp(n, low, high) == Max({low, Min({n, high})})
Sum(numbers) == FoldLeft(LAMBDA total, n : total + n, 0, numbers)
Mean(numbers) == Sum(numbers) \div Len(numbers)

------------------------------------------------------------------------------
(* Quality                                                                    *)

\* analyze_blur_peak: the second sharpest tile; a frame too small for tiles has none.
Peak(f) == IF Len(f.tiles) < 2 THEN f.lap ELSE SortSeq(f.tiles, <)[Len(f.tiles) - 1]

\* analyze_exposure: enough well exposed cells excuse clipped shadows, not darkness.
Under(f) == Max({IF f.cells >= MinCells THEN 0 ELSE f.shadows, f.dark})

\* compute_metrics
Metrics(f) == [lap |-> f.lap, peak |-> Peak(f), under |-> Under(f), over |-> f.bright]

IsUnderexposed(m, t) == m.under > t.under
IsOverexposed(m, t) == m.over > t.over

IsBlurry(m, t) ==
  /\ ~IsUnderexposed(m, t) /\ ~IsOverexposed(m, t)
  /\ m.peak < t.blur /\ m.peak < Max({m.lap * PeakRatio, PeakFloor})

QualityReasons(m, t) ==
  {r \in {"blurry", "under", "over"} : CASE r = "blurry" -> IsBlurry(m, t)
                                        [] r = "under" -> IsUnderexposed(m, t)
                                        [] r = "over" -> IsOverexposed(m, t)}

Bit == [blurry |-> 1, under |-> 2, over |-> 4]
ReasonsBitmask(reasons) ==
  LET Set(r) == IF r \in reasons THEN Bit[r] ELSE 0
  IN Set("blurry") + Set("under") + Set("over")
ReasonsOf(mask) == {r \in DOMAIN Bit : (mask \div Bit[r]) % 2 = 1}

ExposureScore(under, over) == Clamp(50 - Max({under, over}), 0, 50)

------------------------------------------------------------------------------
(* Similar photos                                                             *)

\* calculate_distance
Distance(f, g) == Difference[f.features][g.features]

\* The vp_nodes are numbered in the order of their insertion, which is that of the groups
\* that their photos lead (cluster_idx); 0 stands for no node.
Leaf == [threshold |-> 0, left |-> 0, right |-> 0]
NoClusters == [tree |-> <<>>, groups |-> <<>>]
FromLeader(clusters, k, p, library) == Distance(library[clusters.groups[k][1]], library[p])

\* What vp_node::insert makes of a node, d away, that it passes on its way to the place
\* of node `new`.
Passed(node, d, new) ==
  LET threshold == IF node.threshold = 0 THEN d ELSE node.threshold
  IN [threshold |-> threshold,
      left |-> IF d <= threshold /\ node.left = 0 THEN new ELSE node.left,
      right |-> IF d > threshold /\ node.right = 0 THEN new ELSE node.right]

\* The nodes on its way: the root, and of each of them the child on the photo's side.
OnTheWay(clusters, p, library) ==
  LET tree == clusters.tree
      Child(k) == LET d == FromLeader(clusters, k, p, library)
                  IN IF d <= tree[k].threshold THEN tree[k].left ELSE tree[k].right
      passed[k \in DOMAIN tree] == k = 1 \/ \E j \in 1 .. k - 1 : passed[j] /\ Child(j) = k
  IN passed

\* vp_node::insert
Insert(clusters, p, library) ==
  LET tree == clusters.tree
      new == Len(tree) + 1
      way == OnTheWay(clusters, p, library)
      Now(k) == IF way[k] THEN Passed(tree[k], FromLeader(clusters, k, p, library), new) ELSE tree[k]
  IN [k \in 1 .. new |-> IF k = new THEN Leaf ELSE Now(k)]

\* Mutant: the side of the threshold that the photo itself is on is searched alone.
FindOneSided(clusters, p, library) ==
  LET tree == clusters.tree
      found[k \in 0 .. Len(tree)] ==
        LET d == FromLeader(clusters, k, p, library)
        IN CASE k = 0 -> 0
             [] k # 0 /\ d <= Radius -> k
             [] OTHER -> IF d <= tree[k].threshold THEN found[tree[k].left] ELSE found[tree[k].right]
  IN found

\* vp_node::find_similar: for each node the leader that is found from there, or none.
FindSimilar(clusters, p, library) ==
  LET tree == clusters.tree
      found[k \in 0 .. Len(tree)] ==
        LET d == FromLeader(clusters, k, p, library)
            left == IF d - Radius <= tree[k].threshold THEN found[tree[k].left] ELSE 0
            right == IF d + Radius >= tree[k].threshold THEN found[tree[k].right] ELSE 0
        IN CASE k = 0 -> 0
             [] k # 0 /\ d <= Radius -> k
             [] OTHER -> IF left # 0 THEN left ELSE right
  IN found

\* The loop of find_similar_images over a photo: it joins the group of a leader within
\* the radius, or leads one.
JoinGroup(clusters, p, library) ==
  LET match == IF clusters.tree = <<>> THEN 0 ELSE FindSimilar(clusters, p, library)[1]
  IN IF match = 0
     THEN [tree |-> Insert(clusters, p, library), groups |-> Append(clusters.groups, <<p>>)]
     ELSE [tree |-> clusters.tree, groups |-> [clusters.groups EXCEPT ![match] = Append(@, p)]]

\* The clusters of the first photos of a library, those in `paths` that can be read.
Clusters(paths, library) ==
  LET joined[n \in 0 .. Len(library)] ==
        IF n = 0 THEN NoClusters
        ELSE IF n \in paths /\ library[n].readable /\ library[n].kind = "photo"
             THEN JoinGroup(joined[n - 1], n, library) ELSE joined[n - 1]
  IN joined

FindSimilarImages(paths, library) == Clusters(paths, library)[Len(library)].groups

------------------------------------------------------------------------------
(* Keepers                                                                    *)

\* Of a face the eyes that can be judged count; a face whose eyes cannot is open.
OpenConfidence(face) ==
  IF face.eyes = <<>> THEN 1000 ELSE Clamp(((Mean(face.eyes) - 270) * 100) \div 36, 0, 1000)

\* keeper_analyzer::analyze.  Faces that are too small are counted and not judged.
KeeperMetrics(f) ==
  LET usable == SelectSeq(f.faces, LAMBDA face : face.size >= MinFace)
      Open(i) == OpenConfidence(usable[i])
      Red(i) == usable[i].red
  IN [faces |-> Len(f.faces),
      focus |-> IF f.faces = <<>> THEN 0
                ELSE LET largest == Max({f.faces[i].size : i \in DOMAIN f.faces})
                     IN f.faces[Min({i \in DOMAIN f.faces : f.faces[i].size = largest})].focus,
      eyes |-> IF usable = <<>> THEN 1000 ELSE Mean([i \in DOMAIN usable |-> Open(i)]),
      red |-> IF usable = <<>> THEN 0 ELSE Mean([i \in DOMAIN usable |-> 500 * Red(i)]),
      color |-> f.color]

\* blended_score: the sharpness of the quality pass, or one half, and the signals.
BlendedScore(f, sharpness, analyzer) ==
  LET k == IF analyzer THEN KeeperMetrics(f) ELSE [faces |-> 0, focus |-> 0, eyes |-> 1000, red |-> 0, color |-> f.color]
      sharp == IF sharpness = <<>> THEN 500 ELSE (1000 * sharpness[1]) \div (sharpness[1] + 100)
  IN Clamp(sharp + (15 * k.focus) \div 100 + (100 * Min({k.faces, 3})) \div 3 + k.color \div 10
             - (1000 - k.eyes) \div 4 - k.red \div 5, 0, 1000)

------------------------------------------------------------------------------
(* Videos                                                                     *)

\* compute_hamming_distance of two frames, a distance on a line here.
Hamming(a, b) == Max({a, b}) - Min({a, b})

\* analyze_video and is_flagged: the reason why a video is not worth keeping, or none.
\* The frames that cannot be read count for nothing; the classifier, if there is one,
\* sees the first two of the others.
VideoReason(f, vision) ==
  LET frames == SelectSeq(f.frames, LAMBDA frame : frame.readable)
      blur == IF frames = <<>> THEN 0 ELSE Mean([i \in DOMAIN frames |-> frames[i].lap])
      Moves(i) == Hamming(frames[i - 1].hash, frames[i].hash) >= Motion
      shown == {i \in DOMAIN frames : vision /\ i <= 2 /\ frames[i].class # "real"}
  IN CASE ~f.readable -> "corrupt"
       [] f.readable /\ f.duration < MinDuration -> "too_short"
       [] OTHER -> IF blur > 0 /\ blur < VideoBlur THEN "blurry"
                   ELSE IF Len(frames) >= 2 /\ \A i \in 2 .. Len(frames) : ~Moves(i) THEN "static"
                   ELSE IF shown # {} THEN frames[Min(shown)].class
                   ELSE "none"
==============================================================================
