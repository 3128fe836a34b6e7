------------------------------- MODULE Deletion -------------------------------
(***************************************************************************)
(* The rules of gui/core/deletion.cpp: what the user decided, what the     *)
(* passes flagged, and which photos are deleted for it.  No state here:    *)
(* the wizard applies these rules (Review).                                *)
(*                                                                         *)
(* An intent is [kept, deleted, keepers]; keepers[g] is NoPhoto while the  *)
(* user chose no keeper for group g.  Flags are [quality, junk, video,     *)
(* similar], three sets of photos and a set of duplicate groups            *)
(* [id, members, keep].                                                    *)
(***************************************************************************)
EXTENDS Naturals

CONSTANTS
  Photos,   (* the ids of the index, videos included                          *)
  NoPhoto,
  GroupIds  (* the numbers a duplicate group can have                         *)

ASSUME PhotoAssumption == NoPhoto \notin Photos

Intents == [kept : SUBSET Photos, deleted : SUBSET Photos,
            keepers : [GroupIds -> Photos \cup {NoPhoto}]]
Groups == [id : GroupIds, members : SUBSET Photos, keep : Photos]
Flags == [quality : SUBSET Photos, junk : SUBSET Photos, video : SUBSET Photos,
          similar : SUBSET Groups]

Undecided == [kept |-> {}, deleted |-> {}, keepers |-> [g \in GroupIds |-> NoPhoto]]
NoFlags == [quality |-> {}, junk |-> {}, video |-> {}, similar |-> {}]

------------------------------------------------------------------------------
(* The user's choices.                                                        *)

WithKeepAll(i, ids) ==
  [i EXCEPT !.kept = @ \cup ids, !.deleted = @ \ (i.kept \cup ids)]

WithMarkAll(i, ids) ==
  [i EXCEPT !.deleted = @ \cup ids, !.kept = @ \ (i.deleted \cup ids)]

WithKept(i, p) == [i EXCEPT !.kept = @ \cup {p}, !.deleted = @ \ {p}]
WithMarked(i, p) == [i EXCEPT !.kept = @ \ {p}, !.deleted = @ \cup {p}]
WithKeeper(i, g, p) == [i EXCEPT !.keepers[g] = p]

------------------------------------------------------------------------------
(* The defaults beneath them.                                                 *)

\* The user's choice, else the recommendation.
KeeperOf(i, g) == IF i.keepers[g.id] # NoPhoto THEN i.keepers[g.id] ELSE g.keep

\* similar_keeper_map: a photo in a group that is not the group's keeper.  Where
\* groups overlap the code's map keeps the last; GroupsDisjoint says they do not.
Outshone(i, groups) ==
  {p \in Photos : \E g \in groups : p \in g.members /\ KeeperOf(i, g) # p}

\* What a step flags.
FlaggedBy(i, step, flags) ==
  IF step = "similar" THEN Outshone(i, flags.similar) ELSE flags[step]

\* Mutant: the pass is asked before the user's keep.
MarkedByFlagsFirst(i, p, step, flags) ==
  \/ p \in i.deleted
  \/ p \in FlaggedBy(i, step, flags)

\* is_marked_for_deletion: the order of the rules is fixed.
IsMarked(i, p, step, flags) ==
  \/ p \in i.deleted
  \/ p \notin i.kept /\ p \in FlaggedBy(i, step, flags)

MarkedByAny(i, steps, flags) ==
  {p \in Photos : \E step \in steps : IsMarked(i, p, step, flags)}

DeletedIds(i, flags) ==
  MarkedByAny(i, {"quality", "junk", "similar", "video"}, flags)

\* What a pass is told to skip.
DeletedBeforeSimilar(i, flags) == MarkedByAny(i, {"quality"}, flags)
DeletedBeforeJunk(i, flags) == MarkedByAny(i, {"quality", "similar"}, flags)
DeletedBeforeVideo(i, flags) == MarkedByAny(i, {"quality", "junk", "similar"}, flags)

===============================================================================
