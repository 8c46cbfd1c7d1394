----------------------------- MODULE TreeProofs -----------------------------
(***************************************************************************)
(* Theorems about GroupTree: the tree stays sound as long as no two edits  *)
(* overlap, and the search for a proxy finds the nearest one.              *)
(***************************************************************************)
EXTENDS GroupTree, TLAPS

-----------------------------------------------------------------------------
(* Trees                                                                   *)

\* What the rows of a table say of each other, without cycles.
LevelsFollow(t) ==
  \A g \in Existing(t) :
    /\ t[g].parent \in Existing(t) \cup {None}
    /\ t[g].level = IF t[g].parent = None THEN 1 ELSE t[t[g].parent].level + 1
    /\ t[g].level <= 3

\* A group belongs to its own subtree.
LEMMA RootOfSubtree ==
  ASSUME NEW t, NEW g \in Existing(t)
  PROVE  g \in Subtree(t, g)
BY DEF Subtree, Ancestry

\* Any other group is in a subtree exactly if its parent is.
LEMMA SubtreeByParent ==
  ASSUME NEW t, NEW g \in Existing(t), NEW h \in Existing(t), h # g,
         t[h].parent \in Existing(t) \cup {None}, None \notin Existing(t)
  PROVE  h \in Subtree(t, g) <=> t[h].parent \in Subtree(t, g)
<1> DEFINE p == t[h].parent
<1>1. ASSUME h \in Subtree(t, g) PROVE p \in Subtree(t, g)
  <2>1. \A S \in Closed(t) : h \in S => g \in S
    BY <1>1 DEF Subtree, Ancestry
  <2>2. p # None
    <3>1. SUFFICES ASSUME p = None PROVE FALSE
      OBVIOUS
    <3>2. {h} \in Closed(t)
      BY <3>1 DEF Closed
    <3>3. QED
      BY <3>2, <2>1
  <2>3. ASSUME NEW S \in Closed(t), p \in S PROVE g \in S
    <3>1. S \cup {h} \in Closed(t)
      BY <2>3 DEF Closed
    <3>2. QED
      BY <3>1, <2>1
  <2>4. QED
    BY <2>2, <2>3 DEF Subtree, Ancestry
<1>2. ASSUME p \in Subtree(t, g) PROVE h \in Subtree(t, g)
  <2>1. p \in Existing(t) /\ \A S \in Closed(t) : p \in S => g \in S
    BY <1>2 DEF Subtree, Ancestry
  <2>2. ASSUME NEW S \in Closed(t), h \in S PROVE g \in S
    BY <2>1, <2>2 DEF Closed
  <2>3. QED
    BY <2>2 DEF Subtree, Ancestry
<1>3. QED
  BY <1>1, <1>2

\* Levels that follow the parents leave no room for a cycle.
LEMMA LevelsForbidCycles ==
  ASSUME NEW t \in Tables, LevelsFollow(t)
  PROVE  Sound(t)
<1>1. SUFFICES ASSUME NEW g \in Existing(t) PROVE ~InCycle(t, g)
  BY DEF Sound, LevelsFollow
<1> DEFINE p == t[g].parent
           S == {k \in Existing(t) : t[k].level < t[g].level}
<1>2. \A k \in Existing(t) : t[k].level \in 1..3
  BY DEF Existing, Tables, GroupRow
<1>3. SUFFICES ASSUME p # None PROVE g \notin Ancestry(t, p)
  BY DEF InCycle
<1>4. p \in Existing(t) /\ t[g].level = t[p].level + 1
  BY <1>1, <1>3 DEF LevelsFollow
<1>5. p \in S /\ g \notin S
  BY <1>2, <1>4, <1>1
<1>6. S \in Closed(t)
  <2>1. ASSUME NEW k \in S PROVE t[k].parent \in S \cup {None}
    BY <1>2, <1>1 DEF LevelsFollow
  <2>2. QED
    BY <2>1 DEF Closed
<1>7. QED
  BY <1>5, <1>6 DEF Ancestry

\* What soundness says without cycles.
LEMMA SoundLevels ==
  ASSUME NEW t, Sound(t)
  PROVE  LevelsFollow(t)
BY DEF Sound, LevelsFollow

\* Two tables that differ in proxies only.
SameShape(t, u) ==
  /\ Existing(u) = Existing(t)
  /\ \A g \in Existing(t) : u[g].parent = t[g].parent /\ u[g].level = t[g].level

\* Soundness is about parents and levels.
LEMMA SoundnessByShape ==
  ASSUME NEW t, NEW u \in Tables, Sound(t), SameShape(t, u)
  PROVE  Sound(u)
<1>1. LevelsFollow(u)
  BY SoundLevels DEF LevelsFollow, SameShape
<1>2. QED
  BY <1>1, LevelsForbidCycles

-----------------------------------------------------------------------------
(* What an edit makes of the tree it was planned on                        *)

\* A new group under an existing parent.
LEMMA CreateIsSound ==
  ASSUME tree \in Tables, Sound(tree), NEW edit, edit.kind = "create", edit.doomed = {},
         edit.group \in Nodes, tree[edit.group] = None,
         edit.parent \in Existing(tree) \cup {None},
         edit.parent # None => tree[edit.parent].level < 3,
         edit.level = [h \in {edit.group} |-> Level(edit.parent)],
         Edited(edit) \in Tables
  PROVE  Sound(Edited(edit))
<1> DEFINE u == Edited(edit)
           g == edit.group
           p == edit.parent
<1>1. u[g] = [parent |-> p, level |-> Level(p), proxy |-> None]
  BY DEF Edited
<1>2. ASSUME NEW h \in Existing(tree)
      PROVE  /\ h # g /\ u[h] # None
             /\ u[h].parent = tree[h].parent /\ u[h].level = tree[h].level
  <2>1. h # g /\ tree[h] # None /\ tree[h] \in GroupRow
    BY DEF Existing, Tables
  <2>2. u[h] = [tree[h] EXCEPT !.parent = @, !.level = @]
    BY <2>1 DEF Edited, Existing
  <2>3. u[h] = tree[h]
    BY <2>1, <2>2 DEF GroupRow
  <2>4. QED
    BY <2>1, <2>3
<1>3. Existing(u) = Existing(tree) \cup {g}
  <2>1. u[g] # None
    <3>1. p \in Nodes \cup {None} /\ Level(p) \in 1..3
      BY GroupAssumption DEF Existing, Tables, GroupRow, Level
    <3>2. u[g] \in GroupRow
      BY <1>1, <3>1 DEF GroupRow
    <3>3. QED
      BY <3>2, GroupAssumption
  <2>2. \A h \in Nodes : u[h] # None => h \in Existing(tree) \cup {g}
    BY DEF Edited, Existing
  <2>3. QED
    BY <1>2, <2>1, <2>2 DEF Existing
<1>4. LevelsFollow(tree) /\ \A h \in Existing(tree) : tree[h].level \in 1..3
  BY SoundLevels DEF Existing, Tables, GroupRow
<1>5. None \notin Nodes
  BY GroupAssumption
<1> HIDE DEF u
<1>6. ASSUME NEW h \in Existing(tree)
      PROVE  /\ u[h].parent \in Existing(u) \cup {None}
             /\ u[h].level = IF u[h].parent = None THEN 1 ELSE u[u[h].parent].level + 1
             /\ u[h].level <= 3
  BY <1>2, <1>3, <1>4 DEF LevelsFollow
<1>7. /\ u[g].parent \in Existing(u) \cup {None}
      /\ u[g].level = IF u[g].parent = None THEN 1 ELSE u[u[g].parent].level + 1
      /\ u[g].level <= 3
  BY <1>1, <1>2, <1>3, <1>4, <1>5 DEF Level, Existing
<1>8. LevelsFollow(u)
  BY <1>3, <1>6, <1>7 DEF LevelsFollow
<1>9. QED
  BY <1>8, LevelsForbidCycles DEF u

\* A subtree is deleted: what remains has its parents, as the foreign key would refuse it
\* otherwise.
LEMMA DeleteIsSound ==
  ASSUME tree \in Tables, Sound(tree), NEW edit, edit.kind = "delete",
         edit.level = [h \in {} |-> 1], Edited(edit) \in Tables, Accepted(edit)
  PROVE  Sound(Edited(edit))
<1> DEFINE u == Edited(edit)
<1>1. ASSUME NEW h \in Existing(u)
      PROVE  h \in Existing(tree) /\ u[h] = tree[h]
  <2>1. h \in Nodes /\ u[h] # None
    BY DEF Existing
  <2>2. h \notin edit.doomed /\ tree[h] # None
    BY <2>1 DEF Edited
  <2>3. u[h] = [tree[h] EXCEPT !.parent = @, !.level = @]
    BY <2>1, <2>2 DEF Edited
  <2>4. tree[h] \in GroupRow
    BY <2>1, <2>2 DEF Tables
  <2>5. QED
    BY <2>1, <2>2, <2>3, <2>4 DEF Existing, GroupRow
<1>2. \A h \in Existing(u) : u[h].parent \in Existing(u) \cup {None}
  BY DEF Accepted
<1>3. LevelsFollow(tree)
  BY SoundLevels
<1> HIDE DEF u
<1>4. LevelsFollow(u)
  BY <1>1, <1>2, <1>3 DEF LevelsFollow
<1>5. QED
  BY <1>4, LevelsForbidCycles DEF u

\* A subtree is moved and gets new levels, all of them by the same difference.
LEMMA MoveIsSound ==
  ASSUME tree \in Tables, Sound(tree), NEW g \in Existing(tree),
         NEW p \in Existing(tree) \cup {None}, p \notin Subtree(tree, g),
         NEW edit, edit.kind = IF p = tree[g].parent THEN "relevel" ELSE "move",
         edit.group = g, edit.parent = p, edit.level = Relevelled(g, p), edit.doomed = {},
         Edited(edit) \in Tables, Accepted(edit)
  PROVE  Sound(Edited(edit))
<1> DEFINE u == Edited(edit)
           difference == Level(p) - tree[g].level
           below == Subtree(tree, g)
<1>1. LevelsFollow(tree) /\ \A h \in Existing(tree) : tree[h].level \in 1..3
  BY SoundLevels DEF Existing, Tables, GroupRow
<1>2. None \notin Nodes /\ Existing(tree) \subseteq Nodes /\ below \subseteq Existing(tree)
  BY GroupAssumption DEF Existing, Subtree
<1>3. difference \in Int
  BY <1>1, <1>2 DEF Level
<1>4. DOMAIN edit.level = {h \in below : difference # 0}
  BY <1>1, <1>2 DEF Relevelled, Level
<1>5. ASSUME NEW h \in Existing(tree)
      PROVE  /\ u[h] # None
             /\ u[h].parent = IF h = g THEN p ELSE tree[h].parent
             /\ u[h].level = tree[h].level + (IF h \in below THEN difference ELSE 0)
  <2>1. h \in Nodes /\ tree[h] # None /\ tree[h] \in GroupRow
    BY DEF Existing, Tables
  <2> DEFINE parent == IF edit.kind = "move" /\ h = edit.group THEN edit.parent
                       ELSE tree[h].parent
             level == IF h \in DOMAIN edit.level THEN edit.level[h] ELSE tree[h].level
  <2>2. u[h] = [tree[h] EXCEPT !.parent = parent, !.level = level]
    BY <2>1 DEF Edited
  <2>3. parent = IF h = g THEN p ELSE tree[h].parent
    OBVIOUS
  <2>4. level = tree[h].level + (IF h \in below THEN difference ELSE 0)
    <3>1. CASE h \in DOMAIN edit.level
      <4>1. edit.level[h] = tree[h].level + Level(p) - tree[g].level
        BY <3>1 DEF Relevelled
      <4>2. QED
        BY <3>1, <4>1, <1>1, <1>2, <1>4 DEF Level
    <3>2. CASE h \notin DOMAIN edit.level
      BY <3>2, <1>1, <1>3, <1>4
    <3>3. QED
      BY <3>1, <3>2
  <2> HIDE DEF parent, level
  <2>5. u[h].parent = parent /\ u[h].level = level
    BY <2>1, <2>2 DEF GroupRow
  <2>6. u[h] # None
    <3>1. tree[h] \in GroupRow /\ None \notin GroupRow
      BY <2>1, GroupAssumption
    <3>2. h \notin DOMAIN edit.level \/ edit.level[h] \in 1..3
      BY DEF Accepted
    <3>3. level \in 1..3 /\ parent \in Nodes \cup {None}
      BY <2>1, <3>2, <1>2, <2>3 DEF level, GroupRow
    <3>4. [tree[h] EXCEPT !.parent = parent, !.level = level] \in GroupRow
      BY <3>1, <3>3 DEF GroupRow
    <3>5. QED
      BY <2>2, <3>1, <3>4
  <2>7. QED
    BY <2>3, <2>4, <2>5, <2>6
<1>6. Existing(u) = Existing(tree)
  <2>1. edit.kind # "create"
    OBVIOUS
  <2>2. \A h \in Nodes : u[h] # None => tree[h] # None
    BY <2>1 DEF Edited
  <2>3. QED
    BY <1>5, <2>2 DEF Existing
<1>7. g \in below
  BY RootOfSubtree
<1>8. \A h \in Existing(tree) \ {g} : h \in below <=> tree[h].parent \in below
  BY SubtreeByParent, <1>1, <1>2 DEF LevelsFollow
<1>9. \A h \in Existing(u) : u[h].parent \in Existing(u) \cup {None} /\ u[h].level <= 3
  <2>1. \A h \in Existing(u) : u[h].parent \in Existing(u) \cup {None}
    BY DEF Accepted
  <2>2. \A h \in Existing(u) : u[h].level \in 1..3
    BY GroupAssumption DEF Existing, Tables, GroupRow
  <2>3. QED
    BY <2>1, <2>2
<1> HIDE DEF u, below, difference
<1>10. ASSUME NEW h \in Existing(u)
       PROVE  u[h].level = IF u[h].parent = None THEN 1 ELSE u[u[h].parent].level + 1
  <2>1. CASE h = g
    <3>1. u[h].level = Level(p)
      BY <2>1, <1>1, <1>2, <1>5, <1>7 DEF difference, Level
    <3>2. p # None => u[p].level = tree[p].level
      BY <1>1, <1>5 DEF below
    <3>3. QED
      BY <2>1, <3>1, <3>2, <1>5, <1>6 DEF Level
  <2>2. CASE h # g /\ tree[h].parent = None
    <3>1. h \notin below
      BY <2>2, <1>2, <1>6, <1>8
    <3>2. QED
      BY <2>2, <3>1, <1>1, <1>5, <1>6 DEF LevelsFollow
  <2>3. CASE h # g /\ tree[h].parent # None
    <3> DEFINE k == tree[h].parent
    <3>1. k \in Existing(tree) /\ tree[h].level = tree[k].level + 1
      BY <2>3, <1>1, <1>6 DEF LevelsFollow
    <3>2. h \in below <=> k \in below
      BY <2>3, <1>6, <1>8
    <3>3. QED
      BY <2>3, <3>1, <3>2, <1>1, <1>3, <1>5, <1>6
  <2>4. QED
    BY <2>1, <2>2, <2>3
<1>11. LevelsFollow(u)
  BY <1>9, <1>10 DEF LevelsFollow
<1>12. QED
  BY <1>11, LevelsForbidCycles DEF u

-----------------------------------------------------------------------------
(* Types                                                                   *)

Levels == UNION {[S -> Int] : S \in SUBSET Nodes}

EditRecord ==
  [kind: {"idle", "create", "move", "relevel", "delete"}, group: Nodes \cup {None},
   parent: Nodes \cup {None}, level: Levels, doomed: SUBSET Nodes, moved: SUBSET {"account"}]

WalkRecord ==
  [at: Nodes \cup {None}, profile: Profiles \cup {None},
   source: Nodes \cup {"none", "account", "unasked"}, undisturbed: BOOLEAN]

\* A group that is created comes with its level.
Complete(edit) == edit.kind = "create" => edit.group \in Nodes /\ edit.group \in DOMAIN edit.level

TreeTyped ==
  /\ tree \in Tables
  /\ member \in [group: Nodes \cup {None}, proxy: Profiles \cup {None}]
  /\ editor \in [Editors -> EditRecord]
  /\ \A e \in Editors : Complete(editor[e])
  /\ walk \in WalkRecord
  /\ edits \in 0..MaxEdits /\ overlapped \in BOOLEAN

\* The tree is sound and an edit that was planned on it would leave it so, unless edits
\* have overlapped.
Harmless(edit) == Accepted(edit) => Sound(Edited(edit))

SoundInv ==
  ~overlapped =>
    Sound(tree) /\ \A e \in Editors : editor[e] # NoEdit => Harmless(editor[e])

\* The system groups stay at the top and the account in a group that is there.
MemberInv ==
  /\ SystemAtTop(tree)
  /\ member.group \in Existing(tree) \cup {None}
  /\ \A e \in Editors :
       /\ editor[e].kind # "delete" => editor[e].doomed = {}
       /\ editor[e].doomed \cap System = {}
       /\ editor[e].kind = "create" => editor[e].group \in Groups
       /\ editor[e].kind = "move" /\ editor[e].group \in System => editor[e].parent = None

\* The groups above the account that were passed have no profile that is enabled.
WalkInv ==
  walk.at # None /\ walk.undisturbed /\ ~overlapped =>
    /\ walk.profile = None /\ member.proxy \notin Enabled /\ member.group # None
    /\ walk.at \in Ancestry(tree, member.group)
    /\ \A g \in Ancestry(tree, member.group) :
         tree[g].proxy \in Enabled => g \in Ancestry(tree, walk.at)

TreeInv == TreeTyped /\ SoundInv /\ MemberInv /\ WalkInv /\ NearestProxy

\* Types of what an accepted edit writes.
LEMMA EditedTyped ==
  ASSUME tree \in Tables, NEW edit \in EditRecord, Complete(edit), Accepted(edit)
  PROVE  Edited(edit) \in Tables
<1> SUFFICES ASSUME NEW g \in Nodes
             PROVE  Edited(edit)[g] \in GroupRow \cup {None}
  BY DEF Edited, Tables
<1>1. \A h \in DOMAIN edit.level : edit.level[h] \in 1..3
  BY DEF Accepted
<1>2. edit.parent \in Nodes \cup {None}
  BY DEF EditRecord
<1>3. CASE edit.kind = "create" /\ g = edit.group
  <2>1. edit.level[g] \in 1..3
    BY <1>1, <1>3 DEF Complete
  <2>2. QED
    BY <1>2, <1>3, <2>1 DEF Edited, GroupRow
<1>4. CASE ~(edit.kind = "create" /\ g = edit.group) /\ (g \in edit.doomed \/ tree[g] = None)
  BY <1>4 DEF Edited
<1>5. CASE ~(edit.kind = "create" /\ g = edit.group) /\ ~(g \in edit.doomed \/ tree[g] = None)
  <2> DEFINE parent == IF edit.kind = "move" /\ g = edit.group THEN edit.parent
                       ELSE tree[g].parent
             level == IF g \in DOMAIN edit.level THEN edit.level[g] ELSE tree[g].level
  <2>1. Edited(edit)[g] = [tree[g] EXCEPT !.parent = parent, !.level = level]
    BY <1>5 DEF Edited
  <2>2. tree[g] \in GroupRow
    BY <1>5 DEF Tables
  <2>3. parent \in Nodes \cup {None} /\ level \in 1..3
    BY <1>1, <1>2, <2>2 DEF GroupRow
  <2> HIDE DEF parent, level
  <2>4. [tree[g] EXCEPT !.parent = parent, !.level = level] \in GroupRow
    BY <2>2, <2>3 DEF GroupRow
  <2>5. QED
    BY <2>1, <2>4
<1>6. QED
  BY <1>3, <1>4, <1>5

\* Where a proxy is assigned, parents and levels stay, of the tree and of what any edit would
\* make of it.
LEMMA ProxiesAreBeside ==
  ASSUME tree \in Tables, NEW g \in Existing(tree), NEW x \in Profiles \cup {None},
         tree' = [tree EXCEPT ![g].proxy = x]
  PROVE  /\ tree' \in Tables
         /\ SameShape(tree, tree')
         /\ \A edit \in EditRecord :
              Complete(edit) /\ Harmless(edit) => Harmless(edit)'
<1>1. g \in Nodes /\ tree[g] \in GroupRow /\ None \notin GroupRow
  BY GroupAssumption DEF Existing, Tables
<1>2. /\ tree'[g] = [tree[g] EXCEPT !.proxy = x]
      /\ \A h \in Nodes \ {g} : tree'[h] = tree[h]
  BY <1>1 DEF Tables
<1>3. /\ tree'[g] \in GroupRow
      /\ tree'[g].parent = tree[g].parent /\ tree'[g].level = tree[g].level
  BY <1>1, <1>2 DEF GroupRow
<1>4. tree' \in Tables
  BY <1>1, <1>3 DEF Tables
<1>5. \A h \in Nodes :
        /\ tree'[h] = None <=> tree[h] = None
        /\ tree'[h].parent = tree[h].parent /\ tree'[h].level = tree[h].level
  BY <1>1, <1>2, <1>3
<1>6. SameShape(tree, tree')
  BY <1>5 DEF SameShape, Existing
<1>7. ASSUME NEW edit \in EditRecord, Complete(edit), Harmless(edit), Accepted(edit)'
      PROVE  Sound(Edited(edit)')
  <2> DEFINE t == Edited(edit)
             u == Edited(edit)'
  <2>1. \A h \in DOMAIN edit.level : edit.level[h] \in 1..3
    BY <1>7 DEF Accepted
  <2>2. edit.parent \in Nodes \cup {None}
    BY DEF EditRecord
  <2>3. ASSUME NEW h \in Nodes
        PROVE  /\ u[h] = None <=> t[h] = None
               /\ t[h] # None => u[h].parent = t[h].parent /\ u[h].level = t[h].level
               /\ u[h] \in GroupRow \cup {None}
    <3>1. CASE edit.kind = "create" /\ h = edit.group
      <4>1. t[h] = u[h] /\ u[h] = [parent |-> edit.parent, level |-> edit.level[h], proxy |-> None]
        BY <3>1 DEF Edited
      <4>2. edit.level[h] \in 1..3
        BY <3>1, <2>1, <1>7 DEF Complete
      <4>3. u[h] \in GroupRow
        BY <4>1, <4>2, <2>2 DEF GroupRow
      <4>4. QED
        BY <4>1, <4>3
    <3>2. CASE ~(edit.kind = "create" /\ h = edit.group) /\ (h \in edit.doomed \/ tree[h] = None)
      BY <3>2, <1>5 DEF Edited
    <3>3. CASE ~(edit.kind = "create" /\ h = edit.group) /\ ~(h \in edit.doomed \/ tree[h] = None)
      <4> DEFINE parent == IF edit.kind = "move" /\ h = edit.group THEN edit.parent
                           ELSE tree[h].parent
                 level == IF h \in DOMAIN edit.level THEN edit.level[h] ELSE tree[h].level
      <4>1. t[h] = [tree[h] EXCEPT !.parent = parent, !.level = level]
        BY <3>3 DEF Edited
      <4>2. u[h] = [tree'[h] EXCEPT !.parent = parent, !.level = level]
        BY <3>3, <1>5 DEF Edited
      <4>3. tree[h] \in GroupRow /\ tree'[h] \in GroupRow
        BY <3>3, <1>4, <1>5 DEF Tables
      <4> HIDE DEF parent, level
      <4>4. t[h].parent = parent /\ u[h].parent = parent /\ t[h].level = level /\ u[h].level = level
        BY <4>1, <4>2, <4>3 DEF GroupRow
      <4>5. t[h] # None /\ u[h] # None
        <5>1. parent \in Nodes \cup {None} /\ level \in 1..3
          BY <2>1, <2>2, <4>3 DEF parent, level, GroupRow
        <5>2. t[h] \in GroupRow /\ u[h] \in GroupRow
          BY <4>1, <4>2, <4>3, <5>1 DEF GroupRow
        <5>3. QED
          BY <5>2, <1>1
      <4>6. u[h] \in GroupRow
        <5>1. parent \in Nodes \cup {None} /\ level \in 1..3
          BY <2>1, <2>2, <4>3 DEF parent, level, GroupRow
        <5>2. QED
          BY <4>2, <4>3, <5>1 DEF GroupRow
      <4>7. QED
        BY <4>4, <4>5, <4>6
    <3>4. QED
      BY <3>1, <3>2, <3>3
  <2>4. SameShape(t, u)
    BY <2>3 DEF SameShape, Existing
  <2>5. Existing(tree') = Existing(tree)
    BY <1>6 DEF SameShape
  <2>6. edit.kind = "create" => edit.group \in Nodes
    BY <1>7 DEF Complete
  <2>7. Accepted(edit)
    BY <2>4, <2>5, <2>6, <1>5, <1>7 DEF Accepted, SameShape
  <2>8. u \in Tables
    BY <2>3 DEF Edited, Tables
  <2>9. Sound(t)
    BY <2>7, <1>7 DEF Harmless
  <2>10. QED
    BY <2>4, <2>8, <2>9, SoundnessByShape
<1>8. ASSUME NEW edit \in EditRecord
      PROVE  Complete(edit) /\ Harmless(edit) => Harmless(edit)'
  BY <1>7 DEF Harmless
<1>9. QED
  BY <1>4, <1>6, <1>8

-----------------------------------------------------------------------------
(* Plans                                                                   *)

\* What the invariant asks of an edit at the time it is planned.
Safe(edit) ==
  /\ edit \in EditRecord /\ Complete(edit)
  /\ Sound(tree) => Harmless(edit)
  /\ edit.kind # "delete" => edit.doomed = {}
  /\ edit.doomed \cap System = {}
  /\ edit.kind = "create" => edit.group \in Groups
  /\ edit.kind = "move" /\ edit.group \in System => edit.parent = None

Planning(e) == MayEdit(e) /\ \E edit : Safe(edit) /\ Plan(e, edit)

\* Levels of groups that exist.
LEMMA LevelTyped ==
  ASSUME tree \in Tables, NEW p \in Existing(tree) \cup {None}
  PROVE  Level(p) \in Int
BY DEF Level, Existing, Tables, GroupRow

\* A record of an edit, field by field.
LEMMA RowsOfEdit ==
  ASSUME NEW k, NEW g, NEW p, NEW l
  PROVE  [NoEdit EXCEPT !.kind = k, !.group = g, !.parent = p, !.level = l]
           = [kind |-> k, group |-> g, parent |-> p, level |-> l, doomed |-> {}, moved |-> {}]
<1>1. SUFFICES ASSUME NEW z, z = NoEdit.level
      PROVE [[kind |-> "idle", group |-> None, parent |-> None, level |-> z,
              doomed |-> {}, moved |-> {}]
               EXCEPT !.kind = k, !.group = g, !.parent = p, !.level = l]
              = [kind |-> k, group |-> g, parent |-> p, level |-> l, doomed |-> {}, moved |-> {}]
  BY Zenon DEF NoEdit
<1> DEFINE n == [kind |-> "idle", group |-> None, parent |-> None, level |-> z,
                 doomed |-> {}, moved |-> {}]
<1>2. [n EXCEPT !.kind = k, !.group = g, !.parent = p, !.level = l]
        = [[[[n EXCEPT !.kind = k] EXCEPT !.group = g] EXCEPT !.parent = p] EXCEPT !.level = l]
  OBVIOUS
<1>3. [n EXCEPT !.kind = k] = [kind |-> k, group |-> None, parent |-> None, level |-> z,
                               doomed |-> {}, moved |-> {}]
  OBVIOUS
<1>4. [[kind |-> k, group |-> None, parent |-> None, level |-> z,
        doomed |-> {}, moved |-> {}] EXCEPT !.group = g]
        = [kind |-> k, group |-> g, parent |-> None, level |-> z, doomed |-> {}, moved |-> {}]
  OBVIOUS
<1>5. [[kind |-> k, group |-> g, parent |-> None, level |-> z,
        doomed |-> {}, moved |-> {}] EXCEPT !.parent = p]
        = [kind |-> k, group |-> g, parent |-> p, level |-> z, doomed |-> {}, moved |-> {}]
  OBVIOUS
<1>6. [[kind |-> k, group |-> g, parent |-> p, level |-> z,
        doomed |-> {}, moved |-> {}] EXCEPT !.level = l]
        = [kind |-> k, group |-> g, parent |-> p, level |-> l, doomed |-> {}, moved |-> {}]
  OBVIOUS
<1>7. QED
  BY <1>2, <1>3, <1>4, <1>5, <1>6, Zenon

\* The same for a deletion.
LEMMA RowsOfDeletion ==
  ASSUME NEW g, NEW d, NEW m
  PROVE  [NoEdit EXCEPT !.kind = "delete", !.group = g, !.doomed = d, !.moved = m]
           = [kind |-> "delete", group |-> g, parent |-> None, level |-> [h \in {} |-> 1],
              doomed |-> d, moved |-> m]
<1> DEFINE z == [h \in {} |-> 1]
           n == [kind |-> "idle", group |-> None, parent |-> None, level |-> z,
                 doomed |-> {}, moved |-> {}]
<1>1. NoEdit = n
  BY DEF NoEdit
<1> HIDE DEF z
<1>2. [n EXCEPT !.kind = "delete", !.group = g, !.doomed = d, !.moved = m]
        = [[[[n EXCEPT !.kind = "delete"] EXCEPT !.group = g] EXCEPT !.doomed = d]
             EXCEPT !.moved = m]
  OBVIOUS
<1>3. [n EXCEPT !.kind = "delete"]
        = [kind |-> "delete", group |-> None, parent |-> None, level |-> z,
           doomed |-> {}, moved |-> {}]
  OBVIOUS
<1>4. [[kind |-> "delete", group |-> None, parent |-> None, level |-> z,
        doomed |-> {}, moved |-> {}] EXCEPT !.group = g]
        = [kind |-> "delete", group |-> g, parent |-> None, level |-> z,
           doomed |-> {}, moved |-> {}]
  OBVIOUS
<1>5. [[kind |-> "delete", group |-> g, parent |-> None, level |-> z,
        doomed |-> {}, moved |-> {}] EXCEPT !.doomed = d]
        = [kind |-> "delete", group |-> g, parent |-> None, level |-> z,
           doomed |-> d, moved |-> {}]
  OBVIOUS
<1>6. [[kind |-> "delete", group |-> g, parent |-> None, level |-> z,
        doomed |-> d, moved |-> {}] EXCEPT !.moved = m]
        = [kind |-> "delete", group |-> g, parent |-> None, level |-> z,
           doomed |-> d, moved |-> m]
  OBVIOUS
<1>7. QED
  BY <1>1, <1>2, <1>3, <1>4, <1>5, <1>6, Zenon DEF z

LEMMA CreateIsPlanned ==
  ASSUME TreeTyped, NEW e \in Editors, NEW g \in Nodes, NEW p \in Nodes \cup {None},
         OpenCreate(e, g, p)
  PROVE  Planning(e)
<1> DEFINE edit == [kind |-> "create", group |-> g, parent |-> p,
                    level |-> [h \in {g} |-> Level(p)], doomed |-> {}, moved |-> {}]
<1>1. p \in Existing(tree) \cup {None} /\ g \in Groups /\ tree[g] = None
  BY DEF OpenCreate
<1>2. Level(p) \in Int
  BY <1>1, LevelTyped DEF TreeTyped
<1>3. edit.level \in Levels
  <2>1. edit.level \in [{g} -> Int]
    BY <1>2
  <2>2. QED
    BY <2>1 DEF Levels
<1>4. edit \in EditRecord /\ Complete(edit)
  BY <1>3 DEF EditRecord, Complete
<1>5. [NoEdit EXCEPT !.kind = "create", !.group = g, !.parent = p,
                     !.level = [h \in {g} |-> Level(p)]] = edit
  BY RowsOfEdit, Zenon
<1>6. MayEdit(e) /\ Plan(e, edit)
  BY <1>5 DEF OpenCreate
<1>7. p # None => tree[p].level < 3
  BY DEF OpenCreate
<1>8. Sound(tree) => Harmless(edit)
  <2>1. SUFFICES ASSUME Sound(tree), Accepted(edit) PROVE Sound(Edited(edit))
    BY DEF Harmless
  <2>2. Edited(edit) \in Tables
    BY <1>4, <2>1, EditedTyped DEF TreeTyped
  <2>3. /\ edit.kind = "create" /\ edit.doomed = {} /\ edit.group = g /\ edit.parent = p
        /\ edit.level = [h \in {g} |-> Level(p)]
    OBVIOUS
  <2> HIDE DEF edit
  <2>4. QED
    BY <1>1, <1>7, <2>1, <2>2, <2>3, CreateIsSound DEF TreeTyped
<1>9. Safe(edit)
  <2>1. edit.kind = "create" /\ edit.doomed = {} /\ edit.group = g
    OBVIOUS
  <2> HIDE DEF edit
  <2>2. QED
    BY <1>1, <1>4, <1>8, <2>1 DEF Safe
<1>10. QED
  BY <1>6, <1>9 DEF Planning

LEMMA MoveIsPlanned ==
  ASSUME TreeTyped, NEW e \in Editors, NEW g \in Nodes, NEW p \in Nodes \cup {None},
         OpenMove(e, g, p)
  PROVE  Planning(e)
<1> DEFINE kind == IF p = tree[g].parent THEN "relevel" ELSE "move"
           edit == [kind |-> kind, group |-> g, parent |-> p,
                    level |-> Relevelled(g, p), doomed |-> {}, moved |-> {}]
<1>1. /\ g \in Existing(tree) /\ p \in Existing(tree) \cup {None}
      /\ p \notin Subtree(tree, g) /\ (g \in System => p = None)
  BY DEF OpenMove
<1>2. Level(p) \in Int /\ \A h \in Existing(tree) : tree[h].level \in Int
  BY <1>1, LevelTyped DEF TreeTyped, Existing, Tables, GroupRow
<1>3. edit.level \in Levels
  <2> DEFINE D == {h \in Subtree(tree, g) : Level(p) # tree[g].level}
  <2>1. D \subseteq Existing(tree) /\ D \subseteq Nodes
    BY DEF Subtree, Existing
  <2>2. Relevelled(g, p) = [h \in D |-> tree[h].level + Level(p) - tree[g].level]
    BY DEF Relevelled
  <2>3. Relevelled(g, p) \in [D -> Int]
    BY <1>1, <1>2, <2>1, <2>2
  <2>4. QED
    BY <2>1, <2>3 DEF Levels
<1>4. kind \in {"relevel", "move"}
  OBVIOUS
<1>5. [NoEdit EXCEPT !.kind = kind, !.group = g, !.parent = p,
                     !.level = Relevelled(g, p)] = edit
  BY RowsOfEdit, Zenon
<1>6. MayEdit(e) /\ Plan(e, edit)
  BY <1>5 DEF OpenMove
<1> HIDE DEF kind
<1>7. edit \in EditRecord /\ Complete(edit)
  BY <1>3, <1>4 DEF EditRecord, Complete
<1>8. Sound(tree) => Harmless(edit)
  <2>1. SUFFICES ASSUME Sound(tree), Accepted(edit) PROVE Sound(Edited(edit))
    BY DEF Harmless
  <2>2. Edited(edit) \in Tables
    BY <1>7, <2>1, EditedTyped DEF TreeTyped
  <2>3. /\ edit.kind = (IF p = tree[g].parent THEN "relevel" ELSE "move")
        /\ edit.doomed = {} /\ edit.group = g /\ edit.parent = p
        /\ edit.level = Relevelled(g, p)
    BY DEF kind
  <2> HIDE DEF edit
  <2>4. QED
    BY <1>1, <2>1, <2>2, <2>3, MoveIsSound DEF TreeTyped
<1>9. Safe(edit)
  <2>1. edit.kind \in {"relevel", "move"} /\ edit.doomed = {} /\ edit.group = g /\ edit.parent = p
    BY <1>4
  <2> HIDE DEF edit
  <2>2. QED
    BY <1>1, <1>7, <1>8, <2>1 DEF Safe
<1>10. QED
  BY <1>6, <1>9 DEF Planning

LEMMA DeleteIsPlanned ==
  ASSUME TreeTyped, SystemAtTop(tree), NEW e \in Editors, NEW g \in Nodes, OpenDelete(e, g)
  PROVE  Planning(e)
<1> DEFINE doomed == Subtree(tree, g)
           moved == {a \in {"account"} : member.group \in doomed}
           edit == [kind |-> "delete", group |-> g, parent |-> None, level |-> [h \in {} |-> 1],
                    doomed |-> doomed, moved |-> moved]
<1>1. g \in Existing(tree) /\ g \notin System
  BY DEF OpenDelete
<1>2. doomed \subseteq Existing(tree) /\ doomed \subseteq Nodes
  BY DEF Subtree, Existing
<1>3. doomed \cap System = {}
  <2>1. SUFFICES ASSUME NEW h \in doomed \cap System PROVE FALSE
    OBVIOUS
  <2>2. h \in Existing(tree) /\ h # g /\ tree[h].parent = None
    BY <1>1, <1>2, <2>1 DEF SystemAtTop
  <2>3. None \notin Existing(tree)
    BY GroupAssumption DEF Existing
  <2>4. None \in doomed
    BY <1>1, <2>1, <2>2, <2>3, SubtreeByParent
  <2>5. QED
    BY <1>2, <2>3, <2>4
<1>4. [NoEdit EXCEPT !.kind = "delete", !.group = g, !.doomed = doomed, !.moved = moved] = edit
  BY RowsOfDeletion, Zenon
<1>5. MayEdit(e) /\ Plan(e, edit)
  BY <1>4 DEF OpenDelete
<1> HIDE DEF doomed
<1>6. edit.level \in Levels
  <2>1. edit.level \in [{} -> Int]
    OBVIOUS
  <2>2. QED
    BY <2>1 DEF Levels
<1>7. edit \in EditRecord /\ Complete(edit)
  BY <1>2, <1>6 DEF EditRecord, Complete
<1>8. Sound(tree) => Harmless(edit)
  <2>1. SUFFICES ASSUME Sound(tree), Accepted(edit) PROVE Sound(Edited(edit))
    BY DEF Harmless
  <2>2. Edited(edit) \in Tables
    BY <1>7, <2>1, EditedTyped DEF TreeTyped
  <2>3. edit.kind = "delete" /\ edit.level = [h \in {} |-> 1]
    OBVIOUS
  <2> HIDE DEF edit
  <2>4. QED
    BY <2>1, <2>2, <2>3, DeleteIsSound DEF TreeTyped
<1>9. Safe(edit)
  BY <1>3, <1>7, <1>8 DEF Safe
<1>10. QED
  BY <1>5, <1>9 DEF Planning

-----------------------------------------------------------------------------
(* The invariant                                                           *)

LEMMA NoEditTyped ==
  /\ NoEdit \in EditRecord /\ Complete(NoEdit)
  /\ NoEdit.doomed = {} /\ NoEdit.kind = "idle"
<1>1. [h \in {} |-> 1] \in Levels
  <2>1. [h \in {} |-> 1] \in [{} -> Int]
    OBVIOUS
  <2>2. QED
    BY <2>1 DEF Levels
<1> DEFINE z == [h \in {} |-> 1]
<1>2. NoEdit = [kind |-> "idle", group |-> None, parent |-> None, level |-> z,
                doomed |-> {}, moved |-> {}]
  BY DEF NoEdit
<1> HIDE DEF z
<1>3. QED
  BY <1>1, <1>2 DEF EditRecord, Complete, z

\* Nothing is claimed of a search that was disturbed.
LEMMA DisturbedSearch ==
  ASSUME walk \in WalkRecord, walk' = Disturb
  PROVE  walk' \in WalkRecord /\ WalkInv' /\ NearestProxy'
<1>1. walk' \in WalkRecord /\ walk'.undisturbed = FALSE
  BY DEF Disturb, WalkRecord
<1>2. QED
  BY <1>1 DEF WalkInv, NearestProxy

LEMMA SearchUntouched ==
  ASSUME WalkInv, NearestProxy, UNCHANGED <<tree, member, walk, overlapped>>
  PROVE  WalkInv' /\ NearestProxy'
BY DEF WalkInv, NearestProxy

\* What an edit would do depends on the tree only.
LEMMA HarmlessByTree ==
  ASSUME tree' = tree, NEW edit
  PROVE  Harmless(edit)' <=> Harmless(edit)
BY DEF Harmless, Accepted, Edited

LEMMA TreeInvInit == TreeInit => TreeInv
<1> SUFFICES ASSUME TreeInit PROVE TreeInv
  OBVIOUS
<1>1. tree \in Tables /\ Sound(tree) /\ SystemAtTop(tree)
  BY GroupAssumption DEF TreeInit
<1>2. walk = [at |-> None, profile |-> None, source |-> "unasked", undisturbed |-> TRUE]
  BY DEF TreeInit, Resting
<1>3. \A e \in Editors : editor[e] = NoEdit
  BY DEF TreeInit
<1>4. TreeTyped
  <2>1. editor \in [Editors -> EditRecord] /\ \A e \in Editors : Complete(editor[e])
    BY NoEditTyped DEF TreeInit
  <2>2. walk \in WalkRecord
    BY <1>2 DEF WalkRecord
  <2>3. member \in [group: Nodes \cup {None}, proxy: Profiles \cup {None}]
    BY DEF TreeInit, Existing
  <2>4. edits \in 0..MaxEdits /\ overlapped \in BOOLEAN
    <3>1. MaxEdits \in Nat
      BY GroupAssumption
    <3>2. edits = 0 /\ overlapped = FALSE
      BY Zenon DEF TreeInit
    <3>3. overlapped \in BOOLEAN
      BY <3>2, Zenon
    <3>4. QED
      BY <3>1, <3>2, <3>3
  <2>5. QED
    BY <1>1, <2>1, <2>2, <2>3, <2>4 DEF TreeTyped
<1>5. SoundInv
  BY <1>1, <1>3 DEF SoundInv
<1>6. MemberInv
  <2>1. member.group \in Existing(tree) \cup {None}
    BY DEF TreeInit
  <2>2. QED
    BY <1>1, <1>3, <2>1, NoEditTyped DEF MemberInv
<1>7. WalkInv /\ NearestProxy
  BY <1>2 DEF WalkInv, NearestProxy
<1>8. QED
  BY <1>4, <1>5, <1>6, <1>7 DEF TreeInv

\* An edit is planned, or given up.
LEMMA EditorStep ==
  ASSUME TreeInv, NEW e \in Editors, NEW edit, edit = NoEdit \/ Safe(edit),
         editor' = [editor EXCEPT ![e] = edit], edits' \in 0..MaxEdits,
         UNCHANGED <<tree, member, walk, overlapped>>
  PROVE  TreeInv'
<1>1. edit \in EditRecord /\ Complete(edit) /\ edit.doomed \cap System = {}
      /\ (edit.kind # "delete" => edit.doomed = {})
      /\ (edit.kind = "create" => edit.group \in Groups)
      /\ (edit.kind = "move" /\ edit.group \in System => edit.parent = None)
  BY NoEditTyped DEF Safe
<1>2. /\ editor'[e] = edit
      /\ \A d \in Editors \ {e} : editor'[d] = editor[d]
  BY DEF TreeInv, TreeTyped
<1>3. TreeTyped'
  <2>1. editor' \in [Editors -> EditRecord]
    BY <1>1 DEF TreeInv, TreeTyped
  <2>2. \A d \in Editors : Complete(editor'[d])
    BY <1>1, <1>2 DEF TreeInv, TreeTyped
  <2>3. QED
    BY <2>1, <2>2 DEF TreeInv, TreeTyped, Complete
<1>4. SoundInv'
  <2>1. SUFFICES ASSUME ~overlapped
                 PROVE  /\ Sound(tree)
                        /\ \A d \in Editors : editor'[d] # NoEdit => Harmless(editor'[d])
    <3>1. \A x : Harmless(x)' <=> Harmless(x)
      BY HarmlessByTree
    <3>2. QED
      BY <3>1 DEF SoundInv
  <2>2. Sound(tree) /\ \A d \in Editors : editor[d] # NoEdit => Harmless(editor[d])
    BY <2>1 DEF TreeInv, SoundInv
  <2>3. edit # NoEdit => Harmless(edit)
    BY <2>2 DEF Safe
  <2>4. QED
    BY <1>2, <2>2, <2>3
<1>5. MemberInv'
  BY <1>1, <1>2 DEF TreeInv, MemberInv, SystemAtTop
<1>6. WalkInv' /\ NearestProxy'
  BY SearchUntouched DEF TreeInv
<1>7. QED
  BY <1>3, <1>4, <1>5, <1>6 DEF TreeInv

LEMMA PlanningStep ==
  ASSUME TreeInv, NEW e \in Editors, Planning(e)
  PROVE  TreeInv'
<1>1. PICK edit : Safe(edit) /\ Plan(e, edit)
  BY DEF Planning
<1>2. edits' \in 0..MaxEdits
  BY <1>1, GroupAssumption DEF Planning, MayEdit, Plan, TreeInv, TreeTyped
<1>3. QED
  BY <1>1, <1>2, EditorStep DEF Plan

\* Only a deletion of everything above it could take the group of the account away.
LEMMA CommitEditStep ==
  ASSUME TreeInv, NEW e \in Editors, CommitEdit(e)
  PROVE  TreeInv'
<1> DEFINE edit == editor[e]
<1>1. /\ edit # NoEdit /\ Accepted(edit) /\ tree' = Edited(edit)
      /\ editor' = [editor EXCEPT ![e] = NoEdit] /\ walk' = Disturb
      /\ overlapped' = (overlapped \/ Busy # {e}) /\ edits' = edits
      /\ member' = IF edit.kind # "delete" \/ member.group \notin edit.doomed THEN member
                   ELSE [member EXCEPT !.group = IF edit.moved # {} THEN Default ELSE None]
  BY DEF CommitEdit
<1>2. edit \in EditRecord /\ Complete(edit) /\ tree \in Tables
  BY DEF TreeInv, TreeTyped
<1>3. tree' \in Tables
  BY <1>1, <1>2, EditedTyped
<1>4. /\ editor'[e] = NoEdit
      /\ \A d \in Editors \ {e} : editor'[d] = editor[d]
      /\ editor' \in [Editors -> EditRecord]
  BY <1>1, NoEditTyped DEF TreeInv, TreeTyped
<1>5. walk' \in WalkRecord /\ WalkInv' /\ NearestProxy'
  BY <1>1, DisturbedSearch DEF TreeInv, TreeTyped
<1>6. member' \in [group: Nodes \cup {None}, proxy: Profiles \cup {None}]
  <2> DEFINE g == IF edit.moved # {} THEN Default ELSE None
  <2>1. g \in Nodes \cup {None}
    BY DEF Nodes, System
  <2>2. member \in [group: Nodes \cup {None}, proxy: Profiles \cup {None}]
    BY DEF TreeInv, TreeTyped
  <2> HIDE DEF g
  <2>3. [member EXCEPT !.group = g] \in [group: Nodes \cup {None}, proxy: Profiles \cup {None}]
    BY <2>1, <2>2
  <2>4. QED
    BY <1>1, <2>2, <2>3 DEF g
<1>7. TreeTyped'
  <2>1. \A d \in Editors : Complete(editor'[d])
    BY <1>4, NoEditTyped DEF TreeInv, TreeTyped
  <2>2. edits' \in 0..MaxEdits /\ overlapped' \in BOOLEAN
    BY <1>1 DEF TreeInv, TreeTyped
  <2>3. QED
    BY <1>3, <1>4, <1>5, <1>6, <2>1, <2>2 DEF TreeTyped, Complete
<1>8. SoundInv'
  <2>1. SUFFICES ASSUME ~overlapped'
                 PROVE  Sound(tree') /\ \A d \in Editors : editor'[d] = NoEdit
    BY DEF SoundInv
  <2>2. ~overlapped /\ Busy = {e}
    BY <1>1, <2>1
  <2>3. Sound(tree')
    BY <1>1, <2>2 DEF TreeInv, SoundInv, Harmless
  <2>4. \A d \in Editors : editor'[d] = NoEdit
    BY <1>4, <2>2 DEF Busy
  <2>5. QED
    BY <2>3, <2>4
<1>9. ASSUME NEW g \in Existing(tree), edit.kind # "delete" \/ g \notin edit.doomed
      PROVE  /\ g \in Existing(tree')
             /\ tree'[g].parent = IF edit.kind = "move" /\ g = edit.group THEN edit.parent
                                  ELSE tree[g].parent
  <2> DEFINE parent == IF edit.kind = "move" /\ g = edit.group THEN edit.parent
                       ELSE tree[g].parent
             level == IF g \in DOMAIN edit.level THEN edit.level[g] ELSE tree[g].level
  <2>1. g \in Nodes /\ tree[g] # None /\ tree[g] \in GroupRow /\ None \notin GroupRow
    BY <1>2, GroupAssumption DEF Existing, Tables
  <2>2. g \notin edit.doomed
    BY <1>9 DEF TreeInv, MemberInv
  <2>3. ~(edit.kind = "create" /\ g = edit.group)
    BY <1>1, <2>1 DEF Accepted
  <2>4. tree'[g] = [tree[g] EXCEPT !.parent = parent, !.level = level]
    BY <1>1, <2>1, <2>2, <2>3 DEF Edited
  <2>5. parent \in Nodes \cup {None} /\ level \in 1..3
    BY <1>1, <1>2, <2>1 DEF Accepted, EditRecord, GroupRow
  <2> HIDE DEF parent, level
  <2>6. tree'[g] \in GroupRow /\ tree'[g].parent = parent
    BY <2>1, <2>4, <2>5 DEF GroupRow
  <2>7. QED
    BY <2>1, <2>6 DEF Existing, parent
<1>10. SystemAtTop(tree')
  <2>1. SystemAtTop(tree) /\ edit.doomed \cap System = {}
        /\ (edit.kind = "move" /\ edit.group \in System => edit.parent = None)
    BY DEF TreeInv, MemberInv
  <2>2. Default \in Existing(tree')
    BY <1>9, <2>1 DEF SystemAtTop, System
  <2>3. ASSUME NEW g \in System \cap Existing(tree') PROVE tree'[g].parent = None
    <3>1. CASE g \in Existing(tree)
      BY <1>9, <2>1, <3>1 DEF SystemAtTop
    <3>2. CASE g \notin Existing(tree)
      <4>1. edit.kind = "create" /\ g = edit.group
        BY <1>1, <3>2 DEF Edited, Existing
      <4>2. edit.group \in Groups
        BY <4>1 DEF TreeInv, MemberInv
      <4>3. QED
        BY <4>1, <4>2, GroupAssumption DEF System
    <3>3. QED
      BY <3>1, <3>2
  <2>4. QED
    BY <2>2, <2>3 DEF SystemAtTop
<1>11. member'.group \in Existing(tree') \cup {None}
  <2>1. member.group \in Existing(tree) \cup {None}
    BY DEF TreeInv, MemberInv
  <2>2. CASE edit.kind # "delete" \/ member.group \notin edit.doomed
    BY <1>1, <1>9, <2>1, <2>2
  <2>3. CASE ~(edit.kind # "delete" \/ member.group \notin edit.doomed)
    <3>1. member'.group \in {Default, None}
      BY <1>1, <2>3 DEF TreeInv, TreeTyped
    <3>2. QED
      BY <1>10, <3>1 DEF SystemAtTop
  <2>4. QED
    BY <2>2, <2>3
<1>12. MemberInv'
  BY <1>4, <1>10, <1>11, NoEditTyped DEF TreeInv, MemberInv
<1>13. QED
  BY <1>5, <1>7, <1>8, <1>12 DEF TreeInv

LEMMA AssignGroupStep ==
  ASSUME TreeInv, NEW g \in Nodes \cup {None}, AssignGroup(g)
  PROVE  TreeInv'
<1>1. /\ g \in Existing(tree) \cup {None} /\ edits < MaxEdits
      /\ member' = [member EXCEPT !.group = g]
      /\ walk' = Disturb /\ edits' = edits + 1
      /\ UNCHANGED <<tree, editor, overlapped>>
  BY DEF AssignGroup
<1>2. walk' \in WalkRecord /\ WalkInv' /\ NearestProxy'
  BY <1>1, DisturbedSearch DEF TreeInv, TreeTyped
<1>3. /\ member' \in [group: Nodes \cup {None}, proxy: Profiles \cup {None}]
      /\ member'.group = g
  BY <1>1 DEF TreeInv, TreeTyped
<1>4. edits' \in 0..MaxEdits
  <2>1. MaxEdits \in Nat
    BY GroupAssumption
  <2>2. QED
    BY <1>1, <2>1 DEF TreeInv, TreeTyped
<1>5. TreeTyped'
  BY <1>1, <1>2, <1>3, <1>4 DEF TreeInv, TreeTyped, Complete
<1>6. SoundInv'
  <2>1. \A x : Harmless(x)' <=> Harmless(x)
    BY <1>1, HarmlessByTree
  <2>2. QED
    BY <1>1, <2>1 DEF TreeInv, SoundInv
<1>7. MemberInv'
  BY <1>1, <1>3 DEF TreeInv, MemberInv
<1>8. QED
  BY <1>2, <1>5, <1>6, <1>7 DEF TreeInv

LEMMA AssignProxyStep ==
  ASSUME TreeInv, NEW g \in Nodes, NEW x \in Profiles \cup {None}, AssignGroupProxy(g, x)
  PROVE  TreeInv'
<1>1. /\ g \in Existing(tree) /\ edits < MaxEdits
      /\ tree' = [tree EXCEPT ![g].proxy = x]
      /\ walk' = Disturb /\ edits' = edits + 1
      /\ UNCHANGED <<member, editor, overlapped>>
  BY DEF AssignGroupProxy
<1>2. walk' \in WalkRecord /\ WalkInv' /\ NearestProxy'
  BY <1>1, DisturbedSearch DEF TreeInv, TreeTyped
<1>3. /\ tree' \in Tables
      /\ SameShape(tree, tree')
      /\ \A edit \in EditRecord :
           Complete(edit) /\ Harmless(edit) => Harmless(edit)'
  BY <1>1, ProxiesAreBeside DEF TreeInv, TreeTyped
<1>4. edits' \in 0..MaxEdits
  <2>1. MaxEdits \in Nat
    BY GroupAssumption
  <2>2. QED
    BY <1>1, <2>1 DEF TreeInv, TreeTyped
<1>5. TreeTyped'
  BY <1>1, <1>2, <1>3, <1>4 DEF TreeInv, TreeTyped, Complete
<1>6. SoundInv'
  <2>1. ~overlapped => Sound(tree')
    BY <1>3, SoundnessByShape DEF TreeInv, SoundInv
  <2>2. ASSUME ~overlapped, NEW e \in Editors, editor'[e] # NoEdit PROVE Harmless(editor[e])'
    <3>1. editor'[e] = editor[e] /\ editor[e] \in EditRecord /\ Complete(editor[e])
      BY <1>1 DEF TreeInv, TreeTyped
    <3>2. Harmless(editor[e])
      BY <2>2, <3>1 DEF TreeInv, SoundInv
    <3>3. QED
      BY <1>3, <3>1, <3>2
  <2>3. QED
    BY <1>1, <2>1, <2>2 DEF SoundInv
<1>7. MemberInv'
  BY <1>1, <1>3 DEF TreeInv, MemberInv, SystemAtTop, SameShape
<1>8. QED
  BY <1>2, <1>5, <1>6, <1>7 DEF TreeInv

\* The search begins at the group of the account.
LEMMA StartStep ==
  ASSUME TreeInv, StartWalk
  PROVE  TreeInv'
<1>1. UNCHANGED <<tree, member, editor, edits, overlapped>>
  BY DEF StartWalk
<1>2. member.group \in Existing(tree) \cup {None} /\ member.proxy \in Profiles \cup {None}
  BY DEF TreeInv, MemberInv, TreeTyped
<1>3. Resting = [at |-> None, profile |-> None, source |-> "none", undisturbed |-> TRUE]
  BY DEF Resting
<1>4. None \notin Nodes \cup Profiles /\ Enabled \subseteq Profiles
  BY GroupAssumption
<1>5. /\ walk' \in WalkRecord
      /\ IF member.proxy \in Enabled
         THEN walk'.at = None /\ walk'.source = "account"
         ELSE walk'.at = member.group /\ walk'.profile = None
  <2>1. CASE member.proxy \in Enabled
    <3>1. walk' = [Resting EXCEPT !.profile = member.proxy, !.source = "account"]
      BY <2>1 DEF StartWalk
    <3>2. Resting \in WalkRecord
      BY <1>3 DEF WalkRecord
    <3>3. walk' \in WalkRecord /\ walk'.at = Resting.at /\ walk'.source = "account"
      BY <1>2, <3>1, <3>2 DEF WalkRecord
    <3>4. QED
      BY <1>3, <2>1, <3>3
  <2>2. CASE member.proxy \notin Enabled
    <3>1. walk' = [Resting EXCEPT !.at = member.group]
      BY <2>2 DEF StartWalk
    <3>2. Resting \in WalkRecord
      BY <1>3 DEF WalkRecord
    <3>3. walk' \in WalkRecord /\ walk'.at = member.group /\ walk'.profile = Resting.profile
      BY <1>2, <3>1, <3>2 DEF WalkRecord, Existing
    <3>4. QED
      BY <1>3, <2>2, <3>3
  <2>3. QED
    BY <2>1, <2>2
<1>6. TreeTyped'
  BY <1>1, <1>5 DEF TreeInv, TreeTyped, Complete
<1>7. SoundInv'
  <2>1. \A x : Harmless(x)' <=> Harmless(x)
    BY <1>1, HarmlessByTree
  <2>2. QED
    BY <1>1, <2>1 DEF TreeInv, SoundInv
<1>8. MemberInv'
  BY <1>1 DEF TreeInv, MemberInv
<1>9. WalkInv'
  <2>1. member.group # None => member.group \in Ancestry(tree, member.group)
    BY <1>2 DEF Ancestry
  <2>2. QED
    BY <1>1, <1>4, <1>5, <2>1 DEF WalkInv
<1>10. NearestProxy'
  BY <1>1, <1>5 DEF NearestProxy
<1>11. QED
  BY <1>6, <1>7, <1>8, <1>9, <1>10 DEF TreeInv

\* What is above a group is that group or above its parent.
LEMMA AncestryByParent ==
  ASSUME tree \in Tables, LevelsFollow(tree), NEW g \in Existing(tree),
         NEW k \in Ancestry(tree, g), k # g
  PROVE  tree[g].parent # None /\ k \in Ancestry(tree, tree[g].parent)
<1>1. k \in Existing(tree) /\ g \in Subtree(tree, k)
  BY DEF Ancestry, Subtree
<1>2. None \notin Existing(tree) /\ tree[g].parent \in Existing(tree) \cup {None}
  BY GroupAssumption DEF Existing, LevelsFollow
<1>3. tree[g].parent \in Subtree(tree, k)
  BY <1>1, <1>2, SubtreeByParent
<1>4. QED
  BY <1>2, <1>3 DEF Subtree

LEMMA ClimbStep ==
  ASSUME TreeInv, WalkUp
  PROVE  TreeInv'
<1> DEFINE g == walk.at
<1>1. UNCHANGED <<tree, member, editor, edits, overlapped>> /\ g # None
  BY DEF WalkUp
<1>2. walk \in WalkRecord /\ tree \in Tables
  BY DEF TreeInv, TreeTyped
<1>3. /\ g \notin Existing(tree) => walk' = [walk EXCEPT !.at = None]
      /\ g \in Existing(tree) /\ tree[g].proxy \in Enabled =>
           walk' = [walk EXCEPT !.at = None, !.profile = tree[g].proxy, !.source = g]
      /\ g \in Existing(tree) /\ tree[g].proxy \notin Enabled =>
           walk' = [walk EXCEPT !.at = tree[g].parent]
  BY DEF WalkUp, Usable, NextGroup
<1>4. g \in Existing(tree) => tree[g] \in GroupRow
  BY <1>2 DEF Existing, Tables
<1>5. /\ walk' \in WalkRecord
      /\ walk'.undisturbed = walk.undisturbed
      /\ g \notin Existing(tree) => walk'.at = None
      /\ g \in Existing(tree) /\ tree[g].proxy \in Enabled =>
           walk'.at = None /\ walk'.source = g /\ walk'.profile = tree[g].proxy
      /\ g \in Existing(tree) /\ tree[g].proxy \notin Enabled =>
           walk'.at = tree[g].parent /\ walk'.source = walk.source /\ walk'.profile = walk.profile
  <2>1. CASE g \notin Existing(tree)
    BY <1>2, <1>3, <2>1 DEF WalkRecord
  <2>2. CASE g \in Existing(tree) /\ tree[g].proxy \in Enabled
    <3>1. g \in Nodes /\ tree[g].proxy \in Profiles \cup {None}
      BY <1>4, <2>2 DEF Existing, GroupRow
    <3>2. QED
      BY <1>2, <1>3, <2>2, <3>1 DEF WalkRecord
  <2>3. CASE g \in Existing(tree) /\ tree[g].proxy \notin Enabled
    <3>1. tree[g].parent \in Nodes \cup {None}
      BY <1>4, <2>3 DEF GroupRow
    <3>2. QED
      BY <1>2, <1>3, <2>3, <3>1 DEF WalkRecord
  <2>4. QED
    BY <2>1, <2>2, <2>3
<1>6. TreeTyped'
  BY <1>1, <1>5 DEF TreeInv, TreeTyped, Complete
<1>7. SoundInv'
  <2>1. \A x : Harmless(x)' <=> Harmless(x)
    BY <1>1, HarmlessByTree
  <2>2. QED
    BY <1>1, <2>1 DEF TreeInv, SoundInv
<1>8. MemberInv'
  BY <1>1 DEF TreeInv, MemberInv
<1>9. SUFFICES ASSUME walk'.undisturbed, ~overlapped
               PROVE  WalkInv' /\ NearestProxy'
  BY <1>1, <1>6, <1>7, <1>8 DEF TreeInv, WalkInv, NearestProxy
<1> DEFINE A == Ancestry(tree, member.group)
<1>10. /\ walk.profile = None /\ member.proxy \notin Enabled /\ member.group # None
       /\ g \in A /\ \A k \in A : tree[k].proxy \in Enabled => k \in Ancestry(tree, g)
  BY <1>1, <1>5, <1>9 DEF TreeInv, WalkInv
<1>11. g \in Existing(tree) /\ LevelsFollow(tree)
  BY <1>9, <1>10, SoundLevels DEF Ancestry, TreeInv, SoundInv
<1>12. None \notin Existing(tree) /\ tree[g].parent \in Existing(tree) \cup {None}
  BY <1>11, GroupAssumption DEF Existing, LevelsFollow
<1>13. CASE tree[g].proxy \in Enabled
  <2>1. walk'.at = None /\ walk'.source = g
    BY <1>5, <1>11, <1>13
  <2>2. QED
    BY <1>1, <1>10, <1>13, <2>1 DEF WalkInv, NearestProxy
<1>14. CASE tree[g].proxy \notin Enabled
  <2> DEFINE p == tree[g].parent
  <2>1. walk'.at = p /\ walk'.profile = None
    BY <1>5, <1>10, <1>11, <1>14
  <2>2. \A k \in A : tree[k].proxy \in Enabled => p # None /\ k \in Ancestry(tree, p)
    BY <1>2, <1>10, <1>11, <1>14, AncestryByParent
  <2>3. p # None => p \in A
    BY <1>10, <1>12 DEF Ancestry, Closed
  <2>4. WalkInv'
    BY <1>1, <1>10, <2>1, <2>2, <2>3 DEF WalkInv
  <2>5. NearestProxy'
    BY <1>1, <1>10, <2>1, <2>2 DEF NearestProxy
  <2>6. QED
    BY <2>4, <2>5
<1>15. QED
  BY <1>13, <1>14

LEMMA TreeInvStep == TreeInv /\ [TreeNext]_groupVars => TreeInv'
<1> SUFFICES ASSUME TreeInv, [TreeNext]_groupVars PROVE TreeInv'
  OBVIOUS
<1>1. ASSUME NEW e \in Editors, NEW g \in Nodes, NEW p \in Nodes \cup {None},
             OpenCreate(e, g, p) \/ OpenMove(e, g, p)
      PROVE  TreeInv'
  BY <1>1, CreateIsPlanned, MoveIsPlanned, PlanningStep DEF TreeInv
<1>2. ASSUME NEW e \in Editors, NEW g \in Nodes, OpenDelete(e, g) PROVE TreeInv'
  BY <1>2, DeleteIsPlanned, PlanningStep DEF TreeInv, MemberInv
<1>3. ASSUME NEW e \in Editors, EditFails(e) PROVE TreeInv'
  <2>1. edits' \in 0..MaxEdits
    BY <1>3 DEF EditFails, TreeInv, TreeTyped
  <2>2. QED
    BY <1>3, <2>1, EditorStep DEF EditFails
<1>4. CASE UNCHANGED groupVars
  <2>1. TreeTyped' /\ MemberInv'
    BY <1>4 DEF groupVars, TreeInv, TreeTyped, MemberInv, Complete
  <2>2. SoundInv'
    <3>1. \A x : Harmless(x)' <=> Harmless(x)
      BY <1>4, HarmlessByTree DEF groupVars
    <3>2. QED
      BY <1>4, <3>1 DEF TreeInv, SoundInv, groupVars
  <2>3. WalkInv' /\ NearestProxy'
    BY <1>4, SearchUntouched DEF groupVars, TreeInv
  <2>4. QED
    BY <2>1, <2>2, <2>3 DEF TreeInv
<1> HIDE DEF TreeInv
<1>5. QED
  BY <1>1, <1>2, <1>3, <1>4, CommitEditStep, AssignGroupStep, AssignProxyStep, StartStep, ClimbStep
     DEF TreeNext

LEMMA TreeInvariant == TreeSpec => []TreeInv
<1>1. QED
  BY TreeInvInit, TreeInvStep, PTL DEF TreeSpec

-----------------------------------------------------------------------------
(* Theorems                                                                *)

\* Every reachable tree, account, edit and search is well typed.
THEOREM TreeTypes == TreeSpec => []TreeTypeOK
<1>1. TreeInv => TreeTypeOK
  BY DEF TreeInv, TreeTyped, TreeTypeOK, EditRecord, WalkRecord
<1>2. QED
  BY <1>1, TreeInvariant, PTL

\* update_group and delete_group check what they read without a lock; as long as no two edits
\* overlap, that is enough: groups form a forest of at most three levels, and levels are right.
THEOREM TreeStaysSound == TreeSpec => []TreeSound
<1>1. TreeInv => TreeSound
  BY DEF TreeInv, SoundInv, TreeSound
<1>2. QED
  BY <1>1, TreeInvariant, PTL

\* resolve_account_proxy returns the account's own profile or that of the nearest group above it
\* that has an enabled one, in a tree of any shape that does not change meanwhile.
THEOREM NearestIsFound == TreeSpec => []NearestProxy
<1>1. TreeInv => NearestProxy
  BY DEF TreeInv
<1>2. QED
  BY <1>1, TreeInvariant, PTL
=============================================================================
