------------------------------ MODULE GroupTree ------------------------------
(***************************************************************************)
(* The tree of groups, at most three levels deep, an account that is in    *)
(* one of them, and the walk up the tree that looks for its proxy.         *)
(*                                                                         *)
(* Edits read the whole tree without locks, check it, and write what they  *)
(* have worked out: OpenCreate, OpenMove and OpenDelete, then a commit.    *)
(***************************************************************************)
EXTENDS Integers, FiniteSets, Null

CONSTANTS
  Groups,              \* ids of the groups that users make
  Default, Temporary,  \* the system groups
  Editors,             \* API sessions that edit the tree
  Profiles,            \* proxy profiles
  Enabled,             \* those of them that are enabled
  Trees,               \* trees to begin with
  MaxEdits             \* bound on the edits of the tree

System == {Default, Temporary}
Nodes == Groups \cup System

GroupRow == [parent: Nodes \cup {None}, level: 1..3, proxy: Profiles \cup {None}]

\* What there may be of the groups table.
Tables == [Nodes -> GroupRow \cup {None}]

Existing(t) == {g \in Nodes : t[g] # None}

\* A set of groups nothing leads out of, upwards.
Closed(t) == {S \in SUBSET Existing(t) : \A g \in S : t[g].parent \in S \cup {None}}

\* g and everything above it.
Ancestry(t, g) ==
  LET above == {S \in Closed(t) : g \in S} IN {h \in Existing(t) : \A S \in above : h \in S}

\* _descendant_ids, with g itself.
Subtree(t, g) == {h \in Existing(t) : g \in Ancestry(t, h)}

InCycle(t, g) == t[g].parent # None /\ g \in Ancestry(t, t[g].parent)

\* _subtree_depth: the longest way down from g.
Depth(t, g) ==
  LET ways == {Cardinality(Subtree(t, g) \cap Ancestry(t, h)) : h \in Subtree(t, g)} IN
  CHOOSE d \in ways : \A other \in ways : d >= other

\* Parents are there, levels follow them, and nothing is its own ancestor.
Sound(t) ==
  \A g \in Existing(t) :
    /\ t[g].parent \in Existing(t) \cup {None}
    /\ ~InCycle(t, g)
    /\ t[g].level = IF t[g].parent = None THEN 1 ELSE t[t[g].parent].level + 1
    /\ t[g].level <= 3

\* The migrations have made the default group, and kept the temporary one if it was in use.
SystemAtTop(t) ==
  Default \in Existing(t) /\ \A g \in System \cap Existing(t) : t[g].parent = None

ASSUME GroupAssumption ==
  /\ IsFiniteSet(Groups)
  /\ Default \notin Groups /\ Temporary \notin Groups /\ Default # Temporary
  /\ Enabled \subseteq Profiles
  /\ None \notin Nodes \cup Profiles \cup GroupRow
  /\ \A t \in Trees : t \in Tables /\ Sound(t) /\ SystemAtTop(t)
  /\ MaxEdits \in Nat

VARIABLES
  tree,        \* the groups rows: parent_id, level and proxy_profile_id
  member,      \* the account: group_id and proxy_profile_id
  editor,      \* what each session is about to write
  walk,        \* resolve_account_proxy: the group it looks at next and what it has found
  edits,       \* edits that were begun
  overlapped   \* an edit was committed while another one had read the tree

groupVars == <<tree, member, editor, walk, edits, overlapped>>

\* Both recur for ever below a cycle: a RecursionError.
Readable(g) == \A h \in Subtree(tree, g) : ~InCycle(tree, h)

Level(parent) == IF parent = None THEN 1 ELSE tree[parent].level + 1

-----------------------------------------------------------------------------
(* Edits of the tree                                                       *)

NoEdit == [kind |-> "idle", group |-> None, parent |-> None, level |-> [g \in {} |-> 1],
           doomed |-> {}, moved |-> {}]

MayEdit(e) == editor[e] = NoEdit /\ edits < MaxEdits

Plan(e, edit) ==
  /\ editor' = [editor EXCEPT ![e] = edit]
  /\ edits' = edits + 1
  /\ UNCHANGED <<tree, member, walk, overlapped>>

\* create_group reads the parent.
OpenCreate(e, g, p) ==
  /\ MayEdit(e) /\ g \in Groups /\ tree[g] = None
  /\ p # None => p \in Existing(tree) /\ tree[p].level < 3 /\ p # Temporary
  /\ Plan(e, [NoEdit EXCEPT !.kind = "create", !.group = g, !.parent = p,
                            !.level = [h \in {g} |-> Level(p)]])

\* Mutant: only the group that is moved gets a new level.
RelevelledAlone(g, p) == [h \in {g} |-> tree[h].level + Level(p) - tree[g].level]

\* The rows whose level changes, and the level they get.
Relevelled(g, p) ==
  [h \in {h \in Subtree(tree, g) : Level(p) # tree[g].level} |->
     tree[h].level + Level(p) - tree[g].level]

\* update_group with a parent_id: no cycle, no fourth level.
OpenMove(e, g, p) ==
  /\ MayEdit(e) /\ g \in Existing(tree) /\ p # Temporary
  /\ g \in System => p = None
  /\ p # None => p \in Existing(tree)
  /\ Readable(g) /\ p \notin Subtree(tree, g)
  /\ Level(p) + Depth(tree, g) - 1 <= 3
  /\ Plan(e, [NoEdit EXCEPT !.kind = IF p = tree[g].parent THEN "relevel" ELSE "move",
                            !.group = g, !.parent = p, !.level = Relevelled(g, p)])

\* delete_group: the accounts of the subtree are moved to the default group,
\* their rows stay locked.
OpenDelete(e, g) ==
  /\ MayEdit(e) /\ g \in Existing(tree) \ System /\ Readable(g)
  /\ Plan(e, [NoEdit EXCEPT !.kind = "delete", !.group = g, !.doomed = Subtree(tree, g),
                            !.moved = {a \in {"account"} : member.group \in Subtree(tree, g)}])

Busy == {e \in Editors : editor[e] # NoEdit}

\* The tree after the UPDATEs, INSERT or DELETEs of an edit.
Edited(edit) ==
  [g \in Nodes |->
    IF edit.kind = "create" /\ g = edit.group
    THEN [parent |-> edit.parent, level |-> edit.level[g], proxy |-> None]
    ELSE IF g \in edit.doomed \/ tree[g] = None THEN None
    ELSE [tree[g] EXCEPT
           !.parent = IF edit.kind = "move" /\ g = edit.group THEN edit.parent ELSE @,
           !.level = IF g \in DOMAIN edit.level THEN edit.level[g] ELSE @]]

\* What the edit updates is there, parent_id points to a row and no level
\* breaks the CHECK.
Accepted(edit) ==
  LET t == Edited(edit) IN
  /\ edit.kind = "create" => tree[edit.group] = None
  /\ edit.kind \in {"move", "relevel"} =>
       /\ DOMAIN edit.level \subseteq Existing(tree)
       /\ edit.kind = "move" => edit.group \in Existing(tree)
  /\ \A g \in DOMAIN edit.level : edit.level[g] \in 1..3
  /\ \A g \in Existing(t) : t[g].parent = None \/ t[g].parent \in Existing(t)

\* A walk that is under way, or its result, may be of different trees now.
Disturb == [walk EXCEPT !.undisturbed = FALSE]

CommitEdit(e) ==
  LET edit == editor[e] IN
  /\ edit # NoEdit /\ Accepted(edit)
  /\ tree' = Edited(edit)
  /\ member' = IF edit.kind # "delete" \/ member.group \notin edit.doomed THEN member
               ELSE [member EXCEPT !.group = IF edit.moved # {} THEN Default ELSE None]
  /\ editor' = [editor EXCEPT ![e] = NoEdit]
  /\ walk' = Disturb
  /\ overlapped' = (overlapped \/ Busy # {e})
  /\ UNCHANGED edits

\* An IntegrityError, a StaleDataError, or the name is taken: all is rolled back.
EditFails(e) ==
  /\ editor[e] # NoEdit
  /\ editor' = [editor EXCEPT ![e] = NoEdit]
  /\ UNCHANGED <<tree, member, walk, edits, overlapped>>

-----------------------------------------------------------------------------
(* Assigning groups and proxies                                            *)

\* update_account locks the account and checks that the group exists.
AssignGroup(g) ==
  /\ g \in Existing(tree) \cup {None} /\ g # member.group /\ edits < MaxEdits
  /\ \A e \in Editors : editor[e].moved = {}
  /\ member' = [member EXCEPT !.group = g]
  /\ walk' = Disturb
  /\ edits' = edits + 1
  /\ UNCHANGED <<tree, editor, overlapped>>

\* assign_group_proxy.
AssignGroupProxy(g, x) ==
  /\ g \in Existing(tree) /\ tree[g].proxy # x /\ edits < MaxEdits
  /\ tree' = [tree EXCEPT ![g].proxy = x]
  /\ walk' = Disturb
  /\ edits' = edits + 1
  /\ UNCHANGED <<member, editor, overlapped>>

-----------------------------------------------------------------------------
(* resolve_account_proxy                                                   *)

Resting == [at |-> None, profile |-> None, source |-> "none", undisturbed |-> TRUE]

\* The account's own profile comes first.
StartWalk ==
  /\ walk.at = None
  /\ walk' = IF member.proxy \in Enabled
             THEN [Resting EXCEPT !.profile = member.proxy, !.source = "account"]
             ELSE [Resting EXCEPT !.at = member.group]
  /\ UNCHANGED <<tree, member, editor, edits, overlapped>>

\* Mutant: a profile that is disabled is taken.
UsableAlways(x) == x # None

Usable(x) == x \in Enabled

\* Mutant: a group whose profile is disabled is looked at for ever.
NextGroupStuck(g) == IF tree[g].proxy = None THEN tree[g].parent ELSE g

NextGroup(g) == tree[g].parent

\* One turn of the loop: a group that is gone ends it.
WalkUp ==
  LET g == walk.at IN
  /\ g # None
  /\ walk' = IF g \notin Existing(tree) THEN [walk EXCEPT !.at = None]
             ELSE IF Usable(tree[g].proxy)
             THEN [walk EXCEPT !.at = None, !.profile = tree[g].proxy, !.source = g]
             ELSE [walk EXCEPT !.at = NextGroup(g)]
  /\ UNCHANGED <<tree, member, editor, edits, overlapped>>

-----------------------------------------------------------------------------
TreeInit ==
  /\ tree \in Trees
  /\ member \in [group: Existing(tree) \cup {None}, proxy: Profiles \cup {None}]
  /\ editor = [e \in Editors |-> NoEdit]
  /\ walk = [Resting EXCEPT !.source = "unasked"] /\ edits = 0 /\ overlapped = FALSE

TreeNext ==
  \/ \E e \in Editors :
       \/ \E g \in Nodes, p \in Nodes \cup {None} : OpenCreate(e, g, p) \/ OpenMove(e, g, p)
       \/ \E g \in Nodes : OpenDelete(e, g)
       \/ CommitEdit(e) \/ EditFails(e)
  \/ \E g \in Nodes \cup {None} : AssignGroup(g)
  \/ \E g \in Nodes, x \in Profiles \cup {None} : AssignGroupProxy(g, x)
  \/ StartWalk \/ WalkUp

\* The event loop runs the coroutine of a request that is waiting for nothing
\* but the database.
TreeSpec == TreeInit /\ [][TreeNext]_groupVars /\ WF_groupVars(WalkUp)

-----------------------------------------------------------------------------
(* Properties                                                              *)

TreeTypeOK ==
  /\ tree \in Tables
  /\ member \in [group: Nodes \cup {None}, proxy: Profiles \cup {None}]
  /\ \A e \in Editors : /\ editor[e].kind \in {"idle", "create", "move", "relevel", "delete"}
                        /\ editor[e].doomed \subseteq Nodes
  /\ walk.at \in Nodes \cup {None} /\ walk.profile \in Profiles \cup {None}
  /\ edits \in 0..MaxEdits /\ overlapped \in BOOLEAN

\* No group is its own ancestor, every level is one more than the parent's and
\* none is a fourth, unless edits of the tree overlapped.
TreeSound == ~overlapped => Sound(tree)

\* The search for a proxy finds the account's own profile, or that of the
\* nearest group above it that has one which is enabled, as long as nothing
\* changes meanwhile.
NearestProxy ==
  LET candidates == IF member.group = None THEN {}
                    ELSE {g \in Ancestry(tree, member.group) : tree[g].proxy \in Enabled} IN
  walk.at = None /\ walk.undisturbed /\ walk.source # "unasked" /\ ~overlapped =>
    IF member.proxy \in Enabled THEN walk.source = "account"
    ELSE IF candidates = {} THEN walk.profile = None
    ELSE /\ walk.source \in candidates
         /\ \A g \in candidates : g \in Ancestry(tree, walk.source)

\* The search comes to an end, whatever is edited meanwhile, unless edits that
\* overlapped have closed a cycle.
WalkEnds == walk.at # None ~> walk.at = None \/ overlapped

\* The search finds what it should.
WalkFinds == WalkEnds /\ []NearestProxy
=============================================================================
