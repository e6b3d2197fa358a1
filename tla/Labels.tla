------------------------------- MODULE Labels -------------------------------
(***************************************************************************)
(* Labels, groups of labels, and which issue wears which.  Exclusivity is a *)
(* property of a group, membership of a label, and the rule is enforced on  *)
(* a third table: two copies carry it there, pinned by foreign keys and     *)
(* moved by their cascades.  A statement that copies reads first; the keys  *)
(* are compared when it writes.  To delete a label is to take it off every  *)
(* issue and out of its group.                                              *)
(***************************************************************************)
EXTENDS Naturals, FiniteSets

CONSTANTS
  Work,      \* issues
  Tags,      \* labels
  Groups,    \* label groups
  Bundles,   \* the sets of labels a bulk edit may attach
  Clients,   \* requests at work at once
  Cap,       \* LABELS_PER_ISSUE_MAX
  None

VARIABLES
  exclusive,  \* label_groups.exclusive
  group,      \* labels.group_id
  copy,       \* labels.group_exclusive
  worn,       \* issue_labels: the key each <<issue, label>> carries, or None
  single,     \* history: those attached one at a time
  ask         \* the request of each client

labelVars == <<exclusive, group, copy, worn, single, ask>>

LegalLabelConstants ==
  /\ Bundles \subseteq SUBSET Tags /\ Cap \in Nat \ {0} /\ IsFiniteSet(Tags) /\ IsFiniteSet(Clients)
  /\ None \notin Tags \union Groups /\ Tags \intersect Groups = {}

Quiet == [kind |-> "none"]
Asks == {Quiet} \union [kind : {"counted"}, issue : Work, tag : Tags]
          \union [kind : {"attach"}, issue : Work, keys : UNION {[S -> Tags \union Groups] : S \in SUBSET Tags}, one : BOOLEAN]
          \union [kind : {"regroup"}, tag : Tags, group : Groups, copy : BOOLEAN]

LabelTypeOK ==
  /\ exclusive \in [Groups -> BOOLEAN] /\ group \in [Tags -> Groups \union {None}] /\ copy \in [Tags -> BOOLEAN]
  /\ worn \in [Work \X Tags -> Tags \union Groups \union {None}]
  /\ single \subseteq {p \in Work \X Tags : worn[p] # None} /\ ask \in [Clients -> Asks]

LabelInit ==
  /\ exclusive \in [Groups -> BOOLEAN] /\ group = [l \in Tags |-> None] /\ copy = [l \in Tags |-> FALSE]
  /\ worn = [p \in Work \X Tags |-> None] /\ single = {} /\ ask = [c \in Clients |-> Quiet]

\* exclusivity_key, generated from a label's own row.
KeyOf(g, e, l) == IF g # None /\ e THEN g ELSE l
Key(l) == KeyOf(group[l], copy[l], l)
Wearing(i) == {l \in Tags : worn[<<i, l>>] # None}

\* issue_labels_exclusive_group_key, for a table that is about to be written.
Exclusive(table) ==
  \A i \in Work : \A l, m \in Tags :
    (l # m /\ table[<<i, l>>] # None /\ table[<<i, l>>] # l) => table[<<i, l>>] # table[<<i, m>>]

\* The cascade of a label's key to whatever wears the label.
Cascaded(key) == [p \in Work \X Tags |-> IF worn[p] = None THEN None ELSE key[p[2]]]

-----------------------------------------------------------------------------
\* Mutant: the cap admits one more.
UnderCapInclusive(i) == Cardinality(Wearing(i)) <= Cap
UnderCap(i) == Cardinality(Wearing(i)) < Cap

\* attach: the count is a statement of its own.
Count(c, i, l) ==
  /\ ask[c] = Quiet /\ UnderCap(i)
  /\ ask' = [ask EXCEPT ![c] = [kind |-> "counted", issue |-> i, tag |-> l]]
  /\ UNCHANGED <<exclusive, group, copy, worn, single>>

\* INSERT ... SELECT: the keys as the statement finds them.
Copy(c) ==
  /\ ask[c].kind = "counted"
  /\ ask' = [ask EXCEPT ![c] = [kind |-> "attach", issue |-> @.issue, keys |-> [l \in {ask[c].tag} |-> Key(l)], one |-> TRUE]]
  /\ UNCHANGED <<exclusive, group, copy, worn, single>>

\* attach_many, for one of the issues of a bulk edit: nothing is counted.
CopyMany(c, i, S) ==
  /\ ask[c] = Quiet
  /\ ask' = [ask EXCEPT ![c] = [kind |-> "attach", issue |-> i, keys |-> [l \in S |-> Key(l)], one |-> FALSE]]
  /\ UNCHANGED <<exclusive, group, copy, worn, single>>

\* Mutant: no foreign key pins the copy.
Unpinned(keys) == TRUE
\* issue_labels_exclusivity_fk: the key carried is still the label's.
Pinned(keys) == \A l \in DOMAIN keys : keys[l] = Key(l)

Attached(a) == [p \in Work \X Tags |->
  IF p[1] = a.issue /\ p[2] \in DOMAIN a.keys /\ worn[p] = None THEN a.keys[p[2]] ELSE worn[p]]

\* A key that refuses the statement ends the request in Refuse.  ON CONFLICT
\* lets a bulk edit pass what is worn already; attach refuses it.
Insert(c) ==
  LET a == ask[c] IN
  /\ a.kind = "attach"
  /\ a.one => \A l \in DOMAIN a.keys : l \notin Wearing(a.issue)
  /\ Pinned(a.keys) /\ Exclusive(Attached(a))
  /\ worn' = Attached(a)
  /\ single' = IF a.one THEN single \union {<<a.issue, l>> : l \in DOMAIN a.keys} ELSE single
  /\ ask' = [ask EXCEPT ![c] = Quiet]
  /\ UNCHANGED <<exclusive, group, copy>>

Refuse(c) ==
  /\ ask[c] # Quiet /\ ask' = [ask EXCEPT ![c] = Quiet]
  /\ UNCHANGED <<exclusive, group, copy, worn, single>>

Detach(i, l) ==
  /\ l \in Wearing(i)
  /\ worn' = [worn EXCEPT ![<<i, l>>] = None] /\ single' = single \ {<<i, l>>}
  /\ UNCHANGED <<exclusive, group, copy, ask>>

-----------------------------------------------------------------------------
\* set_group reads the group's flag and copies it, in one statement.
ReadGroup(c, l, g) ==
  /\ ask[c] = Quiet /\ group[l] # g
  /\ ask' = [ask EXCEPT ![c] = [kind |-> "regroup", tag |-> l, group |-> g, copy |-> exclusive[g]]]
  /\ UNCHANGED <<exclusive, group, copy, worn, single>>

\* labels_group_fk pins the copy, the cascade moves the key, the index may refuse it.
SetGroup(c) ==
  LET a == ask[c] IN
  /\ a.kind = "regroup" /\ exclusive[a.group] = a.copy
  /\ LET key == [l \in Tags |-> IF l = a.tag THEN KeyOf(a.group, a.copy, l) ELSE Key(l)] IN
       Exclusive(Cascaded(key)) /\ worn' = Cascaded(key)
  /\ group' = [group EXCEPT ![a.tag] = a.group] /\ copy' = [copy EXCEPT ![a.tag] = a.copy]
  /\ ask' = [ask EXCEPT ![c] = Quiet]
  /\ UNCHANGED <<exclusive, single>>

\* set_group(None), and delete_group for all labels of a group.
Ungroup(S) ==
  /\ group' = [l \in Tags |-> IF l \in S THEN None ELSE group[l]]
  /\ copy' = [l \in Tags |-> IF l \in S THEN FALSE ELSE copy[l]]
  /\ worn' = Cascaded([l \in Tags |-> IF l \in S THEN l ELSE Key(l)])
  /\ UNCHANGED <<exclusive, single, ask>>

ClearGroup(l) == group[l] # None /\ Ungroup({l})
EmptyGroup(g) == (\E l \in Tags : group[l] = g) /\ Ungroup({l \in Tags : group[l] = g})

\* update_group: the flip cascades twice.
Flip(g) ==
  LET flag == [exclusive EXCEPT ![g] = ~@]
      copied == [l \in Tags |-> IF group[l] = g THEN flag[g] ELSE copy[l]]
      key == [l \in Tags |-> KeyOf(group[l], copied[l], l)] IN
  /\ Exclusive(Cascaded(key))
  /\ exclusive' = flag /\ copy' = copied /\ worn' = Cascaded(key)
  /\ UNCHANGED <<group, single, ask>>

LabelNext ==
  \/ \E c \in Clients :
       \/ \E i \in Work, l \in Tags : Count(c, i, l)
       \/ \E i \in Work, S \in Bundles : CopyMany(c, i, S)
       \/ \E l \in Tags, g \in Groups : ReadGroup(c, l, g)
       \/ Copy(c) \/ Insert(c) \/ SetGroup(c) \/ Refuse(c)
  \/ \E i \in Work, l \in Tags : Detach(i, l)
  \/ \E l \in Tags : ClearGroup(l)
  \/ \E g \in Groups : EmptyGroup(g) \/ Flip(g)

LabelSpec == LabelInit /\ [][LabelNext]_labelVars

-----------------------------------------------------------------------------
(* However attaching, regrouping and flipping a group interleave, no issue  *)
(* wears two labels of a group that is exclusive by its own row.            *)
OneLabelOfAnExclusiveGroup ==
  \A i \in Work : \A l, m \in Wearing(i) :
    (l # m /\ group[l] = group[m] /\ group[l] # None) => ~exclusive[group[l]]

(* Attached one at a time, labels pass the cap by no more than the attaches *)
(* that were under way together.                                            *)
CapIsNearlyKept ==
  \A i \in Work : Cardinality({l \in Tags : <<i, l>> \in single}) <= Cap + Cardinality(Clients) - 1
=============================================================================
