--------------------------- MODULE Tracker_proofs ---------------------------
(***************************************************************************)
(* Proofs about what is put on issues, for any number of them: labels,      *)
(* whose keys carry the exclusivity of their groups; relations, kept in one *)
(* row for both ends; teams with their boards, cycles and estimates; and    *)
(* milestones. With Connections_proofs and Changes_proofs that is every     *)
(* part, and the last theorem says of all of them that their tables are     *)
(* well typed.                                                              *)
(***************************************************************************)
EXTENDS Changes_proofs, Connections_proofs

-----------------------------------------------------------------------------
(* Labels and their groups.                                                 *)

\* A label is worn under its own key, which the keys and their cascades pin.
PinsInv ==
  /\ \A i \in Mentioned, l \in Tags : worn[<<i, l>>] # None => worn[<<i, l>>] = Labelling!Key(l)
  /\ \A l \in Tags : copy[l] = (group[l] # None /\ exclusive[group[l]])
  /\ Labelling!Exclusive(worn)

\* What a request holds in its hands.
AsksInv ==
  \A c \in Clients :
    /\ ask[c].kind = "counted" => ask[c].issue \in Mentioned /\ ask[c].tag \in Tags
    /\ ask[c].kind = "attach" =>
         /\ ask[c].issue \in Mentioned /\ DOMAIN ask[c].keys \subseteq Tags
         /\ \A l \in DOMAIN ask[c].keys : ask[c].keys[l] \in Tags \union Groups
         /\ ask[c].one => \E l \in Tags : DOMAIN ask[c].keys = {l}
    /\ ask[c].kind = "regroup" => ask[c].tag \in Tags /\ ask[c].group \in Groups /\ ask[c].copy \in BOOLEAN

\* Those that have counted and may still attach one to issue i.
AttachesUnderWay(i) ==
  {c \in Clients : \/ ask[c].kind = "counted" /\ ask[c].issue = i
                   \/ ask[c].kind = "attach" /\ ask[c].one /\ ask[c].issue = i}
Singly(i) == {l \in Tags : <<i, l>> \in single}
\* An issue exceeds the cap by no more than the requests that raced for it.
CapInv == \A i \in Mentioned : Cardinality(Singly(i)) + Cardinality(AttachesUnderWay(i)) <= Cap + Cardinality(Clients) - 1

\* The inductive invariant of the labels.
LabelInv == Labelling!LabelTypeOK /\ PinsInv /\ AsksInv /\ CapInv

\* What the labels assume of their constants.
LEMMA LabelConstants ==
  /\ Bundles \subseteq SUBSET Tags /\ Cap \in Nat \ {0} /\ IsFiniteSet(Tags) /\ IsFiniteSet(Clients)
  /\ None \notin Tags \union Groups /\ Tags \intersect Groups = {}
BY LegalConstants DEF Labelling!LegalLabelConstants, Labelling!IsFiniteSet, IsFiniteSet

\* The labels count as everybody does.
LEMMA LabelCardinality == \A S : Labelling!Cardinality(S) = Cardinality(S)
BY DEF Labelling!Cardinality, Cardinality

\* What is attached to an issue one at a time, and who is about to, can be counted.
LEMMA CapFinite ==
  \A i : /\ IsFiniteSet(Singly(i)) /\ Cardinality(Singly(i)) \in Nat
         /\ IsFiniteSet(AttachesUnderWay(i)) /\ Cardinality(AttachesUnderWay(i)) \in Nat /\ Cardinality(AttachesUnderWay(i)) <= Cardinality(Clients)
         /\ Cardinality(Clients) \in Nat
<1> SUFFICES ASSUME NEW i PROVE
         /\ IsFiniteSet(Singly(i)) /\ Cardinality(Singly(i)) \in Nat
         /\ IsFiniteSet(AttachesUnderWay(i)) /\ Cardinality(AttachesUnderWay(i)) \in Nat /\ Cardinality(AttachesUnderWay(i)) <= Cardinality(Clients)
         /\ Cardinality(Clients) \in Nat
  OBVIOUS
<1>1. Singly(i) \in SUBSET Tags /\ AttachesUnderWay(i) \in SUBSET Clients
  BY DEF Singly, AttachesUnderWay
<1> QED BY <1>1, LabelConstants, FS_Subset, FS_CardinalityType

\* Nothing is worn at first.
LEMMA LabelStart == Labelling!LabelInit => LabelInv
<1> SUFFICES ASSUME Labelling!LabelInit PROVE LabelInv
  OBVIOUS
<1>1. Labelling!LabelTypeOK
  BY DEF Labelling!LabelInit, Labelling!LabelTypeOK, Labelling!Asks
<1>2. PinsInv
  BY DEF Labelling!LabelInit, PinsInv, Labelling!Exclusive
<1>3. AsksInv
  BY DEF Labelling!LabelInit, AsksInv, Labelling!Quiet
<1>4. CapInv
  <2>1. \A i \in Mentioned : Singly(i) = {} /\ AttachesUnderWay(i) = {}
    BY DEF Labelling!LabelInit, Singly, AttachesUnderWay, Labelling!Quiet
  <2> QED BY <2>1, FS_EmptySet, CapFinite, LabelConstants DEF CapInv
<1> QED BY <1>1, <1>2, <1>3, <1>4 DEF LabelInv

\* The properties follow.
LEMMA LabelProperties == LabelInv => Labelling!OneLabelOfAnExclusiveGroup /\ Labelling!CapIsNearlyKept
<1> SUFFICES ASSUME LabelInv PROVE Labelling!OneLabelOfAnExclusiveGroup /\ Labelling!CapIsNearlyKept
  OBVIOUS
<1>1. Labelling!OneLabelOfAnExclusiveGroup
  BY LabelConstants DEF LabelInv, PinsInv, Labelling!LabelTypeOK, Labelling!OneLabelOfAnExclusiveGroup, Labelling!Wearing,
     Labelling!Exclusive, Labelling!Key, Labelling!KeyOf
<1>2. Labelling!CapIsNearlyKept
  <2> SUFFICES ASSUME NEW i \in Mentioned
               PROVE Labelling!Cardinality({l \in Tags : <<i, l>> \in single}) <= Cap + Labelling!Cardinality(Clients) - 1
    BY DEF Labelling!CapIsNearlyKept
  <2>1. Cardinality(Singly(i)) + Cardinality(AttachesUnderWay(i)) <= Cap + Cardinality(Clients) - 1
    BY DEF LabelInv, CapInv
  <2>2. Cardinality(Singly(i)) <= Cap + Cardinality(Clients) - 1
    BY <2>1, CapFinite, LabelConstants
  <2> QED BY <2>2, LabelCardinality DEF Singly
<1> QED BY <1>1, <1>2

\* A cascade gives whatever is worn its label's new key.
LEMMA CascadeMoves ==
  ASSUME LabelInv, NEW key \in [Tags -> Tags \union Groups], worn' = Labelling!Cascaded(key)
  PROVE  /\ worn' \in [Mentioned \X Tags -> Tags \union Groups \union {None}]
         /\ \A i \in Mentioned, l \in Tags : worn[<<i, l>>] = None => worn'[<<i, l>>] = None
         /\ \A i \in Mentioned, l \in Tags : worn[<<i, l>>] # None => worn'[<<i, l>>] = key[l] /\ key[l] # None
         /\ \A p \in Mentioned \X Tags : worn[p] # None => worn'[p] # None
<1>1. key \in [Tags -> Tags \union Groups] /\ None \notin Tags \union Groups
  BY LabelConstants
<1>2. worn' = [p \in Mentioned \X Tags |-> IF worn[p] = None THEN None ELSE key[p[2]]]
  BY DEF Labelling!Cascaded
<1>3. \A p \in Mentioned \X Tags : p[2] \in Tags /\ key[p[2]] \in Tags \union Groups
  BY <1>1
<1>4. \A p \in Mentioned \X Tags : worn[p] # None => worn'[p] # None
  BY <1>1, <1>2, <1>3
<1>5. worn' \in [Mentioned \X Tags -> Tags \union Groups \union {None}]
  BY <1>2, <1>3
<1>6. ASSUME NEW i \in Mentioned, NEW l \in Tags
      PROVE  /\ worn[<<i, l>>] = None => worn'[<<i, l>>] = None
             /\ worn[<<i, l>>] # None => worn'[<<i, l>>] = key[l] /\ key[l] # None
  <2>1. <<i, l>> \in Mentioned \X Tags /\ <<i, l>>[2] = l
    OBVIOUS
  <2> QED BY <2>1, <1>1, <1>2
<1> QED BY <1>4, <1>5, <1>6

\* The key of a label is the label itself, or its group where that is exclusive.
LEMMA KeysAre ==
  ASSUME LabelInv, NEW l \in Tags
  PROVE  Labelling!Key(l) \in Tags \union Groups /\ (Labelling!Key(l) # l => Labelling!Key(l) = group[l] /\ group[l] \in Groups)
BY DEF LabelInv, Labelling!LabelTypeOK, Labelling!Key, Labelling!KeyOf

\* The cap is kept where no request counts and nothing more is attached.
LEMMA CapStays ==
  ASSUME LabelInv, single' \subseteq single,
         \A i \in Mentioned : \A d \in Clients : d \in AttachesUnderWay(i)' => d \in AttachesUnderWay(i)
  PROVE  CapInv'
<1> SUFFICES ASSUME NEW i \in Mentioned
             PROVE Cardinality(Singly(i)') + Cardinality(AttachesUnderWay(i)') <= Cap + Cardinality(Clients) - 1
  BY DEF CapInv
<1>1. Singly(i)' \subseteq Singly(i)
  BY DEF Singly
<1>0. AttachesUnderWay(i)' \subseteq AttachesUnderWay(i)
  BY DEF AttachesUnderWay
<1>2. /\ Cardinality(Singly(i)') <= Cardinality(Singly(i)) /\ Cardinality(Singly(i)') \in Nat
      /\ Cardinality(AttachesUnderWay(i)') <= Cardinality(AttachesUnderWay(i)) /\ Cardinality(AttachesUnderWay(i)') \in Nat
  BY <1>0, <1>1, CapFinite, FS_Subset, FS_CardinalityType
<1>3. Cardinality(Singly(i)) + Cardinality(AttachesUnderWay(i)) <= Cap + Cardinality(Clients) - 1
  BY DEF LabelInv, CapInv
<1> QED BY <1>2, <1>3, CapFinite, LabelConstants

\* What a request asks for next is all that a step on one changes there.
LEMMA AskFacts ==
  ASSUME LabelInv, NEW c \in Clients, NEW a, ask' = [ask EXCEPT ![c] = a]
  PROVE  ask'[c] = a /\ (\A d \in Clients \ {c} : ask'[d] = ask[d]) /\ (a \in Labelling!Asks => ask' \in [Clients -> Labelling!Asks])
BY DEF LabelInv, Labelling!LabelTypeOK

\* A request counts an issue's labels before it attaches one, and finds room.
LEMMA CountKeeps ==
  ASSUME LabelInv, NEW c \in Clients, NEW i \in Mentioned, NEW l \in Tags, Labelling!Count(c, i, l)
  PROVE  LabelInv'
<1>1. /\ ask[c] = Labelling!Quiet /\ Labelling!UnderCap(i) /\ UNCHANGED <<exclusive, group, copy, worn, single>>
      /\ ask'[c] = [kind |-> "counted", issue |-> i, tag |-> l] /\ \A d \in Clients \ {c} : ask'[d] = ask[d]
  BY AskFacts DEF Labelling!Count
<1>2. ask' \in [Clients -> Labelling!Asks]
  BY AskFacts DEF Labelling!Count, Labelling!Asks
<1>3. Labelling!LabelTypeOK' /\ PinsInv'
  BY <1>1, <1>2 DEF LabelInv, Labelling!LabelTypeOK, PinsInv, Labelling!Exclusive, Labelling!Key, Labelling!KeyOf
<1>4. AsksInv'
  BY <1>1 DEF LabelInv, AsksInv
<1>5. ASSUME NEW j \in Mentioned
      PROVE  Cardinality(Singly(j)') + Cardinality(AttachesUnderWay(j)') <= Cap + Cardinality(Clients) - 1
  <2>1. Singly(j)' = Singly(j)
    BY <1>1 DEF Singly
  <2>2. CASE j = i
    <3>1. Singly(i) \subseteq Labelling!Wearing(i) /\ Labelling!Wearing(i) \in SUBSET Tags
      BY DEF LabelInv, Labelling!LabelTypeOK, Labelling!Wearing, Singly
    <3>2. IsFiniteSet(Labelling!Wearing(i)) /\ Cardinality(Labelling!Wearing(i)) < Cap
      BY <1>1, <3>1, LabelConstants, FS_Subset, LabelCardinality DEF Labelling!UnderCap
    <3>3. Cardinality(Singly(i)) <= Cardinality(Labelling!Wearing(i)) /\ Cardinality(Labelling!Wearing(i)) \in Nat
      BY <3>1, <3>2, FS_Subset, FS_CardinalityType
    <3>4. AttachesUnderWay(i)' \subseteq Clients
      BY DEF AttachesUnderWay
    <3>5. Cardinality(AttachesUnderWay(i)') <= Cardinality(Clients) /\ Cardinality(AttachesUnderWay(i)') \in Nat
      BY <3>4, LabelConstants, FS_Subset, FS_CardinalityType
    <3> QED BY <2>1, <2>2, <3>2, <3>3, <3>5, CapFinite, LabelConstants
  <2>3. CASE j # i
    <3>1. AttachesUnderWay(j)' = AttachesUnderWay(j)
      BY <1>1, <2>3 DEF AttachesUnderWay, Labelling!Quiet
    <3> QED BY <2>1, <3>1 DEF LabelInv, CapInv
  <2> QED BY <2>2, <2>3
<1> QED BY <1>3, <1>4, <1>5 DEF LabelInv, CapInv

\* A request copies the label's key into the row it will insert.
LEMMA CopyKeeps ==
  ASSUME LabelInv, NEW c \in Clients, Labelling!Copy(c) PROVE LabelInv'
<1> DEFINE a == [kind |-> "attach", issue |-> ask[c].issue, keys |-> [l \in {ask[c].tag} |-> Labelling!Key(l)], one |-> TRUE]
<1>1. /\ ask[c].kind = "counted" /\ UNCHANGED <<exclusive, group, copy, worn, single>>
      /\ ask' = [ask EXCEPT ![c] = a]
  BY DEF Labelling!Copy, LabelInv, Labelling!LabelTypeOK
<1>2. ask[c].issue \in Mentioned /\ ask[c].tag \in Tags
  BY <1>1 DEF LabelInv, AsksInv
<1>3. a.keys \in [{ask[c].tag} -> Tags \union Groups] /\ {ask[c].tag} \in SUBSET Tags
  BY <1>2, KeysAre
<1>4. a \in Labelling!Asks
  BY <1>2, <1>3 DEF Labelling!Asks
<1>5. ask'[c] = a /\ (\A d \in Clients \ {c} : ask'[d] = ask[d]) /\ ask' \in [Clients -> Labelling!Asks]
  BY <1>1, <1>4, AskFacts
<1>6. Labelling!LabelTypeOK' /\ PinsInv'
  BY <1>1, <1>5 DEF LabelInv, Labelling!LabelTypeOK, PinsInv, Labelling!Exclusive, Labelling!Key, Labelling!KeyOf
<1>7. /\ a.kind = "attach" /\ a.issue = ask[c].issue /\ DOMAIN a.keys = {ask[c].tag}
      /\ \A l \in DOMAIN a.keys : a.keys[l] \in Tags \union Groups
  BY <1>3
<1> HIDE DEF a
<1>8. AsksInv'
  BY <1>1, <1>2, <1>5, <1>7 DEF LabelInv, AsksInv
<1>9. CapInv'
  <2>1. \A j \in Mentioned : \A d \in Clients : d \in AttachesUnderWay(j)' => d \in AttachesUnderWay(j)
    BY <1>1, <1>5, <1>7 DEF AttachesUnderWay, Labelling!Quiet
  <2>2. single' \subseteq single
    BY <1>1
  <2> QED BY <2>1, <2>2, CapStays
<1> QED BY <1>6, <1>8, <1>9 DEF LabelInv

\* A request copies the keys of a bundle, which are apart or it is refused.
LEMMA CopyManyKeeps ==
  ASSUME LabelInv, NEW c \in Clients, NEW i \in Mentioned, NEW S \in Bundles, Labelling!CopyMany(c, i, S)
  PROVE  LabelInv'
<1> DEFINE a == [kind |-> "attach", issue |-> i, keys |-> [l \in S |-> Labelling!Key(l)], one |-> FALSE]
<1>1. UNCHANGED <<exclusive, group, copy, worn, single>> /\ ask' = [ask EXCEPT ![c] = a]
  BY DEF Labelling!CopyMany
<1>2. S \in SUBSET Tags
  BY LabelConstants
<1>3. a.keys \in [S -> Tags \union Groups]
  BY <1>2, KeysAre
<1>4. a \in Labelling!Asks
  BY <1>2, <1>3 DEF Labelling!Asks
<1>5. ask'[c] = a /\ (\A d \in Clients \ {c} : ask'[d] = ask[d]) /\ ask' \in [Clients -> Labelling!Asks]
  BY <1>1, <1>4, AskFacts
<1>6. Labelling!LabelTypeOK' /\ PinsInv'
  BY <1>1, <1>5 DEF LabelInv, Labelling!LabelTypeOK, PinsInv, Labelling!Exclusive, Labelling!Key, Labelling!KeyOf
<1>7. /\ a.kind = "attach" /\ a.issue = i /\ DOMAIN a.keys = S /\ ~a.one
      /\ \A l \in DOMAIN a.keys : a.keys[l] \in Tags \union Groups
  BY <1>3
<1> HIDE DEF a
<1>8. AsksInv'
  BY <1>1, <1>2, <1>5, <1>7 DEF LabelInv, AsksInv
<1>9. CapInv'
  <2>1. \A j \in Mentioned : \A d \in Clients : d \in AttachesUnderWay(j)' => d \in AttachesUnderWay(j)
    BY <1>1, <1>5, <1>7 DEF AttachesUnderWay, Labelling!Quiet
  <2>2. single' \subseteq single
    BY <1>1
  <2> QED BY <2>1, <2>2, CapStays
<1> QED BY <1>6, <1>8, <1>9 DEF LabelInv

\* A request whose labels are of one exclusive group is refused.
LEMMA RefuseKeeps == ASSUME LabelInv, NEW c \in Clients, Labelling!Refuse(c) PROVE LabelInv'
<1>1. UNCHANGED <<exclusive, group, copy, worn, single>> /\ ask' = [ask EXCEPT ![c] = Labelling!Quiet]
  BY DEF Labelling!Refuse
<1>2. ask'[c] = Labelling!Quiet /\ (\A d \in Clients \ {c} : ask'[d] = ask[d]) /\ ask' \in [Clients -> Labelling!Asks]
  BY <1>1, AskFacts DEF Labelling!Asks
<1>3. Labelling!LabelTypeOK' /\ PinsInv'
  BY <1>1, <1>2 DEF LabelInv, Labelling!LabelTypeOK, PinsInv, Labelling!Exclusive, Labelling!Key, Labelling!KeyOf
<1>4. AsksInv'
  BY <1>1, <1>2 DEF LabelInv, AsksInv, Labelling!Quiet
<1>5. CapInv'
  <2>1. \A j \in Mentioned : \A d \in Clients : d \in AttachesUnderWay(j)' => d \in AttachesUnderWay(j)
    BY <1>1, <1>2 DEF AttachesUnderWay, Labelling!Quiet
  <2>2. single' \subseteq single
    BY <1>1
  <2> QED BY <2>1, <2>2, CapStays
<1> QED BY <1>3, <1>4, <1>5 DEF LabelInv

\* A request reads the group it is about to put a label in.
LEMMA ReadGroupKeeps ==
  ASSUME LabelInv, NEW c \in Clients, NEW l \in Tags, NEW g \in Groups, Labelling!ReadGroup(c, l, g)
  PROVE  LabelInv'
<1> DEFINE a == [kind |-> "regroup", tag |-> l, group |-> g, copy |-> exclusive[g]]
<1>1. UNCHANGED <<exclusive, group, copy, worn, single>> /\ ask' = [ask EXCEPT ![c] = a]
  BY DEF Labelling!ReadGroup
<1>2. exclusive[g] \in BOOLEAN
  BY DEF LabelInv, Labelling!LabelTypeOK
<1>3. a \in Labelling!Asks
  BY <1>2 DEF Labelling!Asks
<1>4. ask'[c] = a /\ (\A d \in Clients \ {c} : ask'[d] = ask[d]) /\ ask' \in [Clients -> Labelling!Asks]
  BY <1>1, <1>3, AskFacts
<1>5. Labelling!LabelTypeOK' /\ PinsInv'
  BY <1>1, <1>4 DEF LabelInv, Labelling!LabelTypeOK, PinsInv, Labelling!Exclusive, Labelling!Key, Labelling!KeyOf
<1>6. a.kind = "regroup" /\ a.tag = l /\ a.group = g /\ a.copy \in BOOLEAN
  BY <1>2
<1> HIDE DEF a
<1>7. AsksInv'
  BY <1>1, <1>4, <1>6 DEF LabelInv, AsksInv
<1>8. CapInv'
  <2>1. \A j \in Mentioned : \A d \in Clients : d \in AttachesUnderWay(j)' => d \in AttachesUnderWay(j)
    BY <1>1, <1>4, <1>6 DEF AttachesUnderWay, Labelling!Quiet
  <2>2. single' \subseteq single
    BY <1>1
  <2> QED BY <2>1, <2>2, CapStays
<1> QED BY <1>5, <1>7, <1>8 DEF LabelInv

\* A label taken off an issue makes room.
LEMMA DetachKeeps ==
  ASSUME LabelInv, NEW i \in Mentioned, NEW l \in Tags, Labelling!Detach(i, l) PROVE LabelInv'
<1>1. /\ worn' = [worn EXCEPT ![<<i, l>>] = None] /\ single' = single \ {<<i, l>>}
      /\ UNCHANGED <<exclusive, group, copy, ask>>
  BY DEF Labelling!Detach
<1>2. worn \in [Mentioned \X Tags -> Tags \union Groups \union {None}]
  BY DEF LabelInv, Labelling!LabelTypeOK
<1>3. /\ worn' \in [Mentioned \X Tags -> Tags \union Groups \union {None}]
      /\ \A p \in Mentioned \X Tags : worn'[p] = None \/ worn'[p] = worn[p]
      /\ \A p \in Mentioned \X Tags : p # <<i, l>> => worn'[p] = worn[p]
  BY <1>1, <1>2
<1>4. Labelling!LabelTypeOK'
  BY <1>1, <1>3 DEF LabelInv, Labelling!LabelTypeOK
<1>5. \A j \in Mentioned, m \in Tags : worn'[<<j, m>>] = None \/ worn'[<<j, m>>] = worn[<<j, m>>]
  BY <1>3
<1>6. PinsInv'
  BY <1>1, <1>5 DEF LabelInv, PinsInv, Labelling!Exclusive, Labelling!Key, Labelling!KeyOf
<1>7. AsksInv'
  BY <1>1 DEF LabelInv, AsksInv
<1>8. CapInv'
  <2>1. \A j \in Mentioned : \A d \in Clients : d \in AttachesUnderWay(j)' => d \in AttachesUnderWay(j)
    BY <1>1 DEF AttachesUnderWay, Labelling!Quiet
  <2>2. single' \subseteq single
    BY <1>1
  <2> QED BY <2>1, <2>2, CapStays
<1> QED BY <1>4, <1>6, <1>7, <1>8 DEF LabelInv

\* The rows are inserted under keys that are free, or the request fails.
LEMMA AttachKeeps == ASSUME LabelInv, NEW c \in Clients, Labelling!Insert(c) PROVE LabelInv'
<1> DEFINE a == ask[c]
<1>1. /\ a.kind = "attach" /\ (a.one => \A l \in DOMAIN a.keys : l \notin Labelling!Wearing(a.issue))
      /\ Labelling!Pinned(a.keys) /\ Labelling!Exclusive(worn') /\ worn' = Labelling!Attached(a)
      /\ single' = IF a.one THEN single \union {<<a.issue, l>> : l \in DOMAIN a.keys} ELSE single
      /\ ask' = [ask EXCEPT ![c] = Labelling!Quiet] /\ UNCHANGED <<exclusive, group, copy>>
  BY DEF Labelling!Insert
<1>2. /\ a.issue \in Mentioned /\ DOMAIN a.keys \subseteq Tags
      /\ \A l \in DOMAIN a.keys : a.keys[l] \in Tags \union Groups
      /\ a.one => \E l \in Tags : DOMAIN a.keys = {l}
  BY <1>1 DEF LabelInv, AsksInv
<1>3. ask'[c] = Labelling!Quiet /\ (\A d \in Clients \ {c} : ask'[d] = ask[d]) /\ ask' \in [Clients -> Labelling!Asks]
  BY <1>1, AskFacts DEF Labelling!Asks
<1>4. worn' = [p \in Mentioned \X Tags |-> IF p[1] = a.issue /\ p[2] \in DOMAIN a.keys /\ worn[p] = None THEN a.keys[p[2]] ELSE worn[p]]
  BY <1>1 DEF Labelling!Attached
<1>5. worn \in [Mentioned \X Tags -> Tags \union Groups \union {None}] /\ single \subseteq {p \in Mentioned \X Tags : worn[p] # None}
  BY DEF LabelInv, Labelling!LabelTypeOK
<1>6. /\ \A j \in Mentioned, l \in Tags :
            worn'[<<j, l>>] = IF j = a.issue /\ l \in DOMAIN a.keys /\ worn[<<j, l>>] = None THEN a.keys[l] ELSE worn[<<j, l>>]
      /\ \A p \in Mentioned \X Tags : worn[p] # None => worn'[p] # None
  BY <1>4
<1>7. worn' \in [Mentioned \X Tags -> Tags \union Groups \union {None}]
  BY <1>2, <1>4, <1>5
<1>8. PinsInv'
  <2>1. \A l \in DOMAIN a.keys : a.keys[l] = Labelling!Key(l)
    BY <1>1 DEF Labelling!Pinned
  <2>2. \A l \in Tags : Labelling!Key(l)' = Labelling!Key(l)
    BY <1>1 DEF Labelling!Key, Labelling!KeyOf
  <2>3. \A j \in Mentioned, l \in Tags : worn'[<<j, l>>] # None => worn'[<<j, l>>] = Labelling!Key(l)'
    BY <1>6, <2>1, <2>2 DEF LabelInv, PinsInv
  <2>4. \A l \in Tags : copy'[l] = (group'[l] # None /\ exclusive'[group'[l]])
    BY <1>1 DEF LabelInv, PinsInv
  <2>5. Labelling!Exclusive(worn)'
    BY <1>1 DEF Labelling!Exclusive
  <2> QED BY <2>3, <2>4, <2>5 DEF PinsInv
<1> HIDE DEF a
<1>9. AsksInv'
  BY <1>1, <1>3 DEF LabelInv, AsksInv, Labelling!Quiet
<1>10. CASE ~a.one
  <2>1. single' = single
    BY <1>1, <1>10
  <2>2. \A j \in Mentioned : \A d \in Clients : d \in AttachesUnderWay(j)' => d \in AttachesUnderWay(j)
    BY <1>3 DEF AttachesUnderWay, Labelling!Quiet
  <2>3. single' \subseteq single
    BY <2>1
  <2>4. CapInv'
    BY <2>2, <2>3, CapStays
  <2>5. Labelling!LabelTypeOK'
    BY <1>1, <1>3, <1>5, <1>6, <1>7, <2>1 DEF LabelInv, Labelling!LabelTypeOK
  <2> QED BY <1>8, <1>9, <2>4, <2>5 DEF LabelInv
<1>11. CASE a.one
  <2>1. PICK l \in Tags : DOMAIN a.keys = {l}
    BY <1>2, <1>11
  <2>2. single' = single \union {<<a.issue, l>>}
    BY <1>1, <1>11, <2>1
  <2>3. worn[<<a.issue, l>>] = None /\ <<a.issue, l>> \in Mentioned \X Tags
    BY <1>1, <1>2, <1>11, <2>1 DEF Labelling!Wearing
  <2>4. worn'[<<a.issue, l>>] # None
    BY <1>2, <1>6, <2>1, <2>3, LabelConstants
  <2>5. Labelling!LabelTypeOK'
    BY <1>1, <1>3, <1>5, <1>6, <1>7, <2>2, <2>3, <2>4 DEF LabelInv, Labelling!LabelTypeOK
  <2>6. ASSUME NEW j \in Mentioned
        PROVE  Cardinality(Singly(j)') + Cardinality(AttachesUnderWay(j)') <= Cap + Cardinality(Clients) - 1
    <3>1. Cardinality(Singly(j)) + Cardinality(AttachesUnderWay(j)) <= Cap + Cardinality(Clients) - 1
      BY DEF LabelInv, CapInv
    <3>2. CASE j = a.issue
      <4>1. Singly(j)' = Singly(j) \union {l} /\ l \notin Singly(j)
        BY <2>2, <2>3, <3>2, <1>5 DEF Singly
      <4>2. AttachesUnderWay(j)' = AttachesUnderWay(j) \ {c} /\ c \in AttachesUnderWay(j)
        BY <1>1, <1>3, <1>11, <3>2 DEF AttachesUnderWay, a, Labelling!Quiet
      <4>3. Cardinality(Singly(j)') = Cardinality(Singly(j)) + 1
        BY <4>1, CapFinite, FS_AddElement
      <4>4. Cardinality(AttachesUnderWay(j)') = Cardinality(AttachesUnderWay(j)) - 1
        BY <4>2, CapFinite, FS_RemoveElement
      <4> QED BY <3>1, <4>3, <4>4, CapFinite, LabelConstants
    <3>3. CASE j # a.issue
      <4>1. Singly(j)' = Singly(j)
        BY <2>2, <3>3 DEF Singly
      <4>2. AttachesUnderWay(j)' = AttachesUnderWay(j)
        BY <1>1, <1>3, <3>3 DEF AttachesUnderWay, a, Labelling!Quiet
      <4> QED BY <3>1, <4>1, <4>2
    <3> QED BY <3>2, <3>3
  <2> QED BY <1>8, <1>9, <2>5, <2>6 DEF LabelInv, CapInv
<1> QED BY <1>10, <1>11

\* A label is moved to another group, and what wears it goes along by cascade.
LEMMA SetGroupKeeps == ASSUME LabelInv, NEW c \in Clients, Labelling!SetGroup(c) PROVE LabelInv'
<1> DEFINE a == ask[c]
           key == [l \in Tags |-> IF l = a.tag THEN Labelling!KeyOf(a.group, a.copy, l) ELSE Labelling!Key(l)]
<1>1. /\ a.kind = "regroup" /\ exclusive[a.group] = a.copy
      /\ Labelling!Exclusive(worn') /\ worn' = Labelling!Cascaded(key)
      /\ group' = [group EXCEPT ![a.tag] = a.group] /\ copy' = [copy EXCEPT ![a.tag] = a.copy]
      /\ ask' = [ask EXCEPT ![c] = Labelling!Quiet] /\ UNCHANGED <<exclusive, single>>
  BY DEF Labelling!SetGroup
<1>2. a.tag \in Tags /\ a.group \in Groups /\ a.copy \in BOOLEAN
  BY <1>1 DEF LabelInv, AsksInv
<1>3. ask'[c] = Labelling!Quiet /\ (\A d \in Clients \ {c} : ask'[d] = ask[d]) /\ ask' \in [Clients -> Labelling!Asks]
  BY <1>1, AskFacts DEF Labelling!Asks
<1>4. /\ group \in [Tags -> Groups \union {None}] /\ copy \in [Tags -> BOOLEAN] /\ exclusive \in [Groups -> BOOLEAN]
      /\ single \subseteq {p \in Mentioned \X Tags : worn[p] # None}
  BY DEF LabelInv, Labelling!LabelTypeOK
<1>5. /\ group' \in [Tags -> Groups \union {None}] /\ copy' \in [Tags -> BOOLEAN]
      /\ group'[a.tag] = a.group /\ copy'[a.tag] = a.copy
      /\ \A l \in Tags \ {a.tag} : group'[l] = group[l] /\ copy'[l] = copy[l]
  BY <1>1, <1>2, <1>4
<1>6. \A l \in Tags : key[l] = Labelling!Key(l)' /\ key[l] \in Tags \union Groups
  BY <1>2, <1>5, KeysAre DEF Labelling!Key, Labelling!KeyOf
<1>7. key \in [Tags -> Tags \union Groups]
  BY <1>6
<1> HIDE DEF key
<1>8. /\ worn' \in [Mentioned \X Tags -> Tags \union Groups \union {None}]
      /\ \A i \in Mentioned, l \in Tags : worn'[<<i, l>>] # None => worn'[<<i, l>>] = key[l]
      /\ \A p \in Mentioned \X Tags : worn[p] # None => worn'[p] # None
  BY <1>1, <1>7, CascadeMoves
<1>9. Labelling!LabelTypeOK'
  BY <1>1, <1>3, <1>4, <1>5, <1>8 DEF Labelling!LabelTypeOK
<1>10. PinsInv'
  <2>1. \A l \in Tags : copy'[l] = (group'[l] # None /\ exclusive'[group'[l]])
    <3>1. ASSUME NEW l \in Tags, l # a.tag PROVE copy'[l] = (group'[l] # None /\ exclusive'[group'[l]])
      BY <1>1, <1>5, <3>1 DEF LabelInv, PinsInv
    <3>2. copy'[a.tag] = (group'[a.tag] # None /\ exclusive'[group'[a.tag]])
      BY <1>1, <1>2, <1>5, LabelConstants
    <3> QED BY <3>1, <3>2
  <2>2. \A i \in Mentioned, l \in Tags : worn'[<<i, l>>] # None => worn'[<<i, l>>] = Labelling!Key(l)'
    BY <1>6, <1>8
  <2>3. Labelling!Exclusive(worn)'
    BY <1>1 DEF Labelling!Exclusive
  <2> QED BY <2>1, <2>2, <2>3 DEF PinsInv
<1>11. AsksInv'
  BY <1>1, <1>3 DEF LabelInv, AsksInv, Labelling!Quiet
<1>12. CapInv'
  <2>1. \A j \in Mentioned : \A d \in Clients : d \in AttachesUnderWay(j)' => d \in AttachesUnderWay(j)
    BY <1>3 DEF AttachesUnderWay, Labelling!Quiet
  <2>2. single' \subseteq single
    BY <1>1
  <2> QED BY <2>1, <2>2, CapStays
<1> QED BY <1>9, <1>10, <1>11, <1>12 DEF LabelInv

\* What stands still for the requests while groups move.
LEMMA GroupsMove ==
  ASSUME LabelInv, UNCHANGED <<single, ask>> PROVE AsksInv' /\ CapInv'
<1>1. AsksInv'
  BY DEF LabelInv, AsksInv
<1>2. CapInv'
  <2>1. \A j \in Mentioned : \A d \in Clients : d \in AttachesUnderWay(j)' => d \in AttachesUnderWay(j)
    BY DEF AttachesUnderWay
  <2>2. single' \subseteq single
    OBVIOUS
  <2> QED BY <2>1, <2>2, CapStays
<1> QED BY <1>1, <1>2

\* Labels that lose their group are worn under keys of their own.
LEMMA UngroupKeeps == ASSUME LabelInv, NEW S \in SUBSET Tags, Labelling!Ungroup(S) PROVE LabelInv'
<1> DEFINE key == [l \in Tags |-> IF l \in S THEN l ELSE Labelling!Key(l)]
<1>1. /\ group' = [l \in Tags |-> IF l \in S THEN None ELSE group[l]]
      /\ copy' = [l \in Tags |-> IF l \in S THEN FALSE ELSE copy[l]]
      /\ worn' = Labelling!Cascaded(key) /\ UNCHANGED <<exclusive, single, ask>>
  BY DEF Labelling!Ungroup
<1>2. \A l \in Tags : key[l] = Labelling!Key(l)' /\ key[l] \in Tags \union Groups
  BY <1>1, KeysAre DEF Labelling!Key, Labelling!KeyOf
<1>3. \A l \in Tags : key[l] = l \/ (key[l] = Labelling!Key(l) /\ key[l] \in Groups)
  BY KeysAre
<1>4. key \in [Tags -> Tags \union Groups]
  BY <1>2
<1> HIDE DEF key
<1>5. /\ worn' \in [Mentioned \X Tags -> Tags \union Groups \union {None}]
      /\ \A i \in Mentioned, l \in Tags : worn[<<i, l>>] = None => worn'[<<i, l>>] = None
      /\ \A i \in Mentioned, l \in Tags : worn[<<i, l>>] # None => worn'[<<i, l>>] = key[l] /\ key[l] # None
      /\ \A p \in Mentioned \X Tags : worn[p] # None => worn'[p] # None
  BY <1>1, <1>4, CascadeMoves
<1>6. Labelling!LabelTypeOK'
  BY <1>1, <1>5 DEF LabelInv, Labelling!LabelTypeOK
<1>7. Labelling!Exclusive(worn)'
  <2> SUFFICES ASSUME NEW i \in Mentioned, NEW l \in Tags, NEW m \in Tags,
                      l # m, worn'[<<i, l>>] # None, worn'[<<i, l>>] # l
               PROVE  worn'[<<i, l>>] # worn'[<<i, m>>]
    BY DEF Labelling!Exclusive
  <2>1. worn[<<i, l>>] # None /\ worn'[<<i, l>>] = key[l]
    BY <1>5
  <2>2. key[l] = Labelling!Key(l) /\ key[l] \in Groups
    BY <1>3, <2>1
  <2>3. worn[<<i, l>>] = key[l] /\ worn[<<i, l>>] # l
    BY <2>1, <2>2 DEF LabelInv, PinsInv
  <2>4. worn[<<i, l>>] # worn[<<i, m>>]
    BY <2>1, <2>3 DEF LabelInv, PinsInv, Labelling!Exclusive
  <2>5. CASE worn[<<i, m>>] = None
    BY <1>5, <2>5
  <2>6. CASE worn[<<i, m>>] # None
    <3>1. worn'[<<i, m>>] = key[m] /\ worn[<<i, m>>] = Labelling!Key(m)
      BY <1>5, <2>6 DEF LabelInv, PinsInv
    <3> QED BY <1>3, <2>1, <2>2, <2>3, <2>4, <3>1, LabelConstants
  <2> QED BY <2>5, <2>6
<1>8. \A l \in Tags : copy'[l] = (group'[l] # None /\ exclusive'[group'[l]])
  BY <1>1 DEF LabelInv, PinsInv
<1>9. PinsInv'
  BY <1>2, <1>5, <1>7, <1>8 DEF PinsInv
<1> QED BY <1>1, <1>6, <1>9, GroupsMove DEF LabelInv

\* A group that becomes exclusive, or ceases to be, takes its labels' keys along.
LEMMA FlipKeeps == ASSUME LabelInv, NEW g \in Groups, Labelling!Flip(g) PROVE LabelInv'
<1> DEFINE flag == [exclusive EXCEPT ![g] = ~@]
           copied == [l \in Tags |-> IF group[l] = g THEN flag[g] ELSE copy[l]]
           key == [l \in Tags |-> Labelling!KeyOf(group[l], copied[l], l)]
<1>1. /\ Labelling!Exclusive(worn') /\ exclusive' = flag /\ copy' = copied
      /\ worn' = Labelling!Cascaded(key) /\ UNCHANGED <<group, single, ask>>
  BY DEF Labelling!Flip
<1>2. group \in [Tags -> Groups \union {None}] /\ exclusive \in [Groups -> BOOLEAN] /\ copy \in [Tags -> BOOLEAN]
  BY DEF LabelInv, Labelling!LabelTypeOK
<1>3. exclusive' \in [Groups -> BOOLEAN] /\ copy' \in [Tags -> BOOLEAN] /\ \A h \in Groups \ {g} : exclusive'[h] = exclusive[h]
  BY <1>1, <1>2
<1>4. \A l \in Tags : copy'[l] = IF group[l] = g THEN exclusive'[g] ELSE copy[l]
  BY <1>1
<1>5. \A l \in Tags : key[l] = Labelling!Key(l)' /\ key[l] \in Tags \union Groups
  BY <1>1, <1>2 DEF Labelling!Key, Labelling!KeyOf
<1>6. key \in [Tags -> Tags \union Groups]
  BY <1>5
<1> HIDE DEF key, copied, flag
<1>7. /\ worn' \in [Mentioned \X Tags -> Tags \union Groups \union {None}]
      /\ \A i \in Mentioned, l \in Tags : worn'[<<i, l>>] # None => worn'[<<i, l>>] = key[l]
      /\ \A p \in Mentioned \X Tags : worn[p] # None => worn'[p] # None
  BY <1>1, <1>6, CascadeMoves
<1>8. Labelling!LabelTypeOK'
  BY <1>1, <1>3, <1>7 DEF LabelInv, Labelling!LabelTypeOK
<1>9. \A l \in Tags : copy'[l] = (group'[l] # None /\ exclusive'[group'[l]])
  BY <1>1, <1>2, <1>3, <1>4, LabelConstants DEF LabelInv, PinsInv
<1>10. PinsInv'
  BY <1>1, <1>5, <1>7, <1>9 DEF PinsInv, Labelling!Exclusive
<1> QED BY <1>1, <1>8, <1>10, GroupsMove DEF LabelInv

\* Every step on labels keeps the invariant.
LEMMA LabelStep == LabelInv /\ [Labelling!LabelNext]_labelVars => LabelInv'
<1> SUFFICES ASSUME LabelInv, [Labelling!LabelNext]_labelVars PROVE LabelInv'
  OBVIOUS
<1>1. CASE UNCHANGED labelVars
  <2>1. UNCHANGED <<exclusive, group, copy, worn, single, ask>>
    BY <1>1 DEF labelVars
  <2>2. Labelling!LabelTypeOK' /\ PinsInv'
    BY <2>1 DEF LabelInv, Labelling!LabelTypeOK, PinsInv, Labelling!Exclusive, Labelling!Key, Labelling!KeyOf
  <2> QED BY <2>1, <2>2, GroupsMove DEF LabelInv
<1>2. ASSUME NEW l \in Tags, Labelling!ClearGroup(l) PROVE LabelInv'
  <2>1. {l} \in SUBSET Tags /\ Labelling!Ungroup({l})
    BY <1>2 DEF Labelling!ClearGroup
  <2> QED BY <2>1, UngroupKeeps
<1>3. ASSUME NEW g \in Groups, Labelling!EmptyGroup(g) PROVE LabelInv'
  <2> DEFINE S == {l \in Tags : group[l] = g}
  <2>1. S \in SUBSET Tags /\ Labelling!Ungroup(S)
    BY <1>3 DEF Labelling!EmptyGroup
  <2> HIDE DEF S
  <2> QED BY <2>1, UngroupKeeps
<1> QED
  BY <1>1, <1>2, <1>3, CountKeeps, CopyKeeps, CopyManyKeeps, AttachKeeps, RefuseKeeps, ReadGroupKeeps, SetGroupKeeps,
     DetachKeeps, FlipKeeps DEF Labelling!LabelNext

-----------------------------------------------------------------------------
(* Relations between two issues.                                            *)

\* The row of the relation by which i is a duplicate of j.
DuplicateRow(i, j) == Relating!_canonical([source |-> i, target |-> j, name |-> "duplicate"])

\* No two requests and edges have the same row.
RelationRowsInv ==
  /\ linking = [c \in Linkers |-> linking[c]]
  /\ \A c \in Linkers : linking[c] # None => linking[c].row = Relating!_canonical(linking[c].call)
  /\ \A c \in Linkers : linking[c] # None /\ linking[c].kind = "mark" => linking[c].call.name = "duplicate"
  /\ \A c \in Linkers, e \in edges : linking[c] # None => linking[c].row # e.row
  /\ \A c, d \in Linkers : linking[c] # None /\ linking[d] # None /\ linking[c].row = linking[d].row => c = d

\* Who is told is who is blocked; a declined issue has its relation, and is no original of the other.
CopiesInv ==
  /\ \A e \in edges : e.row.type = "blocks" => e.told = e.row.target
  /\ \A i, j \in Pair : <<i, j>> \in copies =>
       /\ i # j /\ <<j, i>> \notin copies
       /\ \E e \in edges : e.row = DuplicateRow(i, j)

\* The inductive invariant of the relations.
RelationInv == Relating!RelationTypeOK /\ RelationRowsInv /\ CopiesInv

\* Issues are ordered by their keys, and nobody is one.
LEMMA RelationConstants == Pair \subseteq Nat /\ None \notin Pair
BY LegalConstants DEF Relating!LegalRelationConstants

\* There are no relations at first.
LEMMA RelationStart == Relating!RelationInit => RelationInv
BY DEF Relating!RelationInit, RelationInv, Relating!RelationTypeOK, RelationRowsInv, CopiesInv

\* The canonical row of a call names its two issues: in order where the name is symmetric, and the blocker
\* first where it is not.
LEMMA Canonical ==
  ASSUME NEW c \in Relating!Calls
  PROVE  LET r == Relating!_canonical(c) IN
         /\ r \in [source : Pair, target : Pair, type : {"blocks", "related", "duplicate"}]
         /\ r.source # r.target
         /\ (r.source = c.source /\ r.target = c.target) \/ (r.source = c.target /\ r.target = c.source)
         /\ c.name \in {"related", "duplicate"} => r.type = c.name
         /\ c.name = "blocks" => r.type = "blocks" /\ r.source = c.source /\ r.target = c.target
         /\ c.name = "blocked_by" => r.type = "blocks" /\ r.source = c.target /\ r.target = c.source
         /\ c \in [source : Pair, target : Pair, name : Relating!Names] /\ c.source # c.target
<1> DEFINE r == Relating!_canonical(c)
<1>1. /\ c \in [source : Pair, target : Pair, name : {"blocks", "blocked_by", "related", "duplicate"}]
      /\ c.source \in Pair /\ c.target \in Pair /\ c.source # c.target
  BY DEF Relating!Calls, Relating!Names
<1>2. CASE c.name = "blocked_by"
  <2>1. r = [source |-> c.target, target |-> c.source, type |-> "blocks"]
    BY <1>2 DEF Relating!_canonical
  <2> HIDE DEF r
  <2> QED BY <1>1, <1>2, <2>1 DEF Relating!Names, r
<1>3. CASE c.name # "blocked_by"
  <2>1. c.name \in {"blocks", "related", "duplicate"}
    BY <1>1, <1>3
  <2>2. \/ r = [source |-> c.source, target |-> c.target, type |-> c.name]
        \/ r = [source |-> c.target, target |-> c.source, type |-> c.name] /\ c.name # "blocks"
    BY <1>3 DEF Relating!_canonical, Relating!SYMMETRIC_TYPES
  <2>3. CASE r = [source |-> c.source, target |-> c.target, type |-> c.name]
    <3> HIDE DEF r
    <3>1. r.source = c.source /\ r.target = c.target /\ r.type = c.name
      BY <2>3
    <3>2. r \in [source : Pair, target : Pair, type : {"blocks", "related", "duplicate"}]
      BY <1>1, <2>1, <2>3
    <3> QED BY <1>1, <1>3, <3>1, <3>2 DEF Relating!Names, r
  <2>4. CASE r = [source |-> c.target, target |-> c.source, type |-> c.name] /\ c.name # "blocks"
    <3> HIDE DEF r
    <3>1. r.source = c.target /\ r.target = c.source /\ r.type = c.name
      BY <2>4
    <3>2. r \in [source : Pair, target : Pair, type : {"blocks", "related", "duplicate"}]
      BY <1>1, <2>1, <2>4
    <3> QED BY <1>1, <1>3, <2>4, <3>1, <3>2 DEF Relating!Names, r
  <2> QED BY <2>2, <2>3, <2>4
<1> QED BY <1>2, <1>3

\* Two issues have one row for a duplicate, whichever is named as the original.
LEMMA DuplicateRows ==
  ASSUME NEW i \in Pair, NEW j \in Pair, i # j
  PROVE  /\ DuplicateRow(i, j) = DuplicateRow(j, i)
         /\ DuplicateRow(i, j).type = "duplicate"
         /\ \/ DuplicateRow(i, j).source = i /\ DuplicateRow(i, j).target = j
            \/ DuplicateRow(i, j).source = j /\ DuplicateRow(i, j).target = i
<1>1. i \in Nat /\ j \in Nat
  BY RelationConstants
<1> DEFINE ij == [source |-> i, target |-> j, name |-> "duplicate"]
           ji == [source |-> j, target |-> i, name |-> "duplicate"]
           rij == [source |-> i, target |-> j, type |-> "duplicate"]
           rji == [source |-> j, target |-> i, type |-> "duplicate"]
<1>2. ij.source = i /\ ij.target = j /\ ij.name = "duplicate" /\ ji.source = j /\ ji.target = i /\ ji.name = "duplicate"
  OBVIOUS
<1>3. DuplicateRow(i, j) = Relating!_canonical(ij) /\ DuplicateRow(j, i) = Relating!_canonical(ji)
  BY DEF DuplicateRow
<1> HIDE DEF ij, ji
<1>4. /\ DuplicateRow(i, j) = IF j < i THEN rji ELSE rij
      /\ DuplicateRow(j, i) = IF i < j THEN rij ELSE rji
  BY <1>2, <1>3 DEF Relating!_canonical, Relating!SYMMETRIC_TYPES
<1>5. DuplicateRow(i, j) = DuplicateRow(j, i) /\ (DuplicateRow(i, j) = rij \/ DuplicateRow(i, j) = rji)
  BY <1>1, <1>4
<1>6. rij.source = i /\ rij.target = j /\ rij.type = "duplicate" /\ rji.source = j /\ rji.target = i /\ rji.type = "duplicate"
  OBVIOUS
<1> HIDE DEF rij, rji
<1> QED BY <1>5, <1>6

\* The properties follow.
LEMMA RelationProperties == RelationInv => Relating!RelationsReadAsNamed /\ Relating!OriginalsStay
<1> SUFFICES ASSUME RelationInv PROVE Relating!RelationsReadAsNamed /\ Relating!OriginalsStay
  OBVIOUS
<1>1. ASSUME NEW e \in edges PROVE
        LET c == e.call IN
          /\ [id |-> e.row, name |-> c.name, other |-> c.target] \in Relating!list_relations(c.source)
          /\ [id |-> e.row, name |-> Relating!invert(c.name), other |-> c.source] \in Relating!list_relations(c.target)
          /\ \A i \in Pair : [id |-> e.row, name |-> "blocked_by", other |-> e.row.source] \in Relating!list_relations(i) => e.told = i
  <2> DEFINE c == e.call
             r == e.row
  <2>1. c \in Relating!Calls /\ r = Relating!_canonical(c) /\ (r.type = "blocks" => e.told = r.target)
    BY DEF RelationInv, Relating!RelationTypeOK, CopiesInv
  <2>2. /\ r.type \in {"blocks", "related", "duplicate"} /\ r.source # r.target
        /\ (r.source = c.source /\ r.target = c.target) \/ (r.source = c.target /\ r.target = c.source)
        /\ c.name \in {"related", "duplicate"} => r.type = c.name
        /\ c.name = "blocks" => r.type = "blocks" /\ r.source = c.source /\ r.target = c.target
        /\ c.name = "blocked_by" => r.type = "blocks" /\ r.source = c.target /\ r.target = c.source
        /\ c.name \in {"blocks", "blocked_by", "related", "duplicate"}
    BY <2>1, Canonical DEF Relating!Names
  <2>3. r \in {f.row : f \in {x \in edges : x.row.source = r.source}} /\ r \in {f.row : f \in {x \in edges : x.row.target = r.target}}
    OBVIOUS
  <2>4. /\ [id |-> r, name |-> r.type, other |-> r.target] \in Relating!list_relations(r.source)
        /\ [id |-> r, name |-> Relating!invert(r.type), other |-> r.source] \in Relating!list_relations(r.target)
    BY <2>3 DEF Relating!list_relations
  <2>5. ASSUME NEW i \in Pair, [id |-> r, name |-> "blocked_by", other |-> r.source] \in Relating!list_relations(i)
        PROVE  e.told = i
    <3> DEFINE out == {f.row : f \in {x \in edges : x.row.source = i}}
               in == {f.row : f \in {x \in edges : x.row.target = i}}
               n == [id |-> r, name |-> "blocked_by", other |-> r.source]
    <3>1. \/ \E q \in out : n = [id |-> q, name |-> q.type, other |-> q.target]
          \/ \E q \in in : n = [id |-> q, name |-> Relating!invert(q.type), other |-> q.source]
      BY <2>5 DEF Relating!list_relations
    <3>2. n.id = r /\ n.name = "blocked_by"
      OBVIOUS
    <3>3. ASSUME NEW q \in out, n = [id |-> q, name |-> q.type, other |-> q.target] PROVE FALSE
      <4>1. n.id = q /\ n.name = q.type
        BY <3>3
      <4> QED BY <4>1, <3>2, <2>2
    <3>4. ASSUME NEW q \in in, n = [id |-> q, name |-> Relating!invert(q.type), other |-> q.source] PROVE r.target = i /\ r.type = "blocks"
      <4>1. n.id = q /\ n.name = Relating!invert(q.type)
        BY <3>4
      <4>2. q = r /\ q.target = i
        BY <4>1, <3>2
      <4> QED BY <4>1, <4>2, <3>2, <2>2 DEF Relating!invert
    <3> HIDE DEF n, in, out
    <3> QED BY <3>1, <3>3, <3>4, <2>1
  <2>6. /\ [id |-> r, name |-> c.name, other |-> c.target] \in Relating!list_relations(c.source)
        /\ [id |-> r, name |-> Relating!invert(c.name), other |-> c.source] \in Relating!list_relations(c.target)
    <3>1. CASE r.source = c.source /\ r.target = c.target /\ r.type = c.name
      BY <2>4, <3>1
    <3>2. CASE r.source = c.target /\ r.target = c.source /\ Relating!invert(r.type) = c.name /\ r.type = Relating!invert(c.name)
      BY <2>4, <3>2
    <3> QED BY <3>1, <3>2, <2>2 DEF Relating!invert
  <2> QED BY <2>5, <2>6
<1>2. Relating!RelationsReadAsNamed
  BY <1>1 DEF Relating!RelationsReadAsNamed
<1>3. Relating!OriginalsStay
  BY DEF Relating!OriginalsStay, RelationInv, CopiesInv
<1> QED BY <1>2, <1>3

\* A request inserts a row nobody has, or waits.
LEMMA InsertionKeeps ==
  ASSUME RelationInv, NEW c \in Linkers, NEW call \in Relating!Calls, NEW kind \in {"create", "mark"}, Relating!Insert(c, call, kind)
  PROVE  RelationInv'
<1> DEFINE edge == Relating!_canonical(call)
           l == [call |-> call, row |-> edge, kind |-> kind]
<1>1. /\ Relating!Free(edge) /\ (kind = "mark" => call.name = "duplicate")
      /\ linking' = [linking EXCEPT ![c] = l] /\ UNCHANGED <<edges, queued, copies>>
  BY DEF Relating!Insert
<1>2. /\ linking' = [d \in Linkers |-> linking'[d]] /\ linking'[c] = l /\ \A d \in Linkers \ {c} : linking'[d] = linking[d]
  BY <1>1 DEF RelationInv, RelationRowsInv
<1>3. l.call = call /\ l.row = edge /\ l.kind = kind
  OBVIOUS
<1> HIDE DEF l
<1>4. Relating!RelationTypeOK'
  BY <1>1, <1>2, <1>3 DEF RelationInv, Relating!RelationTypeOK
<1>5. RelationRowsInv'
  BY <1>1, <1>2, <1>3 DEF RelationInv, RelationRowsInv, Relating!Free
<1>6. CopiesInv'
  BY <1>1 DEF RelationInv, CopiesInv
<1> QED BY <1>4, <1>5, <1>6 DEF RelationInv

\* A row that is recorded was nobody else's.
LEMMA RecordingKeeps ==
  ASSUME RelationInv, NEW c \in Linkers, NEW who, linking[c] # None,
         Relating!Recorded(c, who), Relating!Over(c), who \in Pair \union {None},
         linking[c].row.type = "blocks" => who = linking[c].row.target
  PROVE  /\ RelationRowsInv'
         /\ \A e \in edges' : e.call \in Relating!Calls /\ e.row = Relating!_canonical(e.call) /\ e.told \in Pair \union {None}
         /\ \A e, f \in edges' : e.row = f.row => e = f
         /\ \A d \in Linkers : linking'[d] # None => linking'[d].call \in Relating!Calls /\ linking'[d].kind \in {"create", "mark"}
         /\ \A e \in edges' : e.row.type = "blocks" => e.told = e.row.target
         /\ edges \subseteq edges' /\ \E e \in edges' : e.row = linking[c].row
<1> DEFINE n == [row |-> linking[c].row, call |-> linking[c].call, told |-> who]
<1>1. edges' = edges \union {n} /\ n.row = linking[c].row /\ n.call = linking[c].call /\ n.told = who
  BY DEF Relating!Recorded
<1>2. linking' = [d \in Linkers |-> linking'[d]] /\ linking'[c] = None /\ \A d \in Linkers \ {c} : linking'[d] = linking[d]
  BY DEF RelationInv, RelationRowsInv, Relating!Over
<1> HIDE DEF n
<1>3. n.call \in Relating!Calls /\ n.row = Relating!_canonical(n.call) /\ \A e \in edges : e.row # n.row
  BY <1>1 DEF RelationInv, RelationRowsInv, Relating!RelationTypeOK
<1>4. RelationRowsInv'
  <2>1. \A d \in Linkers : linking'[d] # None => d # c /\ linking'[d] = linking[d]
    BY <1>2
  <2>2. \A d \in Linkers, e \in edges' : linking'[d] # None => linking'[d].row # e.row
    BY <1>1, <2>1 DEF RelationInv, RelationRowsInv
  <2> QED BY <1>2, <2>1, <2>2 DEF RelationInv, RelationRowsInv
<1>5. \A e \in edges' : e.call \in Relating!Calls /\ e.row = Relating!_canonical(e.call) /\ e.told \in Pair \union {None}
  BY <1>1, <1>3 DEF RelationInv, Relating!RelationTypeOK
<1>6. \A e, f \in edges' : e.row = f.row => e = f
  BY <1>1, <1>3 DEF RelationInv, Relating!RelationTypeOK
<1>7. \A d \in Linkers : linking'[d] # None => linking'[d].call \in Relating!Calls /\ linking'[d].kind \in {"create", "mark"}
  BY <1>2 DEF RelationInv, Relating!RelationTypeOK
<1>8. \A e \in edges' : e.row.type = "blocks" => e.told = e.row.target
  BY <1>1 DEF RelationInv, CopiesInv
<1> QED BY <1>1, <1>4, <1>5, <1>6, <1>7, <1>8

\* A relation is recorded as it was named.
LEMMA RelateKeeps == ASSUME RelationInv, NEW c \in Linkers, Relating!Relate(c) PROVE RelationInv'
<1> DEFINE call == linking[c].call
           who == Relating!_blocked_issue_id(call)
<1>1. /\ linking[c] # None /\ Relating!Recorded(c, who) /\ Relating!Over(c) /\ UNCHANGED <<queued, copies>>
  BY DEF Relating!Relate
<1>2. call \in Relating!Calls /\ linking[c].row = Relating!_canonical(call)
  BY <1>1 DEF RelationInv, RelationRowsInv, Relating!RelationTypeOK
<1>3. who \in Pair \union {None} /\ (linking[c].row.type = "blocks" => who = linking[c].row.target)
  BY <1>2, Canonical DEF Relating!_blocked_issue_id, Relating!Names
<1> HIDE DEF who
<1>4. /\ RelationRowsInv' /\ edges \subseteq edges'
      /\ \A e \in edges' : e.call \in Relating!Calls /\ e.row = Relating!_canonical(e.call) /\ e.told \in Pair \union {None}
      /\ \A e, f \in edges' : e.row = f.row => e = f
      /\ \A d \in Linkers : linking'[d] # None => linking'[d].call \in Relating!Calls /\ linking'[d].kind \in {"create", "mark"}
      /\ \A e \in edges' : e.row.type = "blocks" => e.told = e.row.target
  BY <1>1, <1>3, RecordingKeeps
<1>5. Relating!RelationTypeOK'
  BY <1>1, <1>4 DEF RelationInv, Relating!RelationTypeOK
<1>6. CopiesInv'
  BY <1>1, <1>4 DEF RelationInv, CopiesInv
<1> QED BY <1>4, <1>5, <1>6 DEF RelationInv

\* A duplicate is declined together with its issue.
LEMMA DeclineKeeps == ASSUME RelationInv, NEW c \in Linkers, Relating!Decline(c) PROVE RelationInv'
<1> DEFINE call == linking[c].call
           i == call.source
           j == call.target
<1>1. /\ linking[c] # None /\ linking[c].kind = "mark" /\ queued' = queued \ {i} /\ copies' = copies \union {<<i, j>>}
      /\ Relating!Recorded(c, None) /\ Relating!Over(c)
  BY DEF Relating!Decline
<1>2. call \in Relating!Calls /\ linking[c].row = Relating!_canonical(call) /\ call.name = "duplicate"
  BY <1>1 DEF RelationInv, RelationRowsInv, Relating!RelationTypeOK
<1>3. linking[c].row.type = "duplicate" /\ i \in Pair /\ j \in Pair /\ i # j
  BY <1>2, Canonical DEF Relating!Calls
<1>4. call = [source |-> i, target |-> j, name |-> "duplicate"]
  BY <1>2 DEF Relating!Calls
<1>5. linking[c].row = DuplicateRow(i, j) /\ DuplicateRow(i, j) = DuplicateRow(j, i)
  BY <1>2, <1>3, <1>4, DuplicateRows DEF DuplicateRow
<1> HIDE DEF call
<1>6. /\ RelationRowsInv' /\ edges \subseteq edges' /\ \E e \in edges' : e.row = linking[c].row
      /\ \A e \in edges' : e.call \in Relating!Calls /\ e.row = Relating!_canonical(e.call) /\ e.told \in Pair \union {None}
      /\ \A e, f \in edges' : e.row = f.row => e = f
      /\ \A d \in Linkers : linking'[d] # None => linking'[d].call \in Relating!Calls /\ linking'[d].kind \in {"create", "mark"}
      /\ \A e \in edges' : e.row.type = "blocks" => e.told = e.row.target
  BY <1>1, <1>3, RecordingKeeps
<1>7. Relating!RelationTypeOK'
  BY <1>1, <1>3, <1>6 DEF RelationInv, Relating!RelationTypeOK
<1>8. <<j, i>> \notin copies
  <2>1. \A e \in edges : e.row # DuplicateRow(j, i)
    BY <1>1, <1>5 DEF RelationInv, RelationRowsInv
  <2> QED BY <1>3, <2>1 DEF RelationInv, CopiesInv
<1>9. ASSUME NEW k \in Pair, NEW m \in Pair, <<k, m>> \in copies'
      PROVE  k # m /\ <<m, k>> \notin copies' /\ \E e \in edges' : e.row = DuplicateRow(k, m)
  <2>1. CASE <<k, m>> = <<i, j>>
    <3>1. k = i /\ m = j
      BY <2>1
    <3> QED BY <1>1, <1>3, <1>5, <1>6, <1>8, <3>1
  <2>2. CASE <<k, m>> # <<i, j>>
    <3>1. <<k, m>> \in copies
      BY <1>1, <1>9, <2>2
    <3>2. k # m /\ <<m, k>> \notin copies /\ \E e \in edges : e.row = DuplicateRow(k, m)
      BY <3>1 DEF RelationInv, CopiesInv
    <3>3. <<m, k>> # <<i, j>>
      BY <1>8, <3>1
    <3> QED BY <1>1, <1>6, <3>2, <3>3
  <2> QED BY <2>1, <2>2
<1>10. CopiesInv'
  BY <1>6, <1>9 DEF CopiesInv
<1> QED BY <1>6, <1>7, <1>10 DEF RelationInv

\* A relation is deleted.
LEMMA DeletionKeeps == ASSUME RelationInv, NEW e \in edges, Relating!delete_relation(e) PROVE RelationInv'
<1> DEFINE gone == IF e.row.type = "duplicate" THEN {<<e.row.source, e.row.target>>, <<e.row.target, e.row.source>>} ELSE {}
<1>1. edges' = edges \ {e} /\ copies' = copies \ gone /\ UNCHANGED <<linking, queued>>
  BY DEF Relating!delete_relation
<1>2. Relating!RelationTypeOK'
  BY <1>1 DEF RelationInv, Relating!RelationTypeOK
<1>3. RelationRowsInv'
  BY <1>1 DEF RelationInv, RelationRowsInv
<1>4. ASSUME NEW k \in Pair, NEW m \in Pair, <<k, m>> \in copies'
      PROVE  k # m /\ <<m, k>> \notin copies' /\ \E f \in edges' : f.row = DuplicateRow(k, m)
  <2>1. k # m /\ <<m, k>> \notin copies /\ <<k, m>> \in copies
    BY <1>1, <1>4 DEF RelationInv, CopiesInv
  <2>2. PICK f \in edges : f.row = DuplicateRow(k, m)
    BY <2>1 DEF RelationInv, CopiesInv
  <2>3. f # e
    BY <1>1, <1>4, <2>1, <2>2, DuplicateRows
  <2> QED BY <1>1, <2>1, <2>2, <2>3
<1>5. CopiesInv'
  BY <1>1, <1>4 DEF RelationInv, CopiesInv
<1> QED BY <1>2, <1>3, <1>5 DEF RelationInv

\* Every step on relations keeps the invariant.
LEMMA RelationStep == RelationInv /\ [Relating!RelationNext]_relationVars => RelationInv'
<1> SUFFICES ASSUME RelationInv, [Relating!RelationNext]_relationVars PROVE RelationInv'
  OBVIOUS
<1>1. ASSUME NEW c \in Linkers, Relating!Rollback(c) PROVE RelationInv'
  <2>1. /\ linking' = [d \in Linkers |-> linking'[d]] /\ linking'[c] = None /\ \A d \in Linkers \ {c} : linking'[d] = linking[d]
        /\ UNCHANGED <<edges, queued, copies>>
    BY <1>1 DEF RelationInv, RelationRowsInv, Relating!Rollback, Relating!Over
  <2> QED BY <2>1 DEF RelationInv, RelationRowsInv, CopiesInv, Relating!RelationTypeOK
<1>2. ASSUME UNCHANGED <<edges, linking, copies>>, queued' \subseteq Pair PROVE RelationInv'
  BY <1>2 DEF RelationInv, RelationRowsInv, CopiesInv, Relating!RelationTypeOK
<1>3. ASSUME NEW i \in Pair, Relating!Enter(i) \/ Relating!Accept(i) PROVE RelationInv'
  BY <1>2, <1>3 DEF Relating!Enter, Relating!Accept, RelationInv, Relating!RelationTypeOK
<1>4. CASE UNCHANGED relationVars
  BY <1>2, <1>4 DEF relationVars, RelationInv, Relating!RelationTypeOK
<1> QED
  BY <1>1, <1>3, <1>4, InsertionKeeps, RelateKeeps, DeclineKeeps, DeletionKeeps DEF Relating!RelationNext

-----------------------------------------------------------------------------
(* Teams, their boards, cycles and estimates.                               *)

\* Two cycles of a team differ in number and do not overlap.
SprintsInv ==
  \A c, d \in Sprints : c # d /\ sprint[c] # None /\ sprint[d] # None /\ sprint[c].team = sprint[d].team =>
    sprint[c].number # sprint[d].number /\ ~Founding!Overlap(sprint[c].span, sprint[d].span)

\* An issue is of a team that was committed, and its cycle is of that team.
SheetsInv ==
  \A i \in Sized : sheet[i] # None =>
    /\ Founding!Seen(sheet[i].team)
    /\ sheet[i].cycle # None => sprint[sheet[i].cycle] # None /\ sprint[sheet[i].cycle].team = sheet[i].team

\* Whoever will write an estimate has seen that it means something on the scale that was read.
SizingInv ==
  /\ sizing = [w \in Founders |-> sizing[w]]
  /\ \A w \in Founders : sizing[w] # None => LET z == sizing[w] IN
       /\ z.team \in Crews /\ Founding!Seen(z.team) /\ (~z.new => sheet[z.issue] # None)
       /\ z.estimate # None => Founding!is_valid_estimate(z.scale, z.estimate)

\* The inductive invariant of teams and cycles.
BoardInv ==
  /\ Founding!BoardTypeOK /\ Founding!BoardsAreWhole /\ Founding!EstimatesFit
  /\ SprintsInv /\ SheetsInv /\ SizingInv

\* What teams and cycles assume of their constants.
LEMMA BoardConstants ==
  /\ Units \subseteq Founding!Scales /\ LastInstant \in Nat /\ Guesses \subseteq Nat /\ MaxStrokes \in Nat
  /\ None \notin Crews /\ None \notin Sprints /\ None \notin Guesses /\ None \notin Founders /\ None \notin Founding!Scales
  /\ None \notin Founding!CrewRow /\ None \notin Founding!SprintRow /\ None \notin Founding!SheetRow
BY LegalConstants DEF Founding!LegalBoardConstants

\* There are no teams at first.
LEMMA BoardStart == Founding!BoardInit => BoardInv
<1> SUFFICES ASSUME Founding!BoardInit PROVE BoardInv
  OBVIOUS
<1>1. Founding!BoardTypeOK
  BY BoardConstants DEF Founding!BoardInit, Founding!BoardTypeOK
<1>2. Founding!BoardsAreWhole /\ Founding!EstimatesFit
  BY DEF Founding!BoardInit, Founding!BoardsAreWhole, Founding!EstimatesFit, Founding!Seen
<1>3. SprintsInv /\ SheetsInv /\ SizingInv
  BY DEF Founding!BoardInit, SprintsInv, SheetsInv, SizingInv
<1> QED BY <1>1, <1>2, <1>3 DEF BoardInv

\* The properties follow.
LEMMA BoardProperties ==
  BoardInv => Founding!CyclesAreTheTeams /\ Founding!BoardsAreWhole /\ Founding!EstimatesFit
<1> SUFFICES ASSUME BoardInv PROVE Founding!CyclesAreTheTeams
  BY DEF BoardInv
<1>1. \A i \in Sized : sheet[i] # None /\ sheet[i].cycle # None =>
        sprint[sheet[i].cycle] # None /\ sprint[sheet[i].cycle].team = sheet[i].team
  BY DEF BoardInv, SheetsInv
<1>2. ASSUME NEW n \in 0..LastInstant, NEW t \in Crews
      PROVE  Founding!Cardinality({c \in Sprints : sprint[c] # None /\ sprint[c].team = t
                                    /\ sprint[c].span[1] <= n /\ n < sprint[c].span[2]}) <= 1
  <2> DEFINE S == {c \in Sprints : sprint[c] # None /\ sprint[c].team = t
                                    /\ sprint[c].span[1] <= n /\ n < sprint[c].span[2]}
  <2>1. \A c \in Sprints : sprint[c] # None => sprint[c].span[1] \in Nat /\ sprint[c].span[2] \in Nat
    BY BoardConstants DEF BoardInv, Founding!BoardTypeOK, Founding!SprintRow, Founding!Spans
  <2>2. ASSUME NEW c \in S, NEW d \in S PROVE c = d
    <3>1. sprint[c].span[1] < sprint[d].span[2] /\ sprint[d].span[1] < sprint[c].span[2]
      BY <2>1
    <3> QED BY <3>1 DEF BoardInv, SprintsInv, Founding!Overlap
  <2> HIDE DEF S
  <2>3. S = {} \/ \E c : S = {c}
    BY <2>2
  <2>4. Cardinality(S) <= 1
    <3>1. CASE S = {}
      BY <3>1, FS_EmptySet
    <3>2. ASSUME NEW c, S = {c} PROVE Cardinality(S) <= 1
      BY <3>2, FS_Singleton
    <3> QED BY <2>3, <3>1, <3>2
  <2>5. Founding!Cardinality(S) = Cardinality(S)
    BY DEF Founding!Cardinality, Cardinality
  <2> QED BY <2>4, <2>5 DEF S
<1> QED BY <1>1, <1>2 DEF Founding!CyclesAreTheTeams

\* The parts of the invariant that one table disturbs, when the others rest.
LEMMA CrewsMove ==
  ASSUME BoardInv, NEW t \in Crews, NEW r \in Founding!CrewRow \union {None}, crew' = [crew EXCEPT ![t] = r],
         Founding!Seen(t) => r # None /\ r.by = None,
         r # None /\ r.by = None => r.board = TRUE,
         UNCHANGED <<sprint, sheet, sizing>>, strokes' \in 0..MaxStrokes, unfit \subseteq unfit', unfit' \subseteq Sized,
         \A i \in Sized \ unfit' : sheet[i] # None /\ sheet[i].team = t => r.scale = crew[t].scale
  PROVE  BoardInv'
<1>1. crew \in [Crews -> Founding!CrewRow \union {None}] /\ sheet \in [Sized -> Founding!SheetRow \union {None}]
  BY DEF BoardInv, Founding!BoardTypeOK
<1>2. /\ crew' \in [Crews -> Founding!CrewRow \union {None}] /\ crew'[t] = r
      /\ \A u \in Crews \ {t} : crew'[u] = crew[u]
  BY <1>1
<1>3. \A u \in Crews : Founding!Seen(u) => Founding!Seen(u)'
  BY <1>2 DEF Founding!Seen
<1>4. Founding!BoardTypeOK'
  BY <1>2 DEF BoardInv, Founding!BoardTypeOK
<1>5. Founding!BoardsAreWhole'
  BY <1>2 DEF BoardInv, Founding!BoardsAreWhole, Founding!Seen
<1>6. \A i \in Sized : sheet[i] # None => sheet[i].team \in Crews
  BY <1>1 DEF Founding!SheetRow
<1>7. Founding!EstimatesFit'
  BY <1>2, <1>6 DEF BoardInv, Founding!EstimatesFit
<1>8. SprintsInv' /\ SheetsInv' /\ SizingInv'
  <2>1. SprintsInv'
    BY DEF BoardInv, SprintsInv
  <2>2. SheetsInv'
    BY <1>3, <1>6 DEF BoardInv, SheetsInv
  <2>3. SizingInv'
    BY <1>3 DEF BoardInv, SizingInv
  <2> QED BY <2>1, <2>2, <2>3
<1> QED BY <1>4, <1>5, <1>7, <1>8 DEF BoardInv

\* A team's row, and the row it becomes when one of its columns is written.
LEMMA CrewRows ==
  ASSUME BoardInv, NEW t \in Crews, crew[t] # None
  PROVE  /\ crew[t] \in Founding!CrewRow /\ crew[t].scale \in Founding!Scales /\ crew[t].board \in BOOLEAN
         /\ \A s \in Founding!Scales :
              /\ [crew[t] EXCEPT !.scale = s] \in Founding!CrewRow /\ [crew[t] EXCEPT !.scale = s].scale = s
              /\ [crew[t] EXCEPT !.scale = s].board = crew[t].board /\ [crew[t] EXCEPT !.scale = s].by = crew[t].by
         /\ [crew[t] EXCEPT !.board = TRUE] \in Founding!CrewRow /\ [crew[t] EXCEPT !.board = TRUE].scale = crew[t].scale
         /\ [crew[t] EXCEPT !.board = TRUE].board = TRUE /\ [crew[t] EXCEPT !.board = TRUE].by = crew[t].by
         /\ [crew[t] EXCEPT !.by = None] \in Founding!CrewRow /\ [crew[t] EXCEPT !.by = None].scale = crew[t].scale
         /\ [crew[t] EXCEPT !.by = None].board = crew[t].board /\ [crew[t] EXCEPT !.by = None].by = None
<1>1. crew[t] \in [scale : Founding!Scales, board : BOOLEAN, by : Founders \union {None}]
  BY DEF BoardInv, Founding!BoardTypeOK, Founding!CrewRow
<1> DEFINE r == crew[t]
<1>2. r \in [scale : Founding!Scales, board : BOOLEAN, by : Founders \union {None}]
  BY <1>1
<1> HIDE DEF r
<1>3. \A s \in Founding!Scales : [r EXCEPT !.scale = s] \in Founding!CrewRow /\ [r EXCEPT !.scale = s].scale = s
                              /\ [r EXCEPT !.scale = s].board = r.board /\ [r EXCEPT !.scale = s].by = r.by
  BY <1>2 DEF Founding!CrewRow
<1>4. [r EXCEPT !.board = TRUE] \in Founding!CrewRow /\ [r EXCEPT !.board = TRUE].scale = r.scale
       /\ [r EXCEPT !.board = TRUE].board = TRUE /\ [r EXCEPT !.board = TRUE].by = r.by
  BY <1>2 DEF Founding!CrewRow
<1>5. [r EXCEPT !.by = None] \in Founding!CrewRow /\ [r EXCEPT !.by = None].scale = r.scale
       /\ [r EXCEPT !.by = None].board = r.board /\ [r EXCEPT !.by = None].by = None
  BY <1>2 DEF Founding!CrewRow
<1> QED BY <1>2, <1>3, <1>4, <1>5 DEF r, Founding!CrewRow

\* A team is created and given its board within one transaction.
LEMMA FoundingKeeps ==
  ASSUME BoardInv, NEW w \in Founders,
         \/ \E t \in Crews : Founding!create(w, t)
         \/ Founding!seed_default_workflow_states(w) \/ Founding!Commit(w) \/ Founding!Rollback(w)
  PROVE  BoardInv'
<1>0. strokes \in 0..MaxStrokes /\ unfit \subseteq Sized /\ w # None
  BY BoardConstants DEF BoardInv, Founding!BoardTypeOK
<1>9. \A i \in Sized, t \in Crews : sheet[i] # None /\ sheet[i].team = t => Founding!Seen(t)
  BY DEF BoardInv, SheetsInv
<1>1. ASSUME NEW t \in Crews, Founding!create(w, t) PROVE BoardInv'
  <2> DEFINE r == [scale |-> "none", board |-> FALSE, by |-> w]
  <2>1. r \in Founding!CrewRow /\ r # None /\ r.by = w
    <3>1. r \in Founding!CrewRow /\ r.by = w
      BY DEF Founding!CrewRow, Founding!Scales
    <3> QED BY <3>1, BoardConstants
  <2>2. crew' = [crew EXCEPT ![t] = r] /\ ~Founding!Seen(t) /\ UNCHANGED <<sprint, sheet, sizing, unfit, strokes>>
    BY <1>1 DEF Founding!create, Founding!Seen
  <2> HIDE DEF r
  <2> QED BY <1>0, <1>9, <2>1, <2>2, CrewsMove
<1>2. ASSUME Founding!seed_default_workflow_states(w) PROVE BoardInv'
  <2>1. PICK t \in Crews : crew[t] # None /\ crew[t].by = w /\ crew' = [crew EXCEPT ![t].board = TRUE]
    BY <1>2 DEF Founding!seed_default_workflow_states, Founding!Founding
  <2> DEFINE r == [crew[t] EXCEPT !.board = TRUE]
  <2>2. crew' = [crew EXCEPT ![t] = r] /\ UNCHANGED <<sprint, sheet, sizing, unfit, strokes>>
    BY <1>2, <2>1 DEF Founding!seed_default_workflow_states
  <2>3. r \in Founding!CrewRow /\ r.by = w /\ r.board = TRUE /\ ~Founding!Seen(t)
    BY <1>0, <2>1, CrewRows DEF Founding!Seen
  <2> HIDE DEF r
  <2>4. unfit \subseteq unfit' /\ unfit' \subseteq Sized /\ strokes' \in 0..MaxStrokes
    BY <1>0, <2>2
  <2>5. \A i \in Sized \ unfit' : sheet[i] # None /\ sheet[i].team = t => r.scale = crew[t].scale
    BY <1>9, <2>1, <2>3
  <2>9. t \in Crews
    BY <2>1
  <2>6. crew' = [crew EXCEPT ![t] = r] /\ r \in Founding!CrewRow \union {None}
    BY <2>2, <2>3
  <2>7. (Founding!Seen(t) => r # None /\ r.by = None) /\ (r # None /\ r.by = None => r.board = TRUE)
    BY <1>0, <2>3
  <2>8. UNCHANGED <<sprint, sheet, sizing>>
    BY <2>2
  <2> QED BY <2>4, <2>5, <2>6, <2>7, <2>8, <2>9, CrewsMove
<1>3. ASSUME Founding!Commit(w) PROVE BoardInv'
  <2>1. PICK t \in Crews : crew[t] # None /\ crew[t].by = w /\ crew[t].board /\ crew' = [crew EXCEPT ![t].by = None]
    BY <1>3 DEF Founding!Commit, Founding!Founding
  <2> DEFINE r == [crew[t] EXCEPT !.by = None]
  <2>2. crew' = [crew EXCEPT ![t] = r] /\ UNCHANGED <<sprint, sheet, sizing, unfit, strokes>>
    BY <1>3, <2>1 DEF Founding!Commit
  <2>3. r \in Founding!CrewRow /\ r.by = None /\ r.board = TRUE /\ ~Founding!Seen(t)
    BY <1>0, <2>1, CrewRows DEF Founding!Seen
  <2> HIDE DEF r
  <2>4. unfit \subseteq unfit' /\ unfit' \subseteq Sized /\ strokes' \in 0..MaxStrokes
    BY <1>0, <2>2
  <2>5. \A i \in Sized \ unfit' : sheet[i] # None /\ sheet[i].team = t => r.scale = crew[t].scale
    BY <1>9, <2>1, <2>3
  <2>9. t \in Crews
    BY <2>1
  <2>6. crew' = [crew EXCEPT ![t] = r] /\ r \in Founding!CrewRow \union {None}
    BY <2>2, <2>3
  <2>7. (Founding!Seen(t) => r # None /\ r.by = None) /\ (r # None /\ r.by = None => r.board = TRUE)
    BY <1>0, <2>3
  <2>8. UNCHANGED <<sprint, sheet, sizing>>
    BY <2>2
  <2> QED BY <2>4, <2>5, <2>6, <2>7, <2>8, <2>9, CrewsMove
<1>4. ASSUME Founding!Rollback(w) PROVE BoardInv'
  <2>1. PICK t \in Crews : crew[t] # None /\ crew[t].by = w /\ crew' = [crew EXCEPT ![t] = None]
    BY <1>4 DEF Founding!Rollback, Founding!Founding
  <2>2. ~Founding!Seen(t) /\ UNCHANGED <<sprint, sheet, sizing, unfit, strokes>>
    BY <1>0, <1>4, <2>1 DEF Founding!Seen, Founding!Rollback
  <2>3. unfit \subseteq unfit' /\ unfit' \subseteq Sized /\ strokes' \in 0..MaxStrokes
    BY <1>0, <2>2
  <2>4. \A i \in Sized \ unfit' : sheet[i] # None /\ sheet[i].team = t => FALSE
    BY <1>9, <2>2
  <2> QED BY <2>1, <2>2, <2>3, <2>4, CrewsMove
<1> QED BY <1>1, <1>2, <1>3, <1>4

\* A team's scale is changed, and its estimates may be unfit.
LEMMA RescalingKeeps ==
  ASSUME BoardInv, NEW t \in Crews, NEW s \in Units, Founding!set_estimate_scale(t, s) PROVE BoardInv'
<1> DEFINE r == [crew[t] EXCEPT !.scale = s]
<1>1. s \in Founding!Scales /\ crew[t] # None /\ crew[t].by = None /\ crew[t].board
  BY BoardConstants DEF Founding!set_estimate_scale, Founding!Seen, BoardInv, Founding!BoardsAreWhole
<1>2. /\ crew' = [crew EXCEPT ![t] = r] /\ UNCHANGED <<sprint, sheet, sizing>>
      /\ strokes < MaxStrokes /\ strokes' = strokes + 1 /\ strokes \in 0..MaxStrokes /\ MaxStrokes \in Nat
      /\ unfit' = unfit \union {i \in Sized : sheet[i] # None /\ sheet[i].team = t} /\ unfit \subseteq Sized
  BY BoardConstants DEF Founding!set_estimate_scale, Founding!Stroke, BoardInv, Founding!BoardTypeOK
<1>3. strokes' \in 0..MaxStrokes
  BY <1>2
<1>4. r \in Founding!CrewRow /\ r.by = None /\ r.board = TRUE /\ r # None
  <2>1. r \in Founding!CrewRow
    BY <1>1, CrewRows
  <2>2. r.by = None /\ r.board = crew[t].board
    BY <1>1, CrewRows
  <2>3. crew[t].board = TRUE
    BY <1>1, CrewRows
  <2> QED BY <2>1, <2>2, <2>3, BoardConstants
<1> HIDE DEF r
<1>5. /\ unfit \subseteq unfit' /\ unfit' \subseteq Sized
      /\ \A i \in Sized \ unfit' : sheet[i] # None /\ sheet[i].team = t => r.scale = crew[t].scale
  BY <1>2
<1> QED BY <1>2, <1>3, <1>4, <1>5, CrewsMove

\* An issue's row is written where its team is seen, its cycle is its team's and its estimate fits.
LEMMA SheetsMove ==
  ASSUME BoardInv, NEW i \in Sized, NEW r \in Founding!SheetRow, sheet' = [sheet EXCEPT ![i] = r], UNCHANGED <<crew, sprint>>,
         Founding!Seen(r.team), r.cycle # None => sprint[r.cycle] # None /\ sprint[r.cycle].team = r.team,
         unfit' \subseteq Sized, \A j \in Sized \ unfit' : j # i => j \notin unfit,
         i \notin unfit' /\ r.estimate # None /\ crew[r.team].scale = "tshirt" => r.estimate \in 1..Founding!TSHIRT_LABELS,
         strokes' \in 0..MaxStrokes,
         sizing' = [w \in Founders |-> sizing'[w]], \A w \in Founders : sizing'[w] # None => sizing'[w] = sizing[w]
  PROVE  BoardInv'
<1>1. sheet \in [Sized -> Founding!SheetRow \union {None}]
  BY DEF BoardInv, Founding!BoardTypeOK
<1>2. /\ sheet' \in [Sized -> Founding!SheetRow \union {None}] /\ sheet'[i] = r /\ r # None
      /\ \A j \in Sized \ {i} : sheet'[j] = sheet[j]
  BY <1>1, BoardConstants
<1>3. \A t \in Crews : Founding!Seen(t)' = Founding!Seen(t)
  BY DEF Founding!Seen
<1>4. \A j \in Sized : sheet[j] # None => sheet'[j] # None
  BY <1>2
<1>5. Founding!BoardTypeOK'
  BY <1>2 DEF BoardInv, Founding!BoardTypeOK
<1>6. Founding!BoardsAreWhole'
  BY <1>3 DEF BoardInv, Founding!BoardsAreWhole
<1>7. Founding!EstimatesFit'
  BY <1>2 DEF BoardInv, Founding!EstimatesFit, Founding!TSHIRT_LABELS
<1>8. SprintsInv'
  BY DEF BoardInv, SprintsInv
<1>9. SheetsInv'
  BY <1>2, <1>3 DEF BoardInv, SheetsInv, Founding!Seen
<1>10. SizingInv'
  BY <1>3, <1>4 DEF BoardInv, Founding!BoardTypeOK, SizingInv
<1> QED BY <1>5, <1>6, <1>7, <1>8, <1>9, <1>10 DEF BoardInv

\* An issue's row, and the row it becomes when one of its columns is written.
LEMMA SheetRows ==
  ASSUME BoardInv, NEW i \in Sized, sheet[i] # None
  PROVE  /\ sheet[i] \in Founding!SheetRow /\ sheet[i].team \in Crews /\ Founding!Seen(sheet[i].team)
         /\ sheet[i].cycle # None => sprint[sheet[i].cycle] # None /\ sprint[sheet[i].cycle].team = sheet[i].team
         /\ \A e \in Guesses \union {None} :
              /\ [sheet[i] EXCEPT !.estimate = e] \in Founding!SheetRow /\ [sheet[i] EXCEPT !.estimate = e].estimate = e
              /\ [sheet[i] EXCEPT !.estimate = e].team = sheet[i].team /\ [sheet[i] EXCEPT !.estimate = e].cycle = sheet[i].cycle
         /\ \A t \in Crews :
              /\ [sheet[i] EXCEPT !.team = t] \in Founding!SheetRow /\ [sheet[i] EXCEPT !.team = t].estimate = sheet[i].estimate
              /\ [sheet[i] EXCEPT !.team = t].team = t /\ [sheet[i] EXCEPT !.team = t].cycle = sheet[i].cycle
         /\ \A c \in Sprints \union {None} :
              /\ [sheet[i] EXCEPT !.cycle = c] \in Founding!SheetRow /\ [sheet[i] EXCEPT !.cycle = c].estimate = sheet[i].estimate
              /\ [sheet[i] EXCEPT !.cycle = c].team = sheet[i].team /\ [sheet[i] EXCEPT !.cycle = c].cycle = c
<1>1. /\ sheet[i] \in [team : Crews, estimate : Guesses \union {None}, cycle : Sprints \union {None}]
      /\ sheet[i] \in Founding!SheetRow
  BY DEF BoardInv, Founding!BoardTypeOK, Founding!SheetRow
<1>2. /\ Founding!Seen(sheet[i].team)
      /\ sheet[i].cycle # None => sprint[sheet[i].cycle] # None /\ sprint[sheet[i].cycle].team = sheet[i].team
  BY DEF BoardInv, SheetsInv
<1> DEFINE r == sheet[i]
<1>3. r \in [team : Crews, estimate : Guesses \union {None}, cycle : Sprints \union {None}]
  BY <1>1
<1> HIDE DEF r
<1>4. \A e \in Guesses \union {None} :
        /\ [r EXCEPT !.estimate = e] \in Founding!SheetRow /\ [r EXCEPT !.estimate = e].estimate = e
        /\ [r EXCEPT !.estimate = e].team = r.team /\ [r EXCEPT !.estimate = e].cycle = r.cycle
  BY <1>3 DEF Founding!SheetRow
<1>5. \A t \in Crews :
        /\ [r EXCEPT !.team = t] \in Founding!SheetRow /\ [r EXCEPT !.team = t].estimate = r.estimate
        /\ [r EXCEPT !.team = t].team = t /\ [r EXCEPT !.team = t].cycle = r.cycle
  BY <1>3 DEF Founding!SheetRow
<1>6. \A c \in Sprints \union {None} :
        /\ [r EXCEPT !.cycle = c] \in Founding!SheetRow /\ [r EXCEPT !.cycle = c].estimate = r.estimate
        /\ [r EXCEPT !.cycle = c].team = r.team /\ [r EXCEPT !.cycle = c].cycle = c
  BY <1>3 DEF Founding!SheetRow
<1>7. sheet[i].team \in Crews
  BY <1>3 DEF r
<1> QED BY <1>1, <1>2, <1>4, <1>5, <1>6, <1>7 DEF r

\* A request that ends is held by nobody.
LEMMA SizingMoves ==
  ASSUME BoardInv, NEW w, sizing' = [sizing EXCEPT ![w] = None]
  PROVE  sizing' = [v \in Founders |-> sizing'[v]] /\ \A v \in Founders : sizing'[v] # None => sizing'[v] = sizing[v]
BY DEF BoardInv, SizingInv

\* What the tables beside the issues are.
LEMMA SizedRest == BoardInv => /\ sizing = [w \in Founders |-> sizing[w]] /\ unfit \subseteq Sized
                               /\ strokes \in 0..MaxStrokes /\ (Founding!Stroke => strokes' \in 0..MaxStrokes)
BY BoardConstants DEF BoardInv, SizingInv, Founding!BoardTypeOK, Founding!Stroke

\* A request writes the estimate that it checked against the scale it read.
LEMMA SizesKeeps ==
  ASSUME BoardInv, NEW w \in Founders, Founding!Insert(w) \/ Founding!Update(w) PROVE BoardInv'
<1> DEFINE z == sizing[w]
           i == z.issue
<1>1. /\ z # None /\ i \in Sized /\ z.team \in Crews /\ z.estimate \in Guesses \union {None} /\ Founding!Seen(z.team)
      /\ (~z.new => sheet[i] # None) /\ (z.estimate # None => Founding!is_valid_estimate(z.scale, z.estimate))
  BY DEF Founding!Insert, Founding!Update, BoardInv, Founding!BoardTypeOK, SizingInv
<1>2. ASSUME NEW r \in Founding!SheetRow, sheet' = [sheet EXCEPT ![i] = r], Founding!Sizes(w, i, r.team), UNCHANGED <<crew, sprint>>,
             Founding!Seen(r.team), r.cycle # None => sprint[r.cycle] # None /\ sprint[r.cycle].team = r.team, r.estimate = z.estimate
      PROVE  BoardInv'
  <2>1. /\ sizing' = [sizing EXCEPT ![w] = None] /\ strokes' = strokes
        /\ unfit' = IF z.estimate = None \/ (z.team = r.team /\ z.scale = crew[r.team].scale) THEN unfit \ {i} ELSE unfit \union {i}
    BY <1>2 DEF Founding!Sizes
  <2>2. unfit' \subseteq Sized /\ (\A j \in Sized \ unfit' : j # i => j \notin unfit) /\ strokes' \in 0..MaxStrokes
    BY <1>1, <2>1, SizedRest
  <2>3. i \notin unfit' /\ r.estimate # None /\ crew[r.team].scale = "tshirt" => r.estimate \in 1..Founding!TSHIRT_LABELS
    BY <1>1, <1>2, <2>1 DEF Founding!is_valid_estimate
  <2>4. sizing' = [v \in Founders |-> sizing'[v]] /\ \A v \in Founders : sizing'[v] # None => sizing'[v] = sizing[v]
    BY <2>1, SizingMoves
  <2> HIDE DEF z
  <2> QED BY <1>1, <1>2, <2>2, <2>3, <2>4, SheetsMove
<1>3. CASE Founding!Insert(w)
  <2> DEFINE r == [team |-> z.team, estimate |-> z.estimate, cycle |-> None]
  <2>1. r \in Founding!SheetRow
    BY <1>1 DEF Founding!SheetRow
  <2>2. sheet' = [sheet EXCEPT ![i] = r] /\ Founding!Sizes(w, i, r.team) /\ UNCHANGED <<crew, sprint>>
    BY <1>3 DEF Founding!Insert, Founding!Sizes
  <2>3. Founding!Seen(r.team) /\ r.cycle = None /\ r.estimate = z.estimate
    BY <1>1
  <2> HIDE DEF r, z
  <2> QED BY <1>2, <2>1, <2>2, <2>3
<1>4. CASE Founding!Update(w)
  <2> DEFINE r == [sheet[i] EXCEPT !.estimate = z.estimate]
  <2>0. sheet[i] # None
    BY <1>1, <1>4 DEF Founding!Update
  <2>1. r \in Founding!SheetRow /\ r.team = sheet[i].team /\ r.estimate = z.estimate /\ r.cycle = sheet[i].cycle
    BY <1>1, <2>0, SheetRows
  <2>2. sheet' = [sheet EXCEPT ![i] = r] /\ Founding!Sizes(w, i, sheet[i].team) /\ UNCHANGED <<crew, sprint>>
    BY <1>4 DEF Founding!Update, Founding!Sizes
  <2>3. Founding!Seen(r.team) /\ (r.cycle # None => sprint[r.cycle] # None /\ sprint[r.cycle].team = r.team)
    BY <1>1, <2>0, <2>1, SheetRows
  <2>4. Founding!Sizes(w, i, r.team)
    BY <2>1, <2>2
  <2> HIDE DEF r, z
  <2> QED BY <1>2, <2>1, <2>2, <2>3, <2>4
<1> QED BY <1>3, <1>4

\* A bulk edit writes an estimate unchecked, which may be unfit.
LEMMA BulkKeeps ==
  ASSUME BoardInv, NEW i \in Sized, NEW e \in Guesses \union {None}, Founding!Bulk(i, e) PROVE BoardInv'
<1> DEFINE r == [sheet[i] EXCEPT !.estimate = e]
<1>1. /\ sheet[i] # None /\ sheet' = [sheet EXCEPT ![i] = r] /\ UNCHANGED <<crew, sprint>> /\ sizing' = sizing /\ Founding!Stroke
      /\ unfit' = IF e = None THEN unfit \ {i} ELSE unfit \union {i}
  BY DEF Founding!Bulk
<1>2. r \in Founding!SheetRow /\ r.team = sheet[i].team /\ r.estimate = e /\ r.cycle = sheet[i].cycle
  BY <1>1, SheetRows
<1>3. Founding!Seen(r.team) /\ (r.cycle # None => sprint[r.cycle] # None /\ sprint[r.cycle].team = r.team)
  BY <1>1, <1>2, SheetRows
<1>4. /\ unfit' \subseteq Sized /\ (\A j \in Sized \ unfit' : j # i => j \notin unfit) /\ strokes' \in 0..MaxStrokes
      /\ sizing' = [v \in Founders |-> sizing'[v]] /\ \A v \in Founders : sizing'[v] # None => sizing'[v] = sizing[v]
  BY <1>1, SizedRest
<1>5. i \notin unfit' => r.estimate = None
  BY <1>1, <1>2
<1> HIDE DEF r
<1> QED BY <1>1, <1>2, <1>3, <1>4, <1>5, SheetsMove

\* An issue that is in no cycle changes teams.
LEMMA MovingKeeps ==
  ASSUME BoardInv, NEW i \in Sized, NEW t \in Crews, Founding!change_team(i, t) PROVE BoardInv'
<1> DEFINE r == [sheet[i] EXCEPT !.team = t]
<1>1. /\ sheet[i] # None /\ sheet' = [sheet EXCEPT ![i] = r] /\ UNCHANGED <<crew, sprint>> /\ sizing' = sizing /\ Founding!Stroke
      /\ unfit' = unfit \union {i} /\ Founding!Seen(t) /\ sheet[i].cycle = None
  BY DEF Founding!change_team
<1>2. r \in Founding!SheetRow /\ r.team = t /\ r.cycle = None
  BY <1>1, SheetRows
<1>3. /\ unfit' \subseteq Sized /\ (\A j \in Sized \ unfit' : j # i => j \notin unfit) /\ strokes' \in 0..MaxStrokes
      /\ sizing' = [v \in Founders |-> sizing'[v]] /\ \A v \in Founders : sizing'[v] # None => sizing'[v] = sizing[v]
      /\ i \in unfit'
  BY <1>1, SizedRest
<1> HIDE DEF r
<1> QED BY <1>1, <1>2, <1>3, SheetsMove

\* An issue is put in a cycle of its team, or in none.
LEMMA CyclingKeeps ==
  ASSUME BoardInv, NEW i \in Sized, NEW c \in Sprints \union {None}, Founding!set_cycle(i, c) PROVE BoardInv'
<1> DEFINE r == [sheet[i] EXCEPT !.cycle = c]
<1>1. /\ sheet[i] # None /\ sheet' = [sheet EXCEPT ![i] = r] /\ UNCHANGED <<crew, sprint>> /\ sizing' = sizing /\ Founding!Stroke
      /\ unfit' = unfit /\ (c # None => sprint[c] # None /\ sprint[c].team = sheet[i].team)
  BY DEF Founding!set_cycle
<1>2. r \in Founding!SheetRow /\ r.team = sheet[i].team /\ r.estimate = sheet[i].estimate /\ r.cycle = c
  BY <1>1, SheetRows
<1>3. Founding!Seen(r.team)
  BY <1>1, <1>2, SheetRows
<1>4. /\ unfit' \subseteq Sized /\ (\A j \in Sized \ unfit' : j # i => j \notin unfit) /\ strokes' \in 0..MaxStrokes
      /\ sizing' = [v \in Founders |-> sizing'[v]] /\ \A v \in Founders : sizing'[v] # None => sizing'[v] = sizing[v]
  BY <1>1, SizedRest
<1>5. i \notin unfit' /\ r.estimate # None /\ crew[r.team].scale = "tshirt" => r.estimate \in 1..Founding!TSHIRT_LABELS
  BY <1>1, <1>2 DEF BoardInv, Founding!EstimatesFit
<1>6. r.cycle # None => sprint[r.cycle] # None /\ sprint[r.cycle].team = r.team
  BY <1>1, <1>2
<1> HIDE DEF r
<1> QED BY <1>1, <1>2, <1>3, <1>4, <1>5, <1>6, SheetsMove

\* A request reads the scale of the team it is to estimate for.
LEMMA SizeReadKeeps ==
  ASSUME BoardInv, NEW w \in Founders, NEW i \in Sized, NEW t \in Crews, NEW e \in Guesses \union {None}, NEW new \in BOOLEAN,
         Founding!Seen(t), ~new => sheet[i] # None, Founding!Read(w, i, t, e, new)
  PROVE  BoardInv'
<1> DEFINE scale == IF e = None \/ ~Founding!Seen(t) THEN None ELSE crew[t].scale
           z == [issue |-> i, team |-> t, scale |-> scale, estimate |-> e, new |-> new]
<1>1. /\ scale # None => Founding!is_valid_estimate(scale, e)
      /\ sizing' = [sizing EXCEPT ![w] = z] /\ UNCHANGED <<crew, sprint, sheet, unfit, strokes>>
  BY DEF Founding!Read
<1>2. crew[t].scale \in Founding!Scales
  BY CrewRows DEF Founding!Seen
<1>3. scale \in Founding!Scales \union {None} /\ (e # None => Founding!is_valid_estimate(scale, e))
  BY <1>1, <1>2, BoardConstants
<1>4. z.issue = i /\ z.team = t /\ z.scale = scale /\ z.estimate = e /\ z.new = new
  OBVIOUS
<1>5. sizing' = [v \in Founders |-> sizing'[v]] /\ sizing'[w] = z /\ \A v \in Founders \ {w} : sizing'[v] = sizing[v]
  BY <1>1 DEF BoardInv, SizingInv
<1> HIDE DEF z, scale
<1>6. Founding!BoardTypeOK'
  <2>1. \A v \in Founders : sizing'[v] # None =>
          /\ sizing'[v].issue \in Sized /\ sizing'[v].team \in Crews \union {None} /\ sizing'[v].scale \in Founding!Scales \union {None}
          /\ sizing'[v].estimate \in Guesses \union {None} /\ sizing'[v].new \in BOOLEAN
    BY <1>3, <1>4, <1>5 DEF BoardInv, Founding!BoardTypeOK
  <2> QED BY <1>1, <2>1 DEF BoardInv, Founding!BoardTypeOK
<1>7. Founding!BoardsAreWhole' /\ Founding!EstimatesFit'
  BY <1>1 DEF BoardInv, Founding!BoardsAreWhole, Founding!EstimatesFit, Founding!Seen
<1>8. SprintsInv' /\ SheetsInv'
  BY <1>1 DEF BoardInv, SprintsInv, SheetsInv, Founding!Seen
<1>9. SizingInv'
  BY <1>1, <1>3, <1>4, <1>5 DEF BoardInv, SizingInv, Founding!Seen
<1> QED BY <1>6, <1>7, <1>8, <1>9 DEF BoardInv

\* A cycle's row is written where no other of the team's is in its way.
LEMMA SprintsMove ==
  ASSUME BoardInv, NEW c \in Sprints, NEW r \in Founding!SprintRow, sprint' = [sprint EXCEPT ![c] = r],
         UNCHANGED <<crew, sheet, sizing, unfit>>, strokes' \in 0..MaxStrokes,
         Founding!Apart(c, r.team, r.number, r.span), sprint[c] # None => r.team = sprint[c].team
  PROVE  BoardInv'
<1>1. sprint \in [Sprints -> Founding!SprintRow \union {None}]
  BY DEF BoardInv, Founding!BoardTypeOK
<1>2. /\ sprint' \in [Sprints -> Founding!SprintRow \union {None}] /\ sprint'[c] = r /\ r # None
      /\ \A d \in Sprints \ {c} : sprint'[d] = sprint[d]
  BY <1>1, BoardConstants
<1>3. Founding!BoardTypeOK'
  BY <1>2 DEF BoardInv, Founding!BoardTypeOK
<1>4. Founding!BoardsAreWhole' /\ Founding!EstimatesFit'
  BY DEF BoardInv, Founding!BoardsAreWhole, Founding!EstimatesFit, Founding!Seen
<1>5. \A d \in Sprints \ {c} : sprint[d] # None /\ sprint[d].team = r.team =>
        /\ sprint[d].number # r.number /\ ~Founding!Overlap(sprint[d].span, r.span) /\ ~Founding!Overlap(r.span, sprint[d].span)
  BY DEF Founding!Apart, Founding!Overlap
<1>6. SprintsInv'
  BY <1>2, <1>5 DEF BoardInv, SprintsInv, Founding!Overlap
<1>7. SheetsInv'
  <2>1. \A j \in Sized : sheet[j] # None => sheet[j].cycle \in Sprints \union {None}
    BY DEF BoardInv, Founding!BoardTypeOK, Founding!SheetRow
  <2> QED BY <1>2, <2>1 DEF BoardInv, SheetsInv, Founding!Seen
<1>8. SizingInv'
  BY DEF BoardInv, SizingInv, Founding!Seen
<1> QED BY <1>3, <1>4, <1>6, <1>7, <1>8 DEF BoardInv

\* A cycle is created or rescheduled apart from the other cycles of its team.
LEMMA CyclesKeep ==
  ASSUME BoardInv, NEW c \in Sprints, NEW n \in Numerals, NEW s \in Founding!Spans,
         Founding!update_cycle(c, n, s) \/ \E t \in Crews : Founding!create_cycle(c, t, n, s)
  PROVE  BoardInv'
<1>1. ASSUME NEW t \in Crews, Founding!create_cycle(c, t, n, s) PROVE BoardInv'
  <2> DEFINE r == [team |-> t, number |-> n, span |-> s]
  <2>1. r \in Founding!SprintRow /\ r.team = t /\ r.number = n /\ r.span = s
    BY DEF Founding!SprintRow
  <2>2. /\ sprint[c] = None /\ Founding!Apart(c, t, n, s) /\ Founding!Stroke /\ sprint' = [sprint EXCEPT ![c] = r]
        /\ UNCHANGED <<crew, sheet, sizing, unfit>>
    BY <1>1 DEF Founding!create_cycle
  <2> HIDE DEF r
  <2> QED BY <2>1, <2>2, SizedRest, SprintsMove
<1>2. ASSUME Founding!update_cycle(c, n, s) PROVE BoardInv'
  <2> DEFINE q == sprint[c]
             r == [q EXCEPT !.number = n, !.span = s]
  <2>1. /\ q # None /\ Founding!Apart(c, q.team, n, s) /\ Founding!Stroke /\ sprint' = [sprint EXCEPT ![c] = r]
        /\ UNCHANGED <<crew, sheet, sizing, unfit>>
    BY <1>2 DEF Founding!update_cycle, BoardInv, Founding!BoardTypeOK
  <2>2. q \in [team : Crews, number : Numerals, span : Founding!Spans]
    BY <2>1 DEF BoardInv, Founding!BoardTypeOK, Founding!SprintRow
  <2>3. r \in Founding!SprintRow /\ r.team = q.team /\ r.number = n /\ r.span = s
    <3> HIDE DEF q
    <3> QED BY <2>2 DEF Founding!SprintRow
  <2>4. Founding!Apart(c, r.team, r.number, r.span) /\ (sprint[c] # None => r.team = sprint[c].team)
    BY <2>1, <2>3
  <2> HIDE DEF r, q
  <2> QED BY <2>1, <2>3, <2>4, SizedRest, SprintsMove
<1> QED BY <1>1, <1>2

\* A cycle is deleted, and its issues are in none.
LEMMA CycleGoes == ASSUME BoardInv, NEW c \in Sprints, Founding!delete_cycle(c) PROVE BoardInv'
<1>1. /\ sprint' = [sprint EXCEPT ![c] = None] /\ UNCHANGED <<crew, sizing, unfit>> /\ Founding!Stroke
      /\ sheet' = [i \in Sized |-> IF sheet[i] # None /\ sheet[i].cycle = c THEN [sheet[i] EXCEPT !.cycle = None] ELSE sheet[i]]
  BY DEF Founding!delete_cycle
<1>2. sprint \in [Sprints -> Founding!SprintRow \union {None}] /\ sheet \in [Sized -> Founding!SheetRow \union {None}]
  BY DEF BoardInv, Founding!BoardTypeOK
<1>3. sprint' \in [Sprints -> Founding!SprintRow \union {None}] /\ sprint'[c] = None /\ \A d \in Sprints \ {c} : sprint'[d] = sprint[d]
  BY <1>1, <1>2
<1>4. ASSUME NEW i \in Sized
      PROVE  /\ sheet[i] = None => sheet'[i] = None
             /\ sheet[i] # None => sheet'[i] \in Founding!SheetRow /\ sheet'[i] # None /\ sheet'[i].team = sheet[i].team
                                    /\ sheet'[i].estimate = sheet[i].estimate /\ sheet'[i].cycle # c
                                    /\ (sheet'[i].cycle = None \/ sheet'[i].cycle = sheet[i].cycle)
  <2>1. CASE sheet[i] # None /\ sheet[i].cycle = c
    <3>1. sheet'[i] = [sheet[i] EXCEPT !.cycle = None]
      BY <1>1, <2>1
    <3>2. sheet'[i] \in Founding!SheetRow /\ sheet'[i].team = sheet[i].team /\ sheet'[i].estimate = sheet[i].estimate /\ sheet'[i].cycle = None
      BY <2>1, <3>1, SheetRows
    <3> QED BY <2>1, <3>2, BoardConstants
  <2>2. CASE ~(sheet[i] # None /\ sheet[i].cycle = c)
    <3>1. sheet'[i] = sheet[i]
      BY <1>1, <2>2
    <3> QED BY <1>2, <2>2, <3>1, BoardConstants
  <2> QED BY <2>1, <2>2
<1>5. sheet' \in [Sized -> Founding!SheetRow \union {None}]
  <2>1. \A i \in Sized : sheet'[i] \in Founding!SheetRow \union {None}
    BY <1>4
  <2>2. sheet' = [i \in Sized |-> sheet'[i]]
    BY <1>1
  <2> QED BY <2>1, <2>2
<1>6. Founding!BoardTypeOK'
  BY <1>1, <1>3, <1>5, SizedRest DEF BoardInv, Founding!BoardTypeOK
<1>7. Founding!BoardsAreWhole'
  BY <1>1 DEF BoardInv, Founding!BoardsAreWhole, Founding!Seen
<1>8. Founding!EstimatesFit'
  BY <1>1, <1>4 DEF BoardInv, Founding!EstimatesFit, Founding!TSHIRT_LABELS
<1>9. SprintsInv'
  BY <1>3 DEF BoardInv, SprintsInv
<1>10. SheetsInv'
  <2>1. \A i \in Sized : sheet[i] # None => sheet[i].cycle \in Sprints \union {None}
    BY <1>2 DEF Founding!SheetRow
  <2> QED BY <1>1, <1>3, <1>4, <2>1 DEF BoardInv, SheetsInv, Founding!Seen
<1>11. SizingInv'
  <2>1. \A w \in Founders : sizing[w] # None => sizing[w].issue \in Sized
    BY DEF BoardInv, Founding!BoardTypeOK
  <2> QED BY <1>1, <1>4, <2>1 DEF BoardInv, SizingInv, Founding!Seen
<1> QED BY <1>6, <1>7, <1>8, <1>9, <1>10, <1>11 DEF BoardInv

\* Every step on teams, cycles and estimates keeps the invariant.
LEMMA BoardStep == BoardInv /\ [Founding!BoardNext]_boardVars => BoardInv'
<1> SUFFICES ASSUME BoardInv, [Founding!BoardNext]_boardVars PROVE BoardInv'
  OBVIOUS
<1>1. ASSUME NEW w \in Founders, NEW i \in Sized, NEW e \in Guesses \union {None}, Founding!find_estimate_scale(w, i, e) PROVE BoardInv'
  <2>1. sheet[i] # None /\ Founding!Read(w, i, sheet[i].team, e, FALSE)
    BY <1>1 DEF Founding!find_estimate_scale
  <2>2. sheet[i].team \in Crews /\ Founding!Seen(sheet[i].team)
    BY <2>1, SheetRows
  <2> QED BY <2>1, <2>2, SizeReadKeeps
<1>2. ASSUME NEW w \in Founders, NEW i \in Sized, NEW e \in Guesses \union {None}, NEW t \in Crews,
             Founding!_check_estimate_scale(w, i, t, e)
      PROVE  BoardInv'
  BY <1>2, SizeReadKeeps DEF Founding!_check_estimate_scale
<1>3. CASE UNCHANGED boardVars
  BY <1>3 DEF boardVars, BoardInv, Founding!BoardTypeOK, Founding!BoardsAreWhole, Founding!EstimatesFit, SprintsInv, SheetsInv, SizingInv,
     Founding!Seen
<1>4. ASSUME NEW w \in Founders,
             \/ \E t \in Crews : Founding!create(w, t)
             \/ Founding!seed_default_workflow_states(w) \/ Founding!Commit(w) \/ Founding!Rollback(w)
             \/ Founding!Insert(w) \/ Founding!Update(w)
      PROVE  BoardInv'
  BY <1>4, FoundingKeeps, SizesKeeps
<1>5. ASSUME NEW i \in Sized,
             \/ \E e \in Guesses \union {None} : Founding!Bulk(i, e)
             \/ \E t \in Crews : Founding!change_team(i, t)
             \/ \E c \in Sprints \union {None} : Founding!set_cycle(i, c)
      PROVE  BoardInv'
  BY <1>5, BulkKeeps, MovingKeeps, CyclingKeeps
<1>6. ASSUME NEW c \in Sprints,
             \/ Founding!delete_cycle(c)
             \/ \E n \in Numerals, s \in Founding!Spans : Founding!update_cycle(c, n, s) \/ \E t \in Crews : Founding!create_cycle(c, t, n, s)
      PROVE  BoardInv'
  BY <1>6, CycleGoes, CyclesKeep
<1> QED BY <1>1, <1>2, <1>3, <1>4, <1>5, <1>6, RescalingKeeps DEF Founding!BoardNext

-----------------------------------------------------------------------------
(* Projects and their milestones.                                           *)

\* A finite table has a greatest position.
LEMMA FiniteMaximum ==
  ASSUME NEW S \in SUBSET Nat, IsFiniteSet(S), S # {}
  PROVE  \E x \in S : \A y \in S : y <= x
<1> DEFINE T == {U \in SUBSET S : U # {} /\ ~\E x \in U : \A y \in U : y <= x}
<1> SUFFICES ASSUME T # {} PROVE FALSE
  OBVIOUS
<1>1. T \subseteq FiniteSubsetsOf(S)
  BY FS_Subset DEF FiniteSubsetsOf
<1> HIDE DEF T
<1>2. PICK U \in T : \A V \in T : ~(<<V, U>> \in StrictSubsetOrdering(S))
  BY <1>1, WFMin, FS_StrictSubsetOrderingWellFounded
<1> USE DEF T
<1>3. PICK u \in U : TRUE
  OBVIOUS
<1>4. U \ {u} # {}
  OBVIOUS
<1>5. U \ {u} \notin T
  BY <1>2 DEF StrictSubsetOrdering
<1>6. PICK x \in U \ {u} : \A y \in U \ {u} : y <= x
  BY <1>4, <1>5
<1> QED BY <1>6

-----------------------------------------------------------------------------
\* What a milestone row and a transaction that places one hold.
PlanRow == [project : Plans, position : Nat]
PlanTx ==
  [kind : {"append"}, milestone : Milestones, project : Plans, position : Nat]
  \union [kind : {"delete"}, issues : SUBSET Placeable, milestone : Milestones \union {None},
          project : Plans \union {None}, swept : SUBSET Milestones]

\* An append under way names a project that is there and a milestone that is
\* not; what stands at its position, or is about to, it overlaps.
AppendsThere ==
  \A c \in Planners : Placing!Appending(c) => planner[c].project \in plans /\ ~Placing!There(planner[c].milestone)
AppendsApart ==
  \A c, d \in Planners : c # d /\ Placing!Appending(c) /\ Placing!Appending(d) =>
    /\ planner[d].milestone # planner[c].milestone
    /\ planner[d].project = planner[c].project => {planner[c].milestone, planner[d].milestone} \in together
AppendsAfter ==
  \A c \in Planners, m \in Milestones \ shifted :
    Placing!Appending(c) /\ Placing!There(m) /\ milestone[m].project = planner[c].project
      /\ milestone[m].position = planner[c].position => {m, planner[c].milestone} \in together
AppendsInv == AppendsThere /\ AppendsApart /\ AppendsAfter

\* A deletion is of a milestone or of a project.
EndingsInv ==
  \A c \in Planners : Placing!Ending(c) /\ planner[c].milestone # None => planner[c].project = None

\* The inductive invariant of the plans.
PlanInv ==
  /\ Placing!PlanTypeOK
  /\ milestone \in [Milestones -> PlanRow \union {None}] /\ planner \in [Planners -> PlanTx \union {None}]
  /\ AppendsInv /\ EndingsInv
  /\ Placing!PlacesAreThere /\ Placing!MilestonesAreAppended

\* What the plans assume of their constants.
LEMMA PlanConstants == Placing!LegalPlanConstants
BY LegalConstants

\* There are no milestones at first, and nobody appends one.
LEMMA PlanStart == Placing!PlanInit => PlanInv
BY PlanConstants DEF PlanInv, Placing!PlanInit, Placing!PlanTypeOK, AppendsInv, AppendsThere, AppendsApart, AppendsAfter, EndingsInv, Placing!PlacesAreThere,
   Placing!MilestonesAreAppended, Placing!Appending, Placing!Ending, Placing!Idle, Placing!There, Placing!Nowhere,
   Placing!LegalPlanConstants

\* The position an append takes is past every milestone of the project.
LEMMA NextPositionIsLast ==
  ASSUME PlanInv, NEW p
  PROVE  /\ Placing!NextPosition(p) \in Nat
         /\ \A m \in Placing!Of(p) : milestone[m].position < Placing!NextPosition(p)
<1> DEFINE M == Placing!Of(p)
           T == {milestone[m].position : m \in M}
           f == [m \in M |-> milestone[m].position]
<1>1. IsFiniteSet(M) /\ \A m \in M : milestone[m].position \in Nat
  <2>1. M \in SUBSET Milestones /\ IsFiniteSet(Milestones)
    BY PlanConstants DEF Placing!Of, Placing!LegalPlanConstants, Placing!IsFiniteSet, IsFiniteSet
  <2>2. \A m \in M : milestone[m].position \in Nat
    BY DEF Placing!Of, PlanInv, Placing!PlanTypeOK
  <2> QED BY <2>1, <2>2, FS_Subset
<1>2. CASE M = {}
  BY <1>2 DEF Placing!NextPosition
<1>3. CASE M # {}
  <2>1. f \in Surjection(M, T)
    BY DEF Surjection
  <2>2. IsFiniteSet(T) /\ T # {} /\ T \in SUBSET Nat
    BY <2>1, <1>1, <1>3, FS_Surjection
  <2>3. \E n \in T : \A k \in T : k <= n
    BY <2>2, FiniteMaximum
  <2>4. \E n \in T : \A m \in M : milestone[m].position <= n
    BY <2>3
  <2> DEFINE top == CHOOSE n \in T : \A m \in M : milestone[m].position <= n
  <2>5. top \in T /\ \A m \in M : milestone[m].position <= top
    BY <2>4
  <2>6. Placing!NextPosition(p) = 1 + top
    BY <1>3 DEF Placing!NextPosition
  <2>7. top \in Nat
    BY <2>2, <2>5
  <2> HIDE DEF top
  <2> QED BY <2>7, <2>5, <2>6, <1>1
<1> QED BY <1>2, <1>3

\* Appends, moves, deletions and the placing of issues keep the invariant.
LEMMA PlanStep == PlanInv /\ [Placing!PlanNext]_planVars => PlanInv'
<1> SUFFICES ASSUME PlanInv, [Placing!PlanNext]_planVars PROVE PlanInv'
  OBVIOUS
<1> DEFINE Typed == /\ Placing!PlanTypeOK
                    /\ milestone \in [Milestones -> PlanRow \union {None}]
                    /\ planner \in [Planners -> PlanTx \union {None}]
           Kept == Placing!PlacesAreThere /\ Placing!MilestonesAreAppended
<1>a. Typed /\ AppendsInv /\ EndingsInv /\ Kept
  BY DEF PlanInv
<1>b. Typed' /\ AppendsInv' /\ EndingsInv' /\ Kept' => PlanInv'
  BY DEF PlanInv
<1>c. None \notin Plans /\ None \notin Milestones /\ None \notin PlanRow /\ Wanted \subseteq Nat
  BY PlanConstants DEF Placing!LegalPlanConstants, PlanRow
<1> USE DEF Placing!Appending, Placing!Ending, Placing!Idle, Placing!There
<1> HIDE DEF Typed, Kept
<1>1. ASSUME NEW p \in Plans, Placing!create(p) PROVE PlanInv'
  BY <1>1, <1>a, <1>b DEF Placing!create, Typed, Kept, Placing!PlanTypeOK, AppendsInv, AppendsThere, AppendsApart, AppendsAfter, EndingsInv, Placing!PlacesAreThere,
     Placing!MilestonesAreAppended, Placing!Of
<1>2. ASSUME NEW m \in Milestones, NEW n \in Wanted, Placing!update_milestone(m, n) PROVE PlanInv'
  <2>1. milestone[m] # None /\ milestone[m] \in PlanRow /\ n \in Nat
    BY <1>2, <1>a, <1>c DEF Placing!update_milestone, Typed
  <2>2. [milestone[m] EXCEPT !.position = n] = [project |-> milestone[m].project, position |-> n]
    BY <2>1 DEF PlanRow
  <2>3. /\ milestone' = [milestone EXCEPT ![m] = [project |-> milestone[m].project, position |-> n]]
        /\ shifted' = shifted \union {m} /\ UNCHANGED <<plans, place, planner, together>>
    BY <1>2, <2>2 DEF Placing!update_milestone
  <2>4. /\ \A l \in Milestones \ {m} : milestone'[l] = milestone[l]
        /\ milestone'[m] \in PlanRow /\ milestone'[m].project = milestone[m].project
    BY <2>1, <2>3, <1>a DEF Typed, PlanRow
  <2>5. Typed'
    BY <2>1, <2>3, <2>4, <1>a DEF Typed, Placing!PlanTypeOK, PlanRow
  <2>6. AppendsInv' /\ EndingsInv'
    BY <2>1, <2>3, <2>4, <1>a DEF AppendsInv, AppendsThere, AppendsApart, AppendsAfter, EndingsInv
  <2>7. Kept'
    BY <2>1, <2>3, <2>4, <1>a, <1>c DEF Kept, Placing!PlacesAreThere, Placing!MilestonesAreAppended, Placing!Of
  <2> QED BY <2>5, <2>6, <2>7, <1>b
<1>3. ASSUME NEW S, NEW p \in Plans \union {None}, NEW m \in Milestones \union {None}, Placing!Place(S, p, m) PROVE PlanInv'
  BY <1>3, <1>a, <1>b DEF Placing!Place, Placing!Fits, Typed, Kept, Placing!PlanTypeOK, AppendsInv, AppendsThere, AppendsApart, AppendsAfter, EndingsInv,
     Placing!PlacesAreThere, Placing!MilestonesAreAppended, Placing!Of
<1>4. ASSUME NEW c \in Planners, NEW m \in Milestones, NEW p \in Plans, Placing!create_milestone(c, m, p) PROVE PlanInv'
  <2> DEFINE a == [kind |-> "append", milestone |-> m, project |-> p, position |-> Placing!NextPosition(p)]
  <2>1. Placing!NextPosition(p) \in Nat /\ \A l \in Placing!Of(p) : milestone[l].position < Placing!NextPosition(p)
    BY NextPositionIsLast
  <2>2. /\ planner[c] = None /\ milestone[m] = None /\ p \in plans /\ planner' = [planner EXCEPT ![c] = a]
        /\ \A d \in Planners : Placing!Appending(d) => planner[d].milestone # m
        /\ together' = {S \in together : m \notin S} \union {{m, planner[d].milestone} : d \in {e \in Planners : Placing!Appending(e) /\ planner[e].project = p}}
        /\ UNCHANGED <<plans, milestone, place, shifted>>
    BY <1>4 DEF Placing!create_milestone
  <2>3. planner'[c] = a /\ \A d \in Planners \ {c} : planner'[d] = planner[d]
    BY <2>2, <1>a DEF Typed
  <2> HIDE DEF a
  <2>4. a \in PlanTx /\ a.kind = "append" /\ a.milestone = m /\ a.project = p /\ a.position = Placing!NextPosition(p)
    BY <2>1 DEF a, PlanTx
  <2>5. Typed'
    BY <2>1, <2>2, <2>3, <2>4, <1>a DEF Typed, Placing!PlanTypeOK
  <2>6. AppendsInv'
    <3>1. \A l \in Milestones : milestone[l] # None /\ milestone[l].project = p => milestone[l].position # a.position
      BY <2>1, <2>4, <1>a DEF Placing!Of, Typed, Placing!PlanTypeOK
    <3>2. \A d \in Planners : Placing!Appending(d) /\ planner[d].project = p => {m, planner[d].milestone} \in together'
      BY <2>2
    <3>3. \A k, l : {k, l} \in together /\ k # m /\ l # m => {k, l} \in together'
      BY <2>2
    <3>11. AppendsThere'
      BY <2>2, <2>3, <2>4, <3>1, <3>2, <3>3, <1>a DEF AppendsInv, AppendsThere
    <3>12. AppendsApart'
      BY <2>2, <2>3, <2>4, <3>1, <3>2, <3>3, <1>a DEF AppendsInv, AppendsApart
    <3>13. AppendsAfter'
      BY <2>2, <2>3, <2>4, <3>1, <3>2, <3>3, <1>a DEF AppendsInv, AppendsAfter
    <3> QED BY <3>11, <3>12, <3>13 DEF AppendsInv
  <2>7. EndingsInv'
    BY <2>2, <2>3, <2>4, <1>a DEF EndingsInv
  <2>8. Kept'
    BY <2>2, <1>a DEF Kept, Placing!PlacesAreThere, Placing!MilestonesAreAppended, Placing!Of
  <2> QED BY <2>5, <2>6, <2>7, <2>8, <1>b
<1>5. ASSUME NEW c \in Planners, NEW S \in SUBSET Placeable, NEW m \in Milestones \union {None}, NEW p \in Plans \union {None},
        m = None \/ p = None, Placing!Begin(c, S, m, p) PROVE PlanInv'
  <2> DEFINE a == [kind |-> "delete", issues |-> S, milestone |-> m, project |-> p, swept |-> {}]
  <2>1. planner'[c] = a /\ (\A d \in Planners \ {c} : planner'[d] = planner[d]) /\ planner' \in [Planners -> PlanTx \union {None}]
    BY <1>5, <1>a DEF Placing!Begin, Typed, PlanTx
  <2>2. UNCHANGED <<plans, milestone, place, together, shifted>>
    BY <1>5 DEF Placing!Begin
  <2>3. Typed'
    BY <2>1, <2>2, <1>a DEF Typed, Placing!PlanTypeOK
  <2>4. a.kind = "delete" /\ a.milestone = m /\ a.project = p
    OBVIOUS
  <2> HIDE DEF a
  <2>6. AppendsInv' /\ EndingsInv'
    <3>1. \A d \in Planners : Placing!Appending(d)' => Placing!Appending(d) /\ planner'[d] = planner[d]
      BY <2>1, <2>4
    <3>2. AppendsInv'
      BY <3>1, <2>2, <1>a DEF AppendsInv, AppendsThere, AppendsApart, AppendsAfter
    <3>3. EndingsInv'
      BY <1>5, <2>1, <2>4, <1>a DEF EndingsInv
    <3> QED BY <3>2, <3>3
  <2>5. Kept'
    BY <2>2, <1>a DEF Kept, Placing!PlacesAreThere, Placing!MilestonesAreAppended, Placing!Of
  <2> QED BY <2>3, <2>6, <2>5, <1>b
<1>6. ASSUME NEW c \in Planners, Placing!Append(c) PROVE PlanInv'
  <2> DEFINE m == planner[c].milestone
             entry == [project |-> planner[c].project, position |-> planner[c].position]
  <2>1. /\ planner[c] # None /\ planner[c].kind = "append" /\ milestone' = [milestone EXCEPT ![m] = entry]
        /\ planner' = [planner EXCEPT ![c] = None] /\ UNCHANGED <<plans, place, together, shifted>>
    BY <1>6 DEF Placing!Append
  <2>2. m \in Milestones /\ milestone[m] = None /\ entry \in PlanRow /\ planner[c].project \in plans
    BY <2>1, <1>a DEF AppendsInv, AppendsThere, AppendsApart, AppendsAfter, Typed, Placing!PlanTypeOK, PlanRow
  <2>3. milestone'[m] = entry /\ \A l \in Milestones \ {m} : milestone'[l] = milestone[l]
    BY <2>1, <2>2, <1>a DEF Typed
  <2>4. planner'[c] = None /\ \A d \in Planners \ {c} : planner'[d] = planner[d]
    BY <2>1, <1>a DEF Typed
  <2>5. \A d \in Planners \ {c} : Placing!Appending(d) =>
          /\ planner[d].milestone \in Milestones \ {m}
          /\ planner[d].project = planner[c].project => {m, planner[d].milestone} \in together
    BY <2>1, <1>a DEF AppendsInv, AppendsApart, Typed, Placing!PlanTypeOK
  <2>6. \A l \in Milestones \ shifted :
          milestone[l] # None /\ milestone[l].project = entry.project /\ milestone[l].position = entry.position => {l, m} \in together
    BY <2>1, <1>a DEF AppendsInv, AppendsThere, AppendsApart, AppendsAfter
  <2>7. entry.project = planner[c].project
    OBVIOUS
  <2> HIDE DEF entry, m
  <2>8. Typed'
    BY <2>1, <2>2, <2>3, <2>4, <2>7, <1>a DEF Typed, Placing!PlanTypeOK, PlanRow
  <2>9. AppendsInv' /\ EndingsInv'
    <3>11. AppendsThere'
      <4>1. \A d \in Planners : Placing!Appending(d)' => d # c /\ Placing!Appending(d) /\ planner'[d] = planner[d]
        BY <2>4
      <4>2. \A d \in Planners : Placing!Appending(d) => milestone[planner[d].milestone] = None /\ planner[d].project \in plans
        BY <1>a DEF AppendsInv, AppendsThere
      <4>3. plans' = plans
        BY <2>1
      <4>4. \A d \in Planners : Placing!Appending(d) /\ d # c => milestone'[planner[d].milestone] = None
        BY <4>2, <2>3, <2>5
      <4> QED BY <4>1, <4>2, <4>3, <4>4 DEF AppendsThere
    <3>12. AppendsApart'
      BY <2>1, <2>2, <2>3, <2>4, <2>5, <2>7, <1>a DEF AppendsInv, AppendsApart
    <3>13. AppendsAfter'
      BY <2>1, <2>2, <2>3, <2>4, <2>5, <2>7, <1>a DEF AppendsInv, AppendsAfter
    <3>14. EndingsInv'
      BY <2>1, <2>2, <2>3, <2>4, <2>5, <2>7, <1>a DEF EndingsInv
    <3> QED BY <3>11, <3>12, <3>13, <3>14 DEF AppendsInv
  <2>10. Placing!PlacesAreThere'
    BY <2>1, <2>2, <2>3, <1>a DEF Kept, Placing!PlacesAreThere, Placing!Of
  <2>11. Placing!MilestonesAreAppended'
    <3>1. \A k, l : {k, l} = {l, k}
      OBVIOUS
    <3> QED BY <2>1, <2>3, <2>6, <3>1, <1>a DEF Kept, Placing!MilestonesAreAppended
  <2> QED BY <2>8, <2>9, <2>10, <2>11, <1>b DEF Kept
<1>7. ASSUME NEW c \in Planners, Placing!Rollback(c) PROVE PlanInv'
  <2>1. /\ planner'[c] = None /\ \A d \in Planners \ {c} : planner'[d] = planner[d]
        /\ planner' \in [Planners -> PlanTx \union {None}] /\ UNCHANGED <<plans, milestone, place, together, shifted>>
    BY <1>7, <1>a DEF Placing!Rollback, Typed
  <2>2. Typed'
    BY <2>1, <1>a DEF Typed, Placing!PlanTypeOK
  <2>3. AppendsInv' /\ EndingsInv'
    <3>1. \A d \in Planners : planner'[d] = planner[d] \/ planner'[d] = None
      BY <2>1
    <3> QED BY <2>1, <3>1, <1>a DEF AppendsInv, AppendsThere, AppendsApart, AppendsAfter, EndingsInv
  <2>4. Kept'
    BY <2>1, <1>a DEF Kept, Placing!PlacesAreThere, Placing!MilestonesAreAppended, Placing!Of
  <2> QED BY <2>2, <2>3, <2>4, <1>b
<1>8. ASSUME NEW c \in Planners, Placing!delete_milestones_for_project(c) PROVE PlanInv'
  <2> DEFINE D == [kind : {"delete"}, issues : SUBSET Placeable, milestone : Milestones \union {None},
                   project : Plans \union {None}, swept : SUBSET Milestones]
             S == Placing!Of(planner[c].project)
  <2>1. planner[c] # None /\ planner[c].kind = "delete" /\ planner[c] \in D
    BY <1>8, <1>a DEF Placing!delete_milestones_for_project, Typed, PlanTx
  <2>2. planner' = [planner EXCEPT ![c].swept = S] /\ UNCHANGED <<plans, milestone, place, together, shifted>>
    BY <1>8 DEF Placing!delete_milestones_for_project
  <2>3. S \in SUBSET Milestones
    BY DEF Placing!Of
  <2> HIDE DEF S
  <2>4. /\ planner'[c] \in D /\ planner'[c].milestone = planner[c].milestone /\ planner'[c].project = planner[c].project
        /\ \A d \in Planners \ {c} : planner'[d] = planner[d]
        /\ planner' \in [Planners -> PlanTx \union {None}]
    BY <2>1, <2>2, <2>3, <1>a DEF Typed, PlanTx
  <2>5. Typed'
    BY <2>2, <2>4, <1>a DEF Typed, Placing!PlanTypeOK
  <2>6. AppendsInv' /\ EndingsInv'
    BY <2>1, <2>2, <2>4, <1>a DEF AppendsInv, AppendsThere, AppendsApart, AppendsAfter, EndingsInv
  <2>7. Kept'
    BY <2>2, <1>a DEF Kept, Placing!PlacesAreThere, Placing!MilestonesAreAppended, Placing!Of
  <2> QED BY <2>5, <2>6, <2>7, <1>b
<1>9. ASSUME NEW c \in Planners, NEW M \in SUBSET Milestones, Placing!Ending(c), Placing!Commit(c, M),
        \A m \in M : Placing!There(m), \A m \in M : Placing!Placed(m) \subseteq planner[c].issues,
        \A m \in Milestones \ M : Placing!There(m) => milestone[m].project # planner[c].project,
        Placing!Within(planner[c].project) \subseteq planner[c].issues \/ planner[c].project = None,
        \A d \in Planners : Placing!Appending(d) => planner[d].project # planner[c].project
      PROVE PlanInv'
  <2>1. /\ place' = [i \in Placeable |-> IF i \in planner[c].issues THEN Placing!Out(place[i], planner[c].project) ELSE place[i]]
        /\ milestone' = [m \in Milestones |-> IF m \in M THEN None ELSE milestone[m]]
        /\ plans' = plans \ {planner[c].project} /\ together' = {S \in together : S \intersect M = {}} /\ shifted' = shifted \ M
        /\ planner' = [planner EXCEPT ![c] = None]
    BY <1>9 DEF Placing!Commit
  <2>2. planner'[c] = None /\ \A d \in Planners \ {c} : planner'[d] = planner[d]
    BY <2>1, <1>a DEF Typed
  <2>3. \A i \in Placeable :
          /\ place'[i] \in [project : Plans \union {None}, milestone : Milestones \union {None}]
          /\ i \in planner[c].issues => place'[i].milestone = None /\ place'[i].project \in {place[i].project, None}
          /\ i \in planner[c].issues => place'[i].project # planner[c].project \/ place'[i].project = None
          /\ i \notin planner[c].issues => place'[i] = place[i]
    BY <2>1, <1>a DEF Placing!Out, Placing!Nowhere, Typed, Placing!PlanTypeOK
  <2>4. \A m \in Milestones : milestone'[m] # None => m \notin M /\ milestone'[m] = milestone[m]
    BY <2>1
  <2>5. Typed'
    BY <2>1, <2>2, <2>3, <2>4, <1>a, <1>9 DEF Typed, Placing!PlanTypeOK
  <2>6. AppendsInv'
    <3>1. \A d \in Planners : Placing!Appending(d) => planner[d].milestone \in Milestones \ M
      BY <1>9, <1>a DEF AppendsInv, AppendsThere, AppendsApart, AppendsAfter, Typed, Placing!PlanTypeOK
    <3>2. \A k, l \in Milestones \ M : {k, l} \in together => {k, l} \in together'
      BY <2>1
    <3>11. AppendsThere'
      BY <2>1, <2>2, <2>4, <3>1, <3>2, <1>a, <1>9 DEF AppendsInv, AppendsThere
    <3>12. AppendsApart'
      <4>1. \A d \in Planners : Placing!Appending(d)' => Placing!Appending(d) /\ planner'[d] = planner[d]
        BY <2>2
      <4> QED BY <4>1, <3>1, <3>2, <1>a DEF AppendsInv, AppendsApart
    <3>13. AppendsAfter'
      BY <2>1, <2>2, <2>4, <3>1, <3>2, <1>a, <1>9 DEF AppendsInv, AppendsAfter
    <3> QED BY <3>11, <3>12, <3>13 DEF AppendsInv
  <2>7. EndingsInv'
    BY <2>2, <1>a DEF EndingsInv
  <2>8. Placing!PlacesAreThere'
    <3>1. \A i \in Placeable : i \notin planner[c].issues => place[i].milestone \notin M /\ (place[i].project # None => place[i].project # planner[c].project)
      BY <1>9 DEF Placing!Placed, Placing!Within
    <3>2. \A i \in Placeable : place'[i].project # None => place'[i].project \in plans'
      BY <2>1, <2>3, <3>1, <1>a DEF Kept, Placing!PlacesAreThere
    <3>3. \A i \in Placeable : place'[i].milestone # None =>
            place'[i].milestone \in Milestones /\ milestone'[place'[i].milestone] # None
            /\ milestone'[place'[i].milestone].project = place'[i].project
      BY <2>1, <2>3, <3>1, <1>a DEF Kept, Placing!PlacesAreThere, Placing!Of
    <3> QED BY <3>2, <3>3 DEF Placing!PlacesAreThere, Placing!Of
  <2>9. Placing!MilestonesAreAppended'
    BY <2>1, <2>4, <1>a DEF Kept, Placing!MilestonesAreAppended
  <2> QED BY <2>5, <2>6, <2>7, <2>8, <2>9, <1>b DEF Kept
<1>10. CASE UNCHANGED planVars
  BY <1>10, <1>a, <1>b DEF planVars, Typed, Kept, Placing!PlanTypeOK, AppendsInv, AppendsThere, AppendsApart, AppendsAfter, EndingsInv, Placing!PlacesAreThere,
     Placing!MilestonesAreAppended, Placing!Of
<1>11. ASSUME NEW c \in Planners, Placing!delete_milestone(c) PROVE PlanInv'
  <2>1. planner[c].project = None /\ planner[c].milestone \in Milestones
    BY <1>11, <1>a DEF Placing!delete_milestone, EndingsInv, Placing!Ending, Typed, PlanTx
  <2>2. \A m \in Milestones : Placing!There(m) => milestone[m].project # None
    BY <1>a, <1>c DEF Typed, Placing!PlanTypeOK
  <2>3. \A d \in Planners : Placing!Appending(d) => planner[d].project # None
    BY <1>a, <1>c DEF AppendsInv, AppendsThere, AppendsApart, AppendsAfter, Typed, Placing!PlanTypeOK
  <2> QED BY <1>11, <1>9, <2>1, <2>2, <2>3 DEF Placing!delete_milestone, Placing!Deletable
<1>12. ASSUME NEW c \in Planners, Placing!delete(c) PROVE PlanInv'
  <2> DEFINE M == Placing!Of(planner[c].project)
  <2>1. \A m \in M : Placing!Placed(m) \subseteq Placing!Within(planner[c].project)
    BY <1>a, <1>c DEF Placing!Of, Placing!Placed, Placing!Within, Kept, Placing!PlacesAreThere
  <2>2. /\ M \in SUBSET Milestones /\ \A m \in M : Placing!There(m)
        /\ \A m \in Milestones \ M : Placing!There(m) => milestone[m].project # planner[c].project
    BY DEF Placing!Of
  <2>3. /\ Placing!Ending(c) /\ Placing!Commit(c, M) /\ Placing!Within(planner[c].project) \subseteq planner[c].issues
        /\ \A d \in Planners : Placing!Appending(d) => planner[d].project # planner[c].project
    BY <1>12 DEF Placing!delete
  <2> HIDE DEF M
  <2> QED BY <1>9, <2>1, <2>2, <2>3
<1>13. ASSUME NEW c \in Planners, NEW m \in Milestones, Placing!clear_milestone(c, m) PROVE PlanInv'
  BY <1>13, <1>5 DEF Placing!clear_milestone, Placing!Placed
<1>14. ASSUME NEW c \in Planners, NEW p \in Plans, Placing!clear_project(c, p) PROVE PlanInv'
  BY <1>14, <1>5 DEF Placing!clear_project, Placing!Within
<1> QED
  BY <1>1, <1>2, <1>3, <1>4, <1>6, <1>7, <1>8, <1>10, <1>11, <1>12, <1>13, <1>14
  DEF Placing!PlanNext, Placing!set_project, Placing!update_many

-----------------------------------------------------------------------------
(* The four of them, one to a behaviour.                                    *)

\* The invariant of whatever part moves.
AnnotationsInv ==
  /\ part = "labels" => LabelInv
  /\ part = "relations" => RelationInv
  /\ part = "boards" => BoardInv
  /\ part = "plans" => PlanInv

\* Every part begins in its invariant, and moves within it.
THEOREM AnnotationsInvHolds == Spec => []AnnotationsInv
<1>1. Init => AnnotationsInv
  BY LabelStart, RelationStart, BoardStart, PlanStart DEF Init, AnnotationsInv
<1>2. AnnotationsInv /\ [Next]_vars => AnnotationsInv'
  <2> SUFFICES ASSUME AnnotationsInv, [Next]_vars PROVE AnnotationsInv'
    OBVIOUS
  <2>1. part' = part
    BY DEF Next, vars
  <2>2. ASSUME part = "labels" PROVE LabelInv'
    <3>1. [Labelling!LabelNext]_labelVars
      BY <2>2 DEF Next, vars, labelVars
    <3> QED BY <2>2, <3>1, LabelStep DEF AnnotationsInv
  <2>3. ASSUME part = "relations" PROVE RelationInv'
    <3>1. [Relating!RelationNext]_relationVars
      BY <2>3 DEF Next, vars, relationVars
    <3> QED BY <2>3, <3>1, RelationStep DEF AnnotationsInv
  <2>4. ASSUME part = "boards" PROVE BoardInv'
    <3>1. [Founding!BoardNext]_boardVars
      BY <2>4 DEF Next, vars, boardVars
    <3> QED BY <2>4, <3>1, BoardStep DEF AnnotationsInv
  <2>5. ASSUME part = "plans" PROVE PlanInv'
    <3>1. [Placing!PlanNext]_planVars
      BY <2>5 DEF Next, vars, planVars
    <3> QED BY <2>5, <3>1, PlanStep DEF AnnotationsInv
  <2> QED BY <2>1, <2>2, <2>3, <2>4, <2>5 DEF AnnotationsInv
<1> QED BY <1>1, <1>2, PTL DEF Spec

\* No issue wears two labels of an exclusive group, and the cap is passed only by attaches
\* that overlap; relations read as they were named; cycles are of their team and apart, teams
\* have their boards and estimates fit; and milestones are appended, and issues stand at them.
THEOREM AnnotationsTheorem == Spec => []AnnotationsAreKept
<1>1. AnnotationsInv => AnnotationsAreKept
  BY LabelProperties, RelationProperties, BoardProperties DEF AnnotationsInv, AnnotationsAreKept, PlanInv
<1> QED BY <1>1, AnnotationsInvHolds, PTL

\* Every table of every part is well typed, whatever its constants.
THEOREM TypeCorrect == Spec => []TypeOK
<1>1. ASSUME AnnotationsInv, ConnectionsInv, ChangesInv PROVE TypeOK
  <2>1. /\ part = "issues" => Issues!IssueTypeOK
        /\ part = "accounts" => Entering!AccountTypeOK
        /\ part = "documents" => Editing!DocumentTypeOK
        /\ part = "pulls" => Pulls!PullTypeOK
        /\ part = "deletions" => Deleting!DeletionTypeOK
        /\ part = "templates" => Shaping!TemplateTypeOK
        /\ part = "releases" => Releasing!ReleaseTypeOK
        /\ part = "health" => Reporting!HealthTypeOK
    BY <1>1, IssueTypes, AccountProperties, PullProperties, DeletionProperties, TemplateProperties, ReleaseProperties
    DEF ConnectionsInv, ChangesInv, DocumentInv, HealthInv
  <2>2. /\ part = "installations" => Installing!InstallationTypeOK
        /\ part = "channels" => Refreshing!ChannelTypeOK
        /\ part = "inbox" => Hearing!InboxTypeOK
        /\ part = "views" => Viewing!ViewTypeOK
        /\ part = "handshakes" => Connecting!HandshakeTypeOK
        /\ part = "tracking" => Selecting!TrackingTypeOK
        /\ part = "holdings" => Holding!HoldingTypeOK
    BY <1>1 DEF ConnectionsInv, InstallationInv, ChannelInv, InboxInv, ViewInv, HandshakeInv, TablesAreTyped, TrackingInv, HoldingInv
  <2>3. /\ part = "labels" => Labelling!LabelTypeOK
        /\ part = "relations" => Relating!RelationTypeOK
        /\ part = "boards" => Founding!BoardTypeOK
        /\ part = "plans" => Placing!PlanTypeOK
    BY <1>1 DEF AnnotationsInv, LabelInv, RelationInv, BoardInv, PlanInv
  <2> QED BY <2>1, <2>2, <2>3 DEF TypeOK
<1> QED BY <1>1, AnnotationsInvHolds, ConnectionsInvHolds, ChangesInvHolds, PTL
=============================================================================
