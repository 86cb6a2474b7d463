------------------------- MODULE PolicyRulesProofs -------------------------
(***************************************************************************)
(* The rules of a pod scheduling policy, for any rules that are entered,   *)
(* any policy that is stored at first and any number of versions.          *)
(*                                                                         *)
(* The tree of a policy is read through its lists (At, Terms) and its table*)
(* through the number of times that it shows a rule (Copies). Adding a rule*)
(* is one copy more, taking one out is one less: so a save is the bag that *)
(* the dialog said.                                                        *)
(***************************************************************************)
EXTENDS PolicyRules, FiniteSetTheorems, FunctionTheorems, SequenceTheorems, TLAPS

-----------------------------------------------------------------------------
(* Levels. *)

(* What is found at a level after a value was put there. *)
LEMMA AtPut ==
    ASSUME NEW f, NEW k, NEW v
    PROVE  /\ At(Put(f, k, v), k) = v
           /\ \A x : x # k => At(Put(f, k, v), x) = At(f, x)
BY DEF At, Put

(* The same when a level that would be empty is left out. *)
LEMMA AtTrim ==
    ASSUME NEW f, NEW k, NEW v
    PROVE  /\ At(Trim(f, k, v), k) = v
           /\ \A x : x # k => At(Trim(f, k, v), x) = At(f, x)
<1>1. CASE v = <<>>
  BY <1>1 DEF At, Trim
<1>2. CASE v # <<>>
  BY <1>2 DEF At, Trim, Put
<1> QED
  BY <1>1, <1>2

(* The values of the levels that are left.                                   *)
LEMMA TidyTrim ==
    ASSUME NEW f, NEW k, NEW v, NEW x \in DOMAIN Trim(f, k, v)
    PROVE  IF x = k THEN v # <<>> /\ Trim(f, k, v)[x] = v
           ELSE x \in DOMAIN f /\ Trim(f, k, v)[x] = f[x]
<1>1. CASE v = <<>>
  BY <1>1 DEF Trim
<1>2. CASE v # <<>>
  BY <1>2 DEF Trim, Put
<1> QED
  BY <1>1, <1>2

(* Naturals have a least one. *)
LEMMA LeastExists ==
    ASSUME NEW I, I \subseteq Nat, I # {}
    PROVE  Min(I) \in I
<1>1. PICK x \in I : \A y \in I : ~(<<y, x>> \in OpToRel(<, Nat))
  BY NatLessThanWellFounded, WFMin
<1>2. \A y \in I : ~(y < x)
  BY <1>1 DEF OpToRel
<1>3. \A y \in I : x =< y
  BY <1>2
<1> QED
  BY <1>3 DEF Min

\* The list without the first term that is shown as the rule.
Removed(c, t, p, list, r) ==
    RemoveFirstMatch(list, LAMBDA term : ShownRule(c, t, p, term) = r)

(* A removal takes a term that is shown as the rule out of the list, or there *)
(* was none. *)
LEMMA RemoveMatch ==
    ASSUME NEW list, list \in Seq(Range(list)), NEW c, NEW t, NEW p, NEW r, NEW L,
           L = Removed(c, t, p, list, r)
    PROVE  \/ L = list /\ \A i \in 1 .. Len(list) : ShownRule(c, t, p, list[i]) # r
           \/ \E k \in 1 .. Len(list) :
                 ShownRule(c, t, p, list[k]) = r /\ L = RemoveAt(list, k)
<1> DEFINE I == {i \in 1 .. Len(list) : ShownRule(c, t, p, list[i]) = r}
<1>1. CASE I = {}
  BY <1>1 DEF Removed, RemoveFirstMatch, SelectInSeq
<1>2. CASE I # {}
  <2>1. L = RemoveAt(list, Min(I))
    BY <1>2 DEF Removed, RemoveFirstMatch, SelectInSeq
  <2>2. Min(I) \in I
    <3>1. I \subseteq Nat
      BY LenProperties
    <3> HIDE DEF I
    <3> QED
      BY <1>2, <3>1, LeastExists
  <2> QED
    BY <2>1, <2>2
<1> QED
  BY <1>1, <1>2

(* The lists of a policy to which a rule is added. *)
LEMMA TermsInsert ==
    ASSUME NEW config, NEW r, NEW c, NEW t, NEW p
    PROVE  Terms(InsertRule(config, r), c, t, p) =
             IF c = r.component /\ t = r.type /\ p = r.priority
             THEN Append(Terms(config, c, t, p), ToTerm(r))
             ELSE Terms(config, c, t, p)
<1> DEFINE level1 == At(config, r.component)
           level2 == At(level1, r.type)
           list == Append(Terms(config, r.component, r.type, r.priority), ToTerm(r))
           new2 == Put(level2, r.priority, list)
           new1 == Put(level1, r.type, new2)
           new == Put(config, r.component, new1)
<1>1. InsertRule(config, r) = new
  BY DEF InsertRule
<1>2. Terms(new, c, t, p) = At(At(At(new, c), t), p)
  BY DEF Terms
<1>3. Terms(config, c, t, p) = At(At(At(config, c), t), p)
  BY DEF Terms
<1> HIDE DEF list
<1>4. At(new2, r.priority) = list /\ (p # r.priority => At(new2, p) = At(level2, p))
  BY AtPut
<1> HIDE DEF new2
<1>5. At(new1, r.type) = new2 /\ (t # r.type => At(new1, t) = At(level1, t))
  BY AtPut
<1> HIDE DEF new1
<1>6. At(new, r.component) = new1 /\ (c # r.component => At(new, c) = At(config, c))
  BY AtPut
<1> HIDE DEF new
<1>7. CASE c = r.component /\ t = r.type /\ p = r.priority
  BY <1>1, <1>2, <1>4, <1>5, <1>6, <1>7 DEF list
<1>8. CASE ~(c = r.component /\ t = r.type /\ p = r.priority)
  BY <1>1, <1>2, <1>3, <1>4, <1>5, <1>6, <1>8
<1> QED
  BY <1>7, <1>8

(* The list from which a rule is taken out. *)
Remaining(config, r) ==
    Removed(r.component, r.type, r.priority, Terms(config, r.component, r.type, r.priority), r)

(* The lists of a policy from which a rule is taken out. *)
LEMMA TermsRemove ==
    ASSUME NEW config, NEW r, NEW c, NEW t, NEW p
    PROVE  Terms(RemoveRule(config, r), c, t, p) =
             IF c = r.component /\ t = r.type /\ p = r.priority
             THEN Remaining(config, r) ELSE Terms(config, c, t, p)
<1> DEFINE level1 == At(config, r.component)
           level2 == At(level1, r.type)
           list == Remaining(config, r)
           new2 == Trim(level2, r.priority, list)
           new1 == Trim(level1, r.type, new2)
           new == Trim(config, r.component, new1)
<1>1. RemoveRule(config, r) = new
  BY Zenon DEF RemoveRule, Remaining, Removed
<1>2. Terms(new, c, t, p) = At(At(At(new, c), t), p)
  BY DEF Terms
<1>3. Terms(config, c, t, p) = At(At(At(config, c), t), p)
  BY DEF Terms
<1> HIDE DEF list
<1>4. At(new2, r.priority) = list /\ (p # r.priority => At(new2, p) = At(level2, p))
  BY AtTrim
<1> HIDE DEF new2
<1>5. At(new1, r.type) = new2 /\ (t # r.type => At(new1, t) = At(level1, t))
  BY AtTrim
<1> HIDE DEF new1
<1>6. At(new, r.component) = new1 /\ (c # r.component => At(new, c) = At(config, c))
  BY AtTrim
<1> HIDE DEF new
<1>7. CASE c = r.component /\ t = r.type /\ p = r.priority
  BY <1>1, <1>2, <1>4, <1>5, <1>6, <1>7 DEF list
<1>8. CASE ~(c = r.component /\ t = r.type /\ p = r.priority)
  BY <1>1, <1>2, <1>3, <1>4, <1>5, <1>6, <1>8
<1> QED
  BY <1>7, <1>8

-----------------------------------------------------------------------------
(* Lists. *)

(* A list of elements of a set is one of its own elements. *)
LEMMA ListRange ==
    ASSUME NEW S, NEW s \in Seq(S)
    PROVE  s \in Seq(Range(s)) /\ Range(s) \subseteq S
<1>1. Len(s) \in Nat /\ s \in [1 .. Len(s) -> S] /\ DOMAIN s = 1 .. Len(s)
  BY LenProperties
<1>2. s \in [1 .. Len(s) -> Range(s)] /\ Range(s) \subseteq S
  BY <1>1 DEF Range
<1> QED
  BY <1>1, <1>2

(* A list without one of its elements. *)
LEMMA RemoveAtProperties ==
    ASSUME NEW S, NEW list \in Seq(S), NEW k \in 1 .. Len(list)
    PROVE  /\ RemoveAt(list, k) \in Seq(S)
           /\ Len(RemoveAt(list, k)) = Len(list) - 1
           /\ \A i \in 1 .. Len(list) - 1 :
                RemoveAt(list, k)[i] = IF i < k THEN list[i] ELSE list[i + 1]
<1> DEFINE before == SubSeq(list, 1, k - 1)
           after == SubSeq(list, k + 1, Len(list))
<1>1. Len(list) \in Nat /\ \A i \in 1 .. Len(list) : list[i] \in S
  BY LenProperties, ElementOfSeq
<1>2. /\ before \in Seq(S) /\ Len(before) = k - 1
      /\ \A i \in 1 .. k - 1 : before[i] = list[i]
  <2>1. \A i \in 1 .. k - 1 : list[i] \in S
    BY <1>1
  <2> QED
    BY <1>1, <2>1, SubSeqProperties
<1>3. /\ after \in Seq(S) /\ Len(after) = Len(list) - k
      /\ \A i \in 1 .. Len(list) - k : after[i] = list[k + i]
  <2>1. \A i \in k + 1 .. Len(list) : list[i] \in S
    BY <1>1
  <2>2. /\ SubSeq(list, k + 1, Len(list)) \in Seq(S)
        /\ Len(SubSeq(list, k + 1, Len(list))) =
             IF k + 1 <= Len(list) THEN Len(list) - (k + 1) + 1 ELSE 0
        /\ \A i \in 1 .. Len(list) - (k + 1) + 1 :
             SubSeq(list, k + 1, Len(list))[i] = list[(k + 1) + i - 1]
    BY <1>1, <2>1, SubSeqProperties
  <2> QED
    BY <1>1, <2>2
<1>4. RemoveAt(list, k) = before \o after
  BY DEF RemoveAt
<1> HIDE DEF before, after
<1>5. /\ before \o after \in Seq(S)
      /\ Len(before \o after) = Len(before) + Len(after)
      /\ \A i \in 1 .. Len(before) + Len(after) : (before \o after)[i] =
           IF i <= Len(before) THEN before[i] ELSE after[i - Len(before)]
  BY <1>2, <1>3, ConcatProperties
<1>6. ASSUME NEW i \in 1 .. Len(list) - 1
      PROVE  (before \o after)[i] = IF i < k THEN list[i] ELSE list[i + 1]
  <2>1. (before \o after)[i] = IF i <= k - 1 THEN before[i] ELSE after[i - (k - 1)]
    BY <1>1, <1>2, <1>3, <1>5
  <2>2. CASE i < k
    BY <1>1, <1>2, <2>1, <2>2
  <2>3. CASE ~(i < k)
    <3>1. i - (k - 1) \in 1 .. Len(list) - k /\ k + (i - (k - 1)) = i + 1
      BY <1>1, <2>3
    <3> QED
      BY <1>1, <1>3, <2>1, <2>3, <3>1
  <2> QED
    BY <2>2, <2>3
<1> QED
  BY <1>1, <1>2, <1>3, <1>4, <1>5, <1>6

\* Where a list of terms shows a rule.
Shows(c, t, p, list, x) == {i \in 1 .. Len(list) : ShownRule(c, t, p, list[i]) = x}

(* There are finitely many such places. *)
LEMMA ShowsFinite ==
    ASSUME NEW S, NEW list \in Seq(S), NEW c, NEW t, NEW p, NEW x
    PROVE  /\ IsFiniteSet(Shows(c, t, p, list, x))
           /\ Cardinality(Shows(c, t, p, list, x)) \in Nat
<1>1. IsFiniteSet(1 .. Len(list))
  BY LenProperties, FS_Interval
<1>2. Shows(c, t, p, list, x) \subseteq 1 .. Len(list)
  BY DEF Shows
<1> QED
  BY <1>1, <1>2, FS_Subset, FS_CardinalityType

(* A term at the end of the list shows one rule more. *)
LEMMA ShowsAppend ==
    ASSUME NEW S, NEW list \in Seq(S), NEW term \in S, NEW c, NEW t, NEW p, NEW x
    PROVE  Cardinality(Shows(c, t, p, Append(list, term), x)) =
             Cardinality(Shows(c, t, p, list, x)) + IF ShownRule(c, t, p, term) = x THEN 1 ELSE 0
<1> DEFINE old == Shows(c, t, p, list, x)
           new == Shows(c, t, p, Append(list, term), x)
           n == Len(list) + 1
<1>1. /\ Len(list) \in Nat /\ Len(Append(list, term)) = n /\ Append(list, term)[n] = term
      /\ \A i \in 1 .. Len(list) : Append(list, term)[i] = list[i]
  BY LenProperties, AppendProperties
<1>2. IsFiniteSet(old) /\ Cardinality(old) \in Nat
  BY ShowsFinite
<1>n. n \notin old
  BY <1>1 DEF Shows
<1>3. CASE ShownRule(c, t, p, term) = x
  <2>1. new = old \cup {n}
    BY <1>1, <1>3 DEF Shows
  <2> HIDE DEF old, new, n
  <2>2. Cardinality(new) = Cardinality(old) + 1
    BY <1>2, <1>n, <2>1, FS_AddElement
  <2> QED
    BY <1>3, <2>2 DEF old, new
<1>4. CASE ShownRule(c, t, p, term) # x
  <2>1. new = old
    BY <1>1, <1>4 DEF Shows
  <2> HIDE DEF old, new
  <2> QED
    BY <1>2, <1>4, <2>1 DEF old, new
<1> QED
  BY <1>3, <1>4

(* What is in a list to which something is added. *)
LEMMA AppendRange ==
    ASSUME NEW s, s \in Seq(Range(s)), NEW e
    PROVE  /\ Append(s, e) \in Seq(Range(Append(s, e)))
           /\ Range(Append(s, e)) = Range(s) \cup {e}
<1> DEFINE S == Range(s) \cup {e}
           new == Append(s, e)
<1>1. s \in Seq(S)
  BY SeqMonotonic
<1>2. /\ new \in Seq(S) /\ Len(new) = Len(s) + 1 /\ new[Len(s) + 1] = e
      /\ \A i \in 1 .. Len(s) : new[i] = s[i]
  BY <1>1, AppendProperties
<1>3. DOMAIN s = 1 .. Len(s) /\ DOMAIN new = 1 .. Len(new) /\ Len(s) \in Nat
  BY <1>1, <1>2, LenProperties
<1> HIDE DEF new
<1>4. Range(new) = S
  <2>1. Range(new) \subseteq S
    BY <1>2, <1>3 DEF Range
  <2>2. ASSUME NEW x \in S PROVE x \in Range(new)
    <3>1. CASE x = e
      BY <1>2, <1>3, <3>1 DEF Range
    <3>2. CASE x # e
      <4>1. PICK i \in DOMAIN s : x = s[i]
        BY <3>2 DEF Range
      <4> QED
        BY <1>2, <1>3, <4>1 DEF Range
    <3> QED
      BY <3>1, <3>2
  <2> QED
    BY <2>1, <2>2
<1> QED
  BY <1>2, <1>4 DEF new

(* What is in a list from which something is taken. *)
LEMMA RemoveRange ==
    ASSUME NEW s, s \in Seq(Range(s)), NEW k \in 1 .. Len(s)
    PROVE  /\ RemoveAt(s, k) \in Seq(Range(RemoveAt(s, k)))
           /\ Range(RemoveAt(s, k)) \subseteq Range(s)
<1> DEFINE new == RemoveAt(s, k)
<1>1. new \in Seq(Range(s))
  BY RemoveAtProperties
<1> HIDE DEF new
<1> QED
  BY <1>1, ListRange DEF new

(* A list from which a term is taken shows one rule less. *)
LEMMA ShowsRemove ==
    ASSUME NEW S, NEW list \in Seq(S), NEW k \in 1 .. Len(list), NEW c, NEW t, NEW p, NEW x
    PROVE  Cardinality(Shows(c, t, p, RemoveAt(list, k), x)) =
             Cardinality(Shows(c, t, p, list, x)) - IF ShownRule(c, t, p, list[k]) = x THEN 1 ELSE 0
<1> DEFINE rest == RemoveAt(list, k)
           old == Shows(c, t, p, list, x)
           new == Shows(c, t, p, rest, x)
           f == [i \in new |-> IF i < k THEN i ELSE i + 1]
<1>1. Len(list) \in Nat /\ rest \in Seq(S) /\ Len(rest) = Len(list) - 1
  BY LenProperties, RemoveAtProperties
<1>2. \A i \in 1 .. Len(list) - 1 : rest[i] = IF i < k THEN list[i] ELSE list[i + 1]
  BY RemoveAtProperties
<1>3. IsFiniteSet(old) /\ Cardinality(old) \in Nat
  BY ShowsFinite
<1>4. IsFiniteSet(new)
  BY <1>1, ShowsFinite
<1>5. \A i \in new : i \in 1 .. Len(list) - 1 /\ ShownRule(c, t, p, rest[i]) = x
  BY <1>1 DEF Shows
<1>6. \A i \in old \ {k} : i \in 1 .. Len(list) /\ ShownRule(c, t, p, list[i]) = x
  BY DEF Shows
<1>7. f \in [new -> old \ {k}]
  <2>1. ASSUME NEW i \in new PROVE (IF i < k THEN i ELSE i + 1) \in old \ {k}
    <3>1. i \in 1 .. Len(list) - 1 /\ ShownRule(c, t, p, rest[i]) = x
      BY <1>5
    <3>2. CASE i < k
      BY <1>1, <1>2, <3>1, <3>2 DEF Shows
    <3>3. CASE ~(i < k)
      BY <1>1, <1>2, <3>1, <3>3 DEF Shows
    <3> QED
      BY <3>2, <3>3
  <2> HIDE DEF old, new
  <2> QED
    BY <2>1
<1>8. \A a, b \in new : f[a] = f[b] => a = b
  <2>1. \A i \in new : i \in Int /\ f[i] = IF i < k THEN i ELSE i + 1
    BY <1>5
  <2> HIDE DEF f, new
  <2> QED
    BY <2>1
<1>9. \A j \in old \ {k} : \E i \in new : f[i] = j
  <2> SUFFICES ASSUME NEW j \in old \ {k} PROVE \E i \in new : f[i] = j
    OBVIOUS
  <2>1. j \in 1 .. Len(list) /\ ShownRule(c, t, p, list[j]) = x /\ j # k
    BY <1>6
  <2>2. CASE j < k
    <3>1. j \in 1 .. Len(list) - 1 /\ rest[j] = list[j]
      BY <1>1, <1>2, <2>1, <2>2
    <3>2. j \in new
      BY <1>1, <2>1, <3>1 DEF Shows
    <3> QED
      BY <2>2, <3>2
  <2>3. CASE ~(j < k)
    <3>1. j - 1 \in 1 .. Len(list) - 1 /\ rest[j - 1] = list[j] /\ ~(j - 1 < k)
      BY <1>1, <1>2, <2>1, <2>3
    <3>2. j - 1 \in new
      BY <1>1, <2>1, <3>1 DEF Shows
    <3>3. f[j - 1] = j
      BY <2>1, <3>1, <3>2
    <3> QED
      BY <3>2, <3>3
  <2> QED
    BY <2>2, <2>3
<1>k. k \in old <=> ShownRule(c, t, p, list[k]) = x
  BY DEF Shows
<1> HIDE DEF f, old, new
<1>10. f \in Bijection(new, old \ {k})
  BY <1>7, <1>8, <1>9, Fun_IsBij
<1>11. Cardinality(new) = Cardinality(old \ {k})
  BY <1>4, <1>10, FS_Bijection DEF ExistsBijection
<1>12. Cardinality(old \ {k}) = IF k \in old THEN Cardinality(old) - 1 ELSE Cardinality(old)
  BY <1>3, FS_RemoveElement
<1>13. Cardinality(new) =
         Cardinality(old) - IF ShownRule(c, t, p, list[k]) = x THEN 1 ELSE 0
  BY <1>3, <1>k, <1>11, <1>12
<1> QED
  BY <1>13 DEF old, new, rest

-----------------------------------------------------------------------------
(* The table of rules. *)

\* A rule of a component, of a type and with a priority that there are.
Placed(x) == x.component \in Components /\ x.type \in AffinityTypes /\ x.priority \in Priorities

\* The list in which a rule is, and where it is shown there.
ListOf(config, x) == Terms(config, x.component, x.type, x.priority)
Places(config, x) == Shows(x.component, x.type, x.priority, ListOf(config, x), x)

\* All terms of a policy, and the rule that one is shown as.
AllPlaces(config) == UNION {{<<c, t, p>>} \X (1 .. Len(Terms(config, c, t, p))) :
                            c \in Components, t \in AffinityTypes, p \in Priorities}
ShownAt(config, q) == ShownRule(q[1][1], q[1][2], q[1][3],
                                Terms(config, q[1][1], q[1][2], q[1][3])[q[2]])

(* A rule is in the table at these places. *)
LEMMA PlacesInTable ==
    ASSUME NEW config, NEW x
    PROVE  {q \in AllPlaces(config) : ShownAt(config, q) = x} =
             IF Placed(x) THEN {<<x.component, x.type, x.priority>>} \X Places(config, x) ELSE {}
<1> DEFINE table == {q \in AllPlaces(config) : ShownAt(config, q) = x}
           place == <<x.component, x.type, x.priority>>
<1>1. ASSUME NEW q \in table PROVE Placed(x) /\ q \in {place} \X Places(config, x)
  <2>1. PICK c \in Components, t \in AffinityTypes, p \in Priorities :
          q \in {<<c, t, p>>} \X (1 .. Len(Terms(config, c, t, p)))
    BY DEF AllPlaces
  <2>2. PICK i \in 1 .. Len(Terms(config, c, t, p)) : q = <<<<c, t, p>>, i>>
    BY <2>1
  <2>3. ShownRule(c, t, p, Terms(config, c, t, p)[i]) = x
    BY <2>2 DEF ShownAt
  <2>4. x.component = c /\ x.type = t /\ x.priority = p
    BY <2>3 DEF ShownRule
  <2>5. i \in Places(config, x)
    BY <2>3, <2>4 DEF Places, ListOf, Shows
  <2> QED
    BY <2>2, <2>4, <2>5 DEF Placed
<1>2. ASSUME Placed(x), NEW i \in Places(config, x) PROVE <<place, i>> \in table
  <2>1. i \in 1 .. Len(ListOf(config, x))
    BY DEF Places, Shows
  <2>2. <<place, i>> \in AllPlaces(config)
    <3>1. <<place, i>> \in {place} \X (1 .. Len(Terms(config, x.component, x.type, x.priority)))
      BY <2>1 DEF ListOf
    <3> DEFINE Block(c, t, p) == {<<c, t, p>>} \X (1 .. Len(Terms(config, c, t, p)))
               blocks == {Block(c, t, p) : c \in Components, t \in AffinityTypes, p \in Priorities}
               block == Block(x.component, x.type, x.priority)
    <3>2. <<place, i>> \in block
      BY <3>1
    <3>3. AllPlaces(config) = UNION blocks
      BY DEF AllPlaces
    <3> HIDE DEF Block
    <3>4. block \in blocks
      BY <1>2 DEF Placed
    <3> HIDE DEF blocks, block
    <3> QED
      BY <3>2, <3>3, <3>4
  <2>3. ShownAt(config, <<place, i>>) = x
    BY DEF ShownAt, Places, ListOf, Shows
  <2> QED
    BY <2>2, <2>3
<1>3. CASE Placed(x)
  <2> HIDE DEF table, place
  <2>1. {place} \X Places(config, x) \subseteq table
    <3> SUFFICES ASSUME NEW q \in {place} \X Places(config, x) PROVE q \in table
      OBVIOUS
    <3>1. PICK i \in Places(config, x) : q = <<place, i>>
      OBVIOUS
    <3> QED
      BY <1>2, <1>3, <3>1
  <2>2. table = {place} \X Places(config, x)
    BY <1>1, <2>1
  <2> QED
    BY <1>3, <2>2 DEF table, place
<1>4. CASE ~Placed(x)
  <2>1. table = {}
    BY <1>1, <1>4
  <2> QED
    BY <1>4, <2>1
<1> QED
  BY <1>3, <1>4

(* How often a rule is in the table. *)
LEMMA CopiesCount ==
    ASSUME NEW config, HoldsRules(config), NEW x
    PROVE  /\ Copies(x, config) = IF Placed(x) THEN Cardinality(Places(config, x)) ELSE 0
           /\ Copies(x, config) \in Nat
           /\ x \in DOMAIN Rules(config) <=> Copies(x, config) # 0
           /\ x \in DOMAIN Rules(config) => Rules(config)[x] = Copies(x, config)
<1> DEFINE table == {q \in AllPlaces(config) : ShownAt(config, q) = x}
<1>1. Rules(config) = [r \in {ShownAt(config, q) : q \in AllPlaces(config)} |->
                         Cardinality({q \in AllPlaces(config) : ShownAt(config, q) = r})]
  BY DEF Rules, AllPlaces, ShownAt
<1>2. x \in DOMAIN Rules(config) <=> table # {}
  BY <1>1
<1>3. x \in DOMAIN Rules(config) => Rules(config)[x] = Cardinality(table)
  BY <1>1
<1>4. table = IF Placed(x) THEN {<<x.component, x.type, x.priority>>} \X Places(config, x) ELSE {}
  BY PlacesInTable
<1> HIDE DEF table
<1>5. Copies(x, config) = IF table # {} THEN Cardinality(table) ELSE 0
  BY <1>2, <1>3 DEF Copies, BagIn, BagToSet
<1>6. CASE Placed(x)
  <2>1. ListOf(config, x) \in Seq(Range(ListOf(config, x)))
    BY <1>6 DEF HoldsRules, Placed, ListOf
  <2>2. IsFiniteSet(Places(config, x)) /\ Cardinality(Places(config, x)) \in Nat
    BY <2>1, ShowsFinite DEF Places
  <2> DEFINE single == {<<x.component, x.type, x.priority>>}
  <2>3. IsFiniteSet(single) /\ Cardinality(single) = 1
    BY FS_Singleton
  <2>4. table = single \X Places(config, x)
    BY <1>4, <1>6
  <2> HIDE DEF single
  <2>5. IsFiniteSet(table) /\ Cardinality(table) = Cardinality(single) * Cardinality(Places(config, x))
    BY <2>2, <2>3, <2>4, FS_Product
  <2>6. Cardinality(table) = Cardinality(Places(config, x))
    BY <2>2, <2>3, <2>5
  <2>7. table = {} <=> Cardinality(table) = 0
    BY <2>5, FS_EmptySet
  <2> QED
    BY <1>2, <1>3, <1>5, <1>6, <2>2, <2>6, <2>7
<1>7. CASE ~Placed(x)
  BY <1>2, <1>4, <1>5, <1>7
<1> QED
  BY <1>6, <1>7

(* Policies that show every rule as often have the same table. *)
LEMMA SameCopies ==
    ASSUME NEW A, HoldsRules(A), NEW B,
           DOMAIN B = {x \in DOMAIN B : B[x] # 0} /\ B = [x \in DOMAIN B |-> B[x]],
           \A x : Copies(x, A) = IF x \in DOMAIN B THEN B[x] ELSE 0
    PROVE  Rules(A) = B
<1>1. Rules(A) = [x \in DOMAIN Rules(A) |-> Rules(A)[x]]
  BY DEF Rules
<1>2. \A x : x \in DOMAIN Rules(A) <=> x \in DOMAIN B
  BY CopiesCount
<1>3. \A x \in DOMAIN Rules(A) : Rules(A)[x] = B[x]
  BY <1>2, CopiesCount
<1> QED
  BY <1>1, <1>2, <1>3

-----------------------------------------------------------------------------
(* Adding a rule. *)

(* What the form lets through is a rule as Kubernetes takes it. *)
LEMMA RuleOfType ==
    ASSUME NEW r, ValidRule(r), r.component \in Components, r.type \in AffinityTypes,
           r.priority \in Priorities, r.op \in {""} \cup Operators
    PROVE  IsRule(RuleOf(r))
BY DEF IsRule, RuleOf, ShownRule, ToTerm, ValidRule, RequiresValues, Operators, Priorities

(* The rule is in the list; the others stay. *)
LEMMA InsertHolds ==
    ASSUME NEW config, HoldsRules(config), NEW r, IsRule(RuleOf(r))
    PROVE  HoldsRules(InsertRule(config, r))
<1> SUFFICES ASSUME NEW c \in Components, NEW t \in AffinityTypes, NEW p \in Priorities,
                    NEW new, new = Terms(InsertRule(config, r), c, t, p)
             PROVE  /\ new \in Seq(Range(new))
                    /\ \A term \in Range(new) : IsRule(ShownRule(c, t, p, term))
  BY DEF HoldsRules
<1> DEFINE old == Terms(config, c, t, p)
<1>1. old \in Seq(Range(old)) /\ \A term \in Range(old) : IsRule(ShownRule(c, t, p, term))
  BY DEF HoldsRules
<1>2. CASE c = r.component /\ t = r.type /\ p = r.priority
  <2>1. new = Append(old, ToTerm(r))
    BY <1>2, TermsInsert
  <2>2. IsRule(ShownRule(c, t, p, ToTerm(r)))
    BY <1>2 DEF RuleOf
  <2> HIDE DEF old
  <2> QED
    BY <1>1, <2>1, <2>2, AppendRange
<1>3. CASE ~(c = r.component /\ t = r.type /\ p = r.priority)
  <2>1. new = old
    BY <1>3, TermsInsert
  <2> QED
    BY <1>1, <2>1
<1> QED
  BY <1>2, <1>3

(* A level at which something is put is not empty. *)
LEMMA PutNotEmpty ==
    ASSUME NEW f, NEW k, NEW v
    PROVE  Put(f, k, v) # <<>>
<1>1. k \in DOMAIN Put(f, k, v)
  BY DEF Put
<1> QED
  BY <1>1

(* What is at a level is nothing, or one of its values. *)
LEMMA AtValue ==
    ASSUME NEW f, NEW k
    PROVE  At(f, k) = <<>> \/ (k \in DOMAIN f /\ At(f, k) = f[k])
BY DEF At

\* No list of a component is empty, and neither is one of a type.
TidyType(f) == \A p \in DOMAIN f : f[p] # <<>>
TidyComponent(f) == \A t \in DOMAIN f : f[t] # <<>> /\ TidyType(f[t])

(* The levels of a policy in order are in order. *)
LEMMA TidyLevels ==
    ASSUME NEW config
    PROVE  Tidy(config) <=> \A c \in DOMAIN config : config[c] # <<>> /\ TidyComponent(config[c])
BY DEF Tidy, TidyComponent, TidyType

(* A rule comes with the levels that are missing. *)
LEMMA InsertTidy ==
    ASSUME NEW config, Tidy(config), HoldsRules(config), NEW r, Placed(r)
    PROVE  Tidy(InsertRule(config, r))
<1> DEFINE level1 == At(config, r.component)
           level2 == At(level1, r.type)
           list == Append(Terms(config, r.component, r.type, r.priority), ToTerm(r))
           new2 == Put(level2, r.priority, list)
           new1 == Put(level1, r.type, new2)
           new == Put(config, r.component, new1)
<1>1. InsertRule(config, r) = new
  BY DEF InsertRule
<1>2. TidyComponent(level1)
  BY TidyLevels, AtValue DEF TidyComponent
<1>3. TidyType(level2)
  <2> HIDE DEF level1
  <2> QED
    BY <1>2, AtValue DEF TidyComponent, TidyType
<1>4. list # <<>>
  <2> DEFINE old == Terms(config, r.component, r.type, r.priority)
  <2>1. old \in Seq(Range(old))
    BY DEF HoldsRules, Placed
  <2> HIDE DEF old
  <2>2. old \in Seq(Range(old) \cup {ToTerm(r)})
    BY <2>1, SeqMonotonic
  <2>3. Append(old, ToTerm(r)) # <<>>
    BY <2>2, AppendProperties
  <2> QED
    BY <2>3 DEF old
<1> HIDE DEF list, level1, level2
<1>5. TidyType(new2)
  BY <1>3, <1>4 DEF TidyType, Put
<1>6. new2 # <<>>
  BY PutNotEmpty
<1> HIDE DEF new2
<1>7. TidyComponent(new1)
  BY <1>2, <1>5, <1>6 DEF TidyComponent, Put
<1>8. new1 # <<>>
  BY PutNotEmpty
<1> HIDE DEF new1
<1>9. \A c \in DOMAIN new : new[c] # <<>> /\ TidyComponent(new[c])
  BY <1>7, <1>8, TidyLevels DEF Put
<1> HIDE DEF new
<1> QED
  BY <1>1, <1>9, TidyLevels

(* The table has the new rule once more, and every other one as often. *)
LEMMA InsertCopies ==
    ASSUME NEW config, HoldsRules(config), NEW r, Placed(r), IsRule(RuleOf(r)), NEW x
    PROVE  Copies(x, InsertRule(config, r)) =
             Copies(x, config) + IF x = RuleOf(r) THEN 1 ELSE 0
<1> DEFINE new == InsertRule(config, r)
<1>1. HoldsRules(new)
  BY InsertHolds
<1>2. /\ Copies(x, config) = IF Placed(x) THEN Cardinality(Places(config, x)) ELSE 0
      /\ Copies(x, config) \in Nat
  BY CopiesCount
<1>3. Copies(x, new) = IF Placed(x) THEN Cardinality(Places(new, x)) ELSE 0
  BY <1>1, CopiesCount
<1>4. RuleOf(r).component = r.component /\ RuleOf(r).type = r.type /\ RuleOf(r).priority = r.priority
  BY DEF RuleOf, ShownRule
<1> HIDE DEF new
<1>5. CASE Placed(x) /\ x.component = r.component /\ x.type = r.type /\ x.priority = r.priority
  <2> DEFINE list == ListOf(config, x)
             term == ToTerm(r)
             S == Range(list) \cup {term}
  <2>1. ListOf(new, x) = Append(list, term)
    BY <1>5, TermsInsert DEF ListOf, new
  <2>2. list \in Seq(Range(list))
    BY <1>5 DEF HoldsRules, Placed, ListOf
  <2>3. ShownRule(x.component, x.type, x.priority, term) = RuleOf(r)
    BY <1>5 DEF RuleOf
  <2> HIDE DEF list, term
  <2>4. list \in Seq(S) /\ term \in S
    BY <2>2, SeqMonotonic
  <2> HIDE DEF S
  <2>5. Cardinality(Shows(x.component, x.type, x.priority, Append(list, term), x)) =
          Cardinality(Shows(x.component, x.type, x.priority, list, x))
            + IF ShownRule(x.component, x.type, x.priority, term) = x THEN 1 ELSE 0
    BY <2>4, ShowsAppend
  <2>6. Cardinality(Places(new, x)) = Cardinality(Places(config, x)) + IF x = RuleOf(r) THEN 1 ELSE 0
    BY <2>1, <2>3, <2>5 DEF Places, list
  <2> QED
    BY <1>2, <1>3, <1>5, <2>6 DEF new
<1>6. CASE Placed(x) /\ ~(x.component = r.component /\ x.type = r.type /\ x.priority = r.priority)
  <2>1. ListOf(new, x) = ListOf(config, x)
    BY <1>6, TermsInsert DEF ListOf, new
  <2>2. x # RuleOf(r)
    BY <1>4, <1>6
  <2> QED
    BY <1>2, <1>3, <1>6, <2>1, <2>2 DEF Places, new
<1>7. CASE ~Placed(x)
  <2>1. x # RuleOf(r)
    BY <1>4, <1>7 DEF Placed
  <2> QED
    BY <1>2, <1>3, <1>7, <2>1 DEF new
<1> QED
  BY <1>5, <1>6, <1>7

-----------------------------------------------------------------------------
(* Taking a rule out. *)

(* The list of the rule has lost a term that is shown as the rule, or it has  *)
(* none.                                                                      *)
LEMMA RemainingList ==
    ASSUME NEW config, HoldsRules(config), NEW r, Placed(r)
    PROVE  \/ /\ Remaining(config, r) = ListOf(config, r)
              /\ \A i \in 1 .. Len(ListOf(config, r)) :
                   ShownRule(r.component, r.type, r.priority, ListOf(config, r)[i]) # r
           \/ \E k \in 1 .. Len(ListOf(config, r)) :
                /\ ShownRule(r.component, r.type, r.priority, ListOf(config, r)[k]) = r
                /\ Remaining(config, r) = RemoveAt(ListOf(config, r), k)
<1> DEFINE list == ListOf(config, r)
           rest == Remaining(config, r)
<1>1. list \in Seq(Range(list))
  BY DEF HoldsRules, Placed, ListOf
<1>2. rest = Removed(r.component, r.type, r.priority, list, r)
  BY DEF Remaining, ListOf
<1> HIDE DEF list, rest
<1>3. \/ rest = list /\ \A i \in 1 .. Len(list) :
                          ShownRule(r.component, r.type, r.priority, list[i]) # r
      \/ \E k \in 1 .. Len(list) :
           ShownRule(r.component, r.type, r.priority, list[k]) = r /\ rest = RemoveAt(list, k)
  BY <1>1, <1>2, RemoveMatch
<1> QED
  BY <1>3 DEF list, rest

(* What is left are rules. *)
LEMMA RemoveHolds ==
    ASSUME NEW config, HoldsRules(config), NEW r, Placed(r)
    PROVE  HoldsRules(RemoveRule(config, r))
<1> SUFFICES ASSUME NEW c \in Components, NEW t \in AffinityTypes, NEW p \in Priorities,
                    NEW new, new = Terms(RemoveRule(config, r), c, t, p)
             PROVE  /\ new \in Seq(Range(new))
                    /\ \A term \in Range(new) : IsRule(ShownRule(c, t, p, term))
  BY DEF HoldsRules
<1> DEFINE old == Terms(config, c, t, p)
<1>1. old \in Seq(Range(old)) /\ \A term \in Range(old) : IsRule(ShownRule(c, t, p, term))
  BY DEF HoldsRules
<1>2. new = old \/ \E k \in 1 .. Len(old) : new = RemoveAt(old, k)
  <2>1. CASE c = r.component /\ t = r.type /\ p = r.priority
    <3>1. new = Remaining(config, r) /\ old = ListOf(config, r)
      BY <2>1, TermsRemove DEF ListOf
    <3> QED
      BY <3>1, RemainingList
  <2>2. CASE ~(c = r.component /\ t = r.type /\ p = r.priority)
    BY <2>2, TermsRemove
  <2> QED
    BY <2>1, <2>2
<1> HIDE DEF old
<1> QED
  BY <1>1, <1>2, RemoveRange

(* Each level that has become empty goes with the rule. *)
LEMMA RemoveTidy ==
    ASSUME NEW config, Tidy(config), NEW r
    PROVE  Tidy(RemoveRule(config, r))
<1> DEFINE level1 == At(config, r.component)
           level2 == At(level1, r.type)
           list == Remaining(config, r)
           new2 == Trim(level2, r.priority, list)
           new1 == Trim(level1, r.type, new2)
           new == Trim(config, r.component, new1)
<1>1. RemoveRule(config, r) = new
  BY Zenon DEF RemoveRule, Remaining, Removed
<1>2. TidyComponent(level1)
  BY TidyLevels, AtValue DEF TidyComponent
<1>3. TidyType(level2)
  <2> HIDE DEF level1
  <2> QED
    BY <1>2, AtValue DEF TidyComponent, TidyType
<1> HIDE DEF list, level1, level2
<1>4. TidyType(new2)
  BY <1>3, TidyTrim DEF TidyType
<1> HIDE DEF new2
<1>5. TidyComponent(new1)
  BY <1>2, <1>4, TidyTrim DEF TidyComponent
<1> HIDE DEF new1
<1>6. \A c \in DOMAIN new : new[c] # <<>> /\ TidyComponent(new[c])
  BY <1>5, TidyLevels, TidyTrim
<1> HIDE DEF new
<1> QED
  BY <1>1, <1>6, TidyLevels

(* The table has the rule once less, if it had it, and every other one as     *)
(* often.                                                                     *)
LEMMA RemoveCopies ==
    ASSUME NEW config, HoldsRules(config), NEW r, Placed(r), NEW x
    PROVE  Copies(x, RemoveRule(config, r)) =
             Copies(x, config) - IF x = r /\ Copies(r, config) # 0 THEN 1 ELSE 0
<1> DEFINE new == RemoveRule(config, r)
<1>1. HoldsRules(new)
  BY RemoveHolds
<1>2. /\ Copies(x, config) = IF Placed(x) THEN Cardinality(Places(config, x)) ELSE 0
      /\ Copies(x, config) \in Nat
  BY CopiesCount
<1>3. Copies(x, new) = IF Placed(x) THEN Cardinality(Places(new, x)) ELSE 0
  BY <1>1, CopiesCount
<1> HIDE DEF new
<1>4. CASE Placed(x) /\ x.component = r.component /\ x.type = r.type /\ x.priority = r.priority
  <2> DEFINE list == ListOf(config, r)
             rest == Remaining(config, r)
             Card(s) == Cardinality(Shows(r.component, r.type, r.priority, s, x))
  <2>1. ListOf(new, x) = rest /\ ListOf(config, x) = list
    BY <1>4, TermsRemove DEF ListOf, new
  <2>2. list \in Seq(Range(list))
    BY DEF HoldsRules, Placed, ListOf
  <2>3. Cardinality(Places(new, x)) = Card(rest) /\ Cardinality(Places(config, x)) = Card(list)
    BY <1>4, <2>1 DEF Places
  <2>4. Copies(r, config) # 0 <=>
          \E i \in 1 .. Len(list) : ShownRule(r.component, r.type, r.priority, list[i]) = r
    <3>1. Copies(r, config) = Cardinality(Places(config, r))
      BY CopiesCount
    <3>2. IsFiniteSet(Places(config, r))
      BY <2>2, ShowsFinite DEF Places
    <3>3. Cardinality(Places(config, r)) = 0 <=> Places(config, r) = {}
      BY <3>2, FS_EmptySet
    <3> QED
      BY <3>1, <3>3 DEF Places, Shows
  <2>5. CASE rest = list /\ \A i \in 1 .. Len(list) :
                              ShownRule(r.component, r.type, r.priority, list[i]) # r
    <3>1. Copies(r, config) = 0
      BY <2>4, <2>5
    <3> QED
      BY <1>2, <1>3, <1>4, <2>3, <2>5, <3>1 DEF new
  <2>6. ASSUME NEW k \in 1 .. Len(list),
               ShownRule(r.component, r.type, r.priority, list[k]) = r,
               rest = RemoveAt(list, k)
        PROVE  Copies(x, new) = Copies(x, config) - IF x = r /\ Copies(r, config) # 0 THEN 1 ELSE 0
    <3> HIDE DEF list, rest
    <3>1. Card(rest) = Card(list)
            - IF ShownRule(r.component, r.type, r.priority, list[k]) = x THEN 1 ELSE 0
      BY <2>2, <2>6, ShowsRemove
    <3>2. Copies(r, config) # 0
      BY <2>4, <2>6
    <3> HIDE DEF Card
    <3> QED
      BY <1>2, <1>3, <1>4, <2>3, <2>6, <3>1, <3>2
  <2> QED
    BY <2>5, <2>6, RemainingList DEF new
<1>5. CASE Placed(x) /\ ~(x.component = r.component /\ x.type = r.type /\ x.priority = r.priority)
  <2>1. ListOf(new, x) = ListOf(config, x) /\ x # r
    BY <1>5, TermsRemove DEF ListOf, new
  <2> QED
    BY <1>2, <1>3, <1>5, <2>1 DEF Places, new
<1>6. CASE ~Placed(x)
  <2>1. x # r
    BY <1>6
  <2> QED
    BY <1>2, <1>3, <1>6, <2>1 DEF new
<1> QED
  BY <1>4, <1>5, <1>6

\* The new table has the rules G once less, those that the old one has, and the
\* rules N once more.
Changes(old, new, G, N) ==
    \A x : Copies(x, new) = (Copies(x, old) - IF x \in G /\ Copies(x, old) # 0 THEN 1 ELSE 0)
                              + IF x \in N THEN 1 ELSE 0

(* So it is the old one as a bag, without the rules G and with the rules N.   *)
LEMMA TableOfChange ==
    ASSUME NEW old, HoldsRules(old), NEW new, HoldsRules(new), NEW G, NEW N,
           Changes(old, new, G, N)
    PROVE  Rules(new) = (Rules(old) (-) SetToBag(G)) (+) SetToBag(N)
<1> DEFINE B1 == Rules(old)
           B2 == B1 (-) SetToBag(G)
           B == B2 (+) SetToBag(N)
           Left(x) == Copies(x, old) - IF x \in G /\ Copies(x, old) # 0 THEN 1 ELSE 0
<1>1. ASSUME NEW x
      PROVE  /\ Copies(x, old) \in Nat
             /\ x \in DOMAIN B1 <=> Copies(x, old) # 0
             /\ x \in DOMAIN B1 => B1[x] = Copies(x, old)
  BY CopiesCount
<1> HIDE DEF B1
<1>2. ASSUME NEW x
      PROVE  /\ x \in DOMAIN B2 <=> Left(x) # 0
             /\ x \in DOMAIN B2 => B2[x] = Left(x)
  <2>1. DOMAIN SetToBag(G) = G /\ \A e \in G : SetToBag(G)[e] = 1
    BY DEF SetToBag
  <2> HIDE DEF Left
  <2>2. Left(x) = Copies(x, old) - IF x \in G /\ Copies(x, old) # 0 THEN 1 ELSE 0
    BY DEF Left
  <2> QED
    BY <1>1, <2>1, <2>2 DEF (-)
<1> HIDE DEF B2
<1>3. ASSUME NEW x
      PROVE  /\ x \in DOMAIN B <=> Copies(x, new) # 0
             /\ x \in DOMAIN B => B[x] = Copies(x, new)
  <2>1. DOMAIN SetToBag(N) = N /\ \A e \in N : SetToBag(N)[e] = 1
    BY DEF SetToBag
  <2>2. Left(x) \in Nat
    BY <1>1
  <2>3. Copies(x, new) = Left(x) + IF x \in N THEN 1 ELSE 0
    BY DEF Changes
  <2> HIDE DEF Left
  <2> QED
    BY <1>2, <2>1, <2>2, <2>3 DEF (+)
<1>4. B = [x \in DOMAIN B |-> B[x]]
  BY DEF (+)
<1> HIDE DEF B
<1>5. DOMAIN B = {x \in DOMAIN B : B[x] # 0}
  BY <1>3
<1>6. \A x : Copies(x, new) = IF x \in DOMAIN B THEN B[x] ELSE 0
  BY <1>3
<1>7. Rules(new) = B
  BY <1>4, <1>5, <1>6, SameCopies
<1> QED
  BY <1>7 DEF B, B1, B2

(* The rules of a table are rules as Kubernetes takes them.                   *)
LEMMA TableRules ==
    ASSUME NEW config, HoldsRules(config), NEW r \in BagToSet(Rules(config))
    PROVE  IsRule(r)
<1>1. r \in DOMAIN Rules(config)
  BY DEF BagToSet
<1>2. Placed(r) /\ Cardinality(Places(config, r)) # 0
  BY <1>1, CopiesCount
<1>3. Places(config, r) # {}
  BY <1>2, FS_EmptySet
<1>4. PICK i \in 1 .. Len(ListOf(config, r)) :
        ShownRule(r.component, r.type, r.priority, ListOf(config, r)[i]) = r
  BY <1>3 DEF Places, Shows
<1> DEFINE list == ListOf(config, r)
<1>5. list \in Seq(Range(list)) /\ \A term \in Range(list) :
        IsRule(ShownRule(r.component, r.type, r.priority, term))
  BY <1>2 DEF HoldsRules, Placed, ListOf
<1>6. list[i] \in Range(list)
  <2> HIDE DEF list
  <2>1. DOMAIN list = 1 .. Len(list)
    BY <1>5, LenProperties
  <2> QED
    BY <1>4, <2>1 DEF Range, list
<1> QED
  BY <1>4, <1>5, <1>6

(* An update of the queue, and the others.                                    *)
LEMMA QueueWithout ==
    ASSUME NEW s, s \in Seq(Range(s)), NEW i \in DOMAIN s
    PROVE  /\ s[i] \in Range(s) /\ Len(s) \in Nat /\ i \in 1 .. Len(s)
           /\ RemoveAt(s, i) \in Seq(Range(RemoveAt(s, i)))
           /\ Range(RemoveAt(s, i)) \subseteq Range(s)
           /\ Len(RemoveAt(s, i)) = Len(s) - 1
<1>1. Len(s) \in Nat /\ DOMAIN s = 1 .. Len(s)
  BY LenProperties
<1>2. s[i] \in Range(s) /\ i \in 1 .. Len(s)
  BY <1>1 DEF Range
<1>3. Len(RemoveAt(s, i)) = Len(s) - 1
  BY <1>2, RemoveAtProperties
<1> QED
  BY <1>1, <1>2, <1>3, RemoveRange

(* A queue in which each update has been replaced by another.                 *)
LEMMA QueueOf ==
    ASSUME NEW s, s \in Seq(Range(s)), NEW t, DOMAIN t = DOMAIN s,
           t = [i \in DOMAIN t |-> t[i]]
    PROVE  t \in Seq(Range(t)) /\ Len(t) = Len(s)
<1>1. Len(s) \in Nat /\ DOMAIN s = 1 .. Len(s)
  BY LenProperties
<1>2. t \in [1 .. Len(s) -> Range(t)]
  BY <1>1 DEF Range
<1>3. t \in Seq(Range(t))
  BY <1>1, <1>2
<1> QED
  BY <1>1, <1>3, LenProperties

-----------------------------------------------------------------------------
(* The invariant. *)

\* A policy as the page and the server hold it.
Policy(p) ==
    /\ p = [config |-> p.config, version |-> p.version, gen |-> p.gen]
    /\ p.version \in 1 .. MaxVersion /\ p.gen \in 1 .. p.version
    /\ Tidy(p.config) /\ HoldsRules(p.config)

\* Written over the stored policy, an update takes away no rule that the user did
\* not pick; and unless remains of an earlier one were in the cache, it does what
\* the dialog said.
Does(m) ==
    /\ \A r : r \notin m.asked => Copies(r, server.config) <= Copies(r, m.config)
    /\ m.clean => Rules(m.config) = (Rules(server.config) (-) m.gone) (+) m.new

\* The contents of an update.
Contents(m) ==
    /\ m = [config |-> m.config, version |-> m.version, orig |-> m.orig, waits |-> m.waits,
            newest |-> m.newest, clean |-> m.clean, gone |-> m.gone, new |-> m.new,
            asked |-> m.asked, reread |-> m.reread]
    /\ Tidy(m.config) /\ HoldsRules(m.config)
    /\ m.clean \in BOOLEAN /\ m.reread \in BOOLEAN

\* An update under way. It does what it should if its version is still current.
Update(m) ==
    /\ Contents(m)
    /\ m.version \in Nat /\ m.version <= server.version
    /\ m.orig \in Nat /\ m.orig <= cache.gen
    /\ ~m.reread /\ m.version = server.version => Does(m)

\* The update started last does so if the page shows the current generation, and
\* has shown no other one since.
ToSendInv ==
    /\ Contents(toSend) /\ toSend.orig = 0
    /\ ~toSend.reread /\ cache.gen = server.gen => Does(toSend)

\* The cache: the stored policy, if its generation is current and nothing was
\* changed in it; what was changed took away no rule that the user did not pick.
CacheInv ==
    /\ cache.version <= server.version /\ cache.gen <= server.gen
    /\ cache.version = server.version => cache.gen = server.gen
    /\ cache.gen = server.gen =>
          /\ ~dirty => cache.config = server.config
          /\ \A r : r \notin asked => Copies(r, server.config) <= Copies(r, cache.config)

\* The dialog: to edit or to delete, it has a rule.
DialogInv ==
    /\ dialog \in {"closed", "add", "edit", "delete"}
    /\ selected = NoRule \/ IsRule(selected)
    /\ dialog \in {"edit", "delete"} => selected # NoRule

QueueInv ==
    /\ sent \in Seq(Range(sent)) /\ Len(sent) <= 2
    /\ \A m \in Range(sent) : Update(m)

CountInv == saves \in 0 .. MaxSaves /\ dirty \in BOOLEAN /\ \A r \in asked : IsRule(r)

\* The policies, and what is known of the cache and of the updates.
PolicyInv == Policy(server) /\ Policy(cache) /\ CacheInv /\ ToSendInv /\ QueueInv

\* The inductive invariant.
IndInv == PolicyInv /\ DialogInv /\ CountInv

(* The bounds, and the policy that is stored at first.                        *)
LEMMA Bounds ==
    /\ MaxVersion \in Nat /\ 1 \in 1 .. MaxVersion /\ MaxSaves \in Nat /\ 0 \in 0 .. MaxSaves
    /\ Tidy(FirstConfig) /\ HoldsRules(FirstConfig)
<1>1. MaxVersion \in Nat \ {0}
  BY PolicyAssumption
<1>2. MaxSaves \in Nat
  BY PolicyAssumption
<1>3. Tidy(FirstConfig)
  BY PolicyAssumption
<1>4. HoldsRules(FirstConfig)
  BY PolicyAssumption
<1> QED
  BY <1>1, <1>2, <1>3, <1>4

(* Versions and generations are numbers.                                      *)
LEMMA Numbers ==
    ASSUME NEW p, Policy(p)
    PROVE  p.version \in Nat \ {0} /\ p.gen \in Nat \ {0} /\ p.gen <= p.version
BY Bounds DEF Policy

(* It implies the types.                                                      *)
LEMMA InvTypes == IndInv => TypeOK
<1> SUFFICES ASSUME IndInv PROVE TypeOK
  OBVIOUS
<1>1. ASSUME NEW p \in {server, cache}
      PROVE  /\ p.version \in 1 .. MaxVersion /\ p.gen \in 1 .. p.version
             /\ \A r \in BagToSet(Rules(p.config)) : IsRule(r)
  <2>1. p.version \in 1 .. MaxVersion /\ p.gen \in 1 .. p.version /\ HoldsRules(p.config)
    BY DEF IndInv, PolicyInv, Policy
  <2> QED
    BY <2>1, TableRules
<1> QED
  BY <1>1 DEF TypeOK, IndInv, PolicyInv, DialogInv, QueueInv, CountInv

(* When no update is under way, nothing is known of the last one.             *)
LEMMA NothingToSend ==
    ASSUME toSend = NoUpdate
    PROVE  ToSendInv
<1>1. Contents(NoUpdate)
  BY Bounds DEF Contents, NoUpdate
<1> QED
  BY <1>1 DEF ToSendInv, NoUpdate

(* It holds at first.                                                         *)
LEMMA InitInv == Init => IndInv
<1> SUFFICES ASSUME Init PROVE IndInv
  OBVIOUS
<1>1. Policy(server) /\ cache = server
  BY Bounds DEF Init, Policy
<1>2. \A r : Copies(r, server.config) <= Copies(r, server.config)
  <2>1. HoldsRules(server.config)
    BY <1>1 DEF Policy
  <2> QED
    BY <2>1, CopiesCount
<1>3. CacheInv
  BY <1>1, <1>2, Numbers DEF CacheInv
<1>4. QueueInv
  <2>1. sent = <<>> /\ Range(<<>>) = {}
    BY DEF Init, Range
  <2>2. sent \in Seq({}) /\ Len(sent) = 0
    BY <2>1
  <2> QED
    BY <2>1, <2>2 DEF QueueInv
<1>5. DialogInv /\ CountInv
  BY Bounds DEF DialogInv, CountInv, Init
<1>6. Policy(cache)
  BY <1>1
<1>7. ToSendInv
  BY NothingToSend DEF Init
<1> QED
  BY <1>1, <1>3, <1>4, <1>5, <1>6, <1>7 DEF IndInv, PolicyInv

\* The stored policy has a later version, or is the same; its contents change
\* with the generation.
ServerGrows ==
    /\ server.version <= server'.version /\ server.gen <= server'.gen
    /\ server'.version = server.version => server' = server
    /\ server'.gen = server.gen => server'.config = server.config

(* Updates under way stay in order when the stored policy and the shown one   *)
(* change.                                                                    *)
LEMMA UpdateStays ==
    ASSUME NEW m, Update(m), ServerGrows, Policy(server), Policy(server)',
           Policy(cache), Policy(cache)', cache.gen <= cache'.gen
    PROVE  Update(m)'
<1>1. /\ m.version \in Nat /\ server.version \in Nat /\ server'.version \in Nat
      /\ m.orig \in Nat /\ cache.gen \in Nat /\ cache'.gen \in Nat
  BY Numbers DEF Update, Policy
<1>2. CASE server' = server
  BY <1>1, <1>2 DEF Update, Does, Contents
<1>3. CASE server' # server
  <2>1. m.version <= server'.version /\ m.version # server'.version
    BY <1>1, <1>3 DEF Update, ServerGrows
  <2> QED
    BY <1>1, <2>1 DEF Update, Contents
<1> QED
  BY <1>2, <1>3

(* So does the cache, when it is kept.                                        *)
LEMMA CacheStays ==
    ASSUME CacheInv, ServerGrows, Policy(server), Policy(server)', Policy(cache),
           cache' = cache, dirty' = dirty, asked' = asked
    PROVE  CacheInv'
<1>1. /\ cache.version \in Nat /\ server.version \in Nat /\ server'.version \in Nat
      /\ cache.gen \in Nat /\ server.gen \in Nat /\ server'.gen \in Nat
  BY Numbers DEF Policy
<1>2. cache.version <= server'.version /\ cache.gen <= server'.gen
  BY <1>1 DEF CacheInv, ServerGrows
<1>3. cache.version = server'.version => cache.gen = server'.gen
  BY <1>1 DEF CacheInv, ServerGrows
<1>4. cache.gen = server'.gen =>
        server'.config = server.config /\ cache.gen = server.gen
  BY <1>1 DEF CacheInv, ServerGrows
<1> QED
  BY <1>2, <1>3, <1>4 DEF CacheInv

(* So does what was started last, as long as the page shows no other          *)
(* generation.                                                                *)
LEMMA ToSendStays ==
    ASSUME ToSendInv, CacheInv, ServerGrows, Policy(server), Policy(server)',
           Policy(cache), cache'.gen = cache.gen, toSend' = toSend
    PROVE  ToSendInv'
<1>1. cache.gen \in Nat /\ server.gen \in Nat /\ server'.gen \in Nat
  BY Numbers DEF Policy
<1>2. cache.gen = server'.gen =>
        server'.config = server.config /\ cache.gen = server.gen
  BY <1>1 DEF CacheInv, ServerGrows
<1> QED
  BY <1>2 DEF ToSendInv, Contents, Does

(* A policy that was just read is the stored one.                             *)
LEMMA CacheRead ==
    ASSUME Policy(server)', cache' = server', asked' = {}
    PROVE  CacheInv' /\ Policy(cache)'
<1>1. HoldsRules(server'.config) /\ server'.version \in Int /\ server'.gen \in Int
  BY DEF Policy
<1>2. \A r : Copies(r, server'.config) <= Copies(r, server'.config)
  BY <1>1, CopiesCount
<1> QED
  BY <1>1, <1>2 DEF CacheInv, Policy

(* The page shows what was just read.                                         *)
LEMMA Shown ==
    ASSUME PolicyInv, ServerGrows, Policy(server)', Show(server')
    PROVE  /\ CacheInv' /\ Policy(cache)' /\ ToSendInv' /\ cache.gen <= cache'.gen
           /\ dirty' = FALSE /\ asked' = {}
<1>1. Policy(server) /\ Policy(cache) /\ CacheInv /\ ToSendInv
  BY DEF PolicyInv
<1>2. cache' = server' /\ dirty' = FALSE /\ asked' = {}
  BY DEF Show
<1>3. CacheInv' /\ Policy(cache)'
  BY <1>2, CacheRead
<1>4. cache.gen \in Nat /\ server.gen \in Nat /\ server'.gen \in Nat
  BY <1>1, Numbers DEF Policy
<1>5. cache.gen <= cache'.gen
  BY <1>1, <1>2, <1>4 DEF CacheInv, ServerGrows
<1>6. ToSendInv'
  <2>1. CASE toSend' = NoUpdate
    <3>1. Contents(NoUpdate)
      BY Bounds DEF Contents, NoUpdate
    <3> QED
      BY <2>1, <3>1 DEF ToSendInv, NoUpdate
  <2>2. CASE toSend' = [toSend EXCEPT !.reread = @ \/ server'.gen # cache.gen]
    <3> DEFINE again == toSend.reread \/ server'.gen # cache.gen
    <3>1. toSend' = [config |-> toSend.config, version |-> toSend.version,
                     orig |-> toSend.orig, waits |-> toSend.waits,
                     newest |-> toSend.newest, clean |-> toSend.clean,
                     gone |-> toSend.gone, new |-> toSend.new,
                     asked |-> toSend.asked, reread |-> again]
      BY <1>1, <2>2 DEF ToSendInv, Contents
    <3>2. again \in BOOLEAN
      OBVIOUS
    <3>3. ~again => ~toSend.reread /\ server'.gen = cache.gen
      OBVIOUS
    <3> HIDE DEF again
    <3>4. Contents(toSend)' /\ toSend'.orig = 0
      BY <1>1, <3>1, <3>2 DEF ToSendInv, Contents
    <3>5. ~again => Does(toSend)'
      <4> SUFFICES ASSUME ~again PROVE Does(toSend)'
        OBVIOUS
      <4>1. cache.gen = server.gen /\ server'.config = server.config
        BY <1>1, <1>4, <3>3 DEF CacheInv, ServerGrows
      <4>2. Does(toSend)
        BY <1>1, <3>3, <4>1 DEF ToSendInv
      <4> QED
        BY <3>1, <4>1, <4>2 DEF Does
    <3>6. toSend'.reread = again
      BY <3>1
    <3> QED
      BY <3>4, <3>5, <3>6 DEF ToSendInv
  <2> QED
    BY <2>1, <2>2 DEF Show
<1> QED
  BY <1>2, <1>3, <1>5, <1>6

(* The page keeps what it shows.                                              *)
LEMMA ShownKept ==
    ASSUME PolicyInv, ServerGrows, Policy(server)', KeepShown
    PROVE  /\ CacheInv' /\ Policy(cache)' /\ ToSendInv' /\ cache.gen <= cache'.gen
           /\ dirty' = dirty /\ asked' = asked
<1>1. Policy(server) /\ Policy(cache) /\ CacheInv /\ ToSendInv
  BY DEF PolicyInv
<1>2. cache' = cache /\ dirty' = dirty /\ asked' = asked
      /\ (toSend' = NoUpdate \/ toSend' = toSend)
  BY DEF KeepShown
<1>3. CacheInv'
  BY <1>1, <1>2, CacheStays
<1>4. Policy(cache)' /\ cache.gen <= cache'.gen
  BY <1>1, <1>2, Numbers DEF Policy
<1>5. ToSendInv'
  <2>1. CASE toSend' = NoUpdate
    <3>1. Contents(NoUpdate)
      BY Bounds DEF Contents, NoUpdate
    <3> QED
      BY <2>1, <3>1 DEF ToSendInv, NoUpdate
  <2>2. CASE toSend' = toSend
    BY <1>1, <1>2, <2>2, ToSendStays
  <2> QED
    BY <1>2, <2>1, <2>2
<1> QED
  BY <1>2, <1>3, <1>4, <1>5

(* The queue stays in order when its updates are those that were in it, with  *)
(* another generation to compare with.                                        *)
LEMMA QueueStays ==
    ASSUME QueueInv, ServerGrows, Policy(server), Policy(server)',
           Policy(cache), Policy(cache)', cache.gen <= cache'.gen,
           sent' = sent \/ (\E i \in DOMAIN sent : End(i))
    PROVE  QueueInv'
<1>1. sent' \in Seq(Range(sent')) /\ Len(sent') <= 2 /\ Range(sent') \subseteq Range(sent)
  <2>1. CASE sent' = sent
    BY <2>1 DEF QueueInv
  <2>2. ASSUME NEW i \in DOMAIN sent, End(i)
        PROVE  sent' \in Seq(Range(sent')) /\ Len(sent') <= 2
               /\ Range(sent') \subseteq Range(sent)
    <3>1. sent \in Seq(Range(sent)) /\ Len(sent) <= 2 /\ sent' = RemoveAt(sent, i)
      BY <2>2 DEF QueueInv, End
    <3> QED
      BY <3>1, QueueWithout
  <2> QED
    BY <2>1, <2>2
<1>2. ASSUME NEW m \in Range(sent') PROVE Update(m)'
  <2>1. Update(m)
    BY <1>1 DEF QueueInv
  <2> QED
    BY <2>1, UpdateStays
<1> QED
  BY <1>1, <1>2 DEF QueueInv

(* An update that is given the generation of the page stays in order.         *)
LEMMA RenderedStays ==
    ASSUME NEW m, Update(m), Policy(cache), NEW z
    PROVE  /\ Update([Rendered(m) EXCEPT !.newest = z])
           /\ Update([Rendered(m) EXCEPT !.waits = z])
<1> DEFINE orig == IF m.orig = 0 THEN cache.gen ELSE m.orig
           Rec(n, w) == [config |-> m.config, version |-> m.version, orig |-> orig,
                         waits |-> w, newest |-> n, clean |-> m.clean,
                         gone |-> m.gone, new |-> m.new, asked |-> m.asked,
                         reread |-> m.reread]
<1>1. Rendered(m) = Rec(m.newest, m.waits)
  BY DEF Rendered, Update, Contents
<1>2. orig \in Nat /\ orig <= cache.gen
  BY Numbers DEF Update
<1> HIDE DEF orig
<1>3. /\ [Rendered(m) EXCEPT !.newest = z] = Rec(z, m.waits)
      /\ [Rendered(m) EXCEPT !.waits = z] = Rec(m.newest, z)
  BY <1>1
<1>4. ASSUME NEW n, NEW w PROVE Update(Rec(n, w))
  <2>1. /\ Rec(n, w).config = m.config /\ Rec(n, w).version = m.version
        /\ Rec(n, w).orig = orig /\ Rec(n, w).clean = m.clean /\ Rec(n, w).gone = m.gone
        /\ Rec(n, w).new = m.new /\ Rec(n, w).asked = m.asked
        /\ Rec(n, w).reread = m.reread
    OBVIOUS
  <2>2. Contents(Rec(n, w))
    BY DEF Update, Contents
  <2> HIDE DEF Rec
  <2>3. Does(m) => Does(Rec(n, w))
    BY <2>1 DEF Does
  <2> QED
    BY <1>2, <2>1, <2>2, <2>3 DEF Update
<1> QED
  BY <1>3, <1>4

(* So do all that were started before the newest.                             *)
LEMMA BeforeStays ==
    ASSUME Policy(cache), NEW s, s \in Seq(Range(s)), \A m \in Range(s) : Update(m)
    PROVE  /\ Before(s) \in Seq(Range(Before(s))) /\ Len(Before(s)) = Len(s)
           /\ \A m \in Range(Before(s)) : Update(m)
<1>1. DOMAIN Before(s) = DOMAIN s /\ Before(s) = [i \in DOMAIN Before(s) |-> Before(s)[i]]
  BY DEF Before
<1>2. Before(s) \in Seq(Range(Before(s))) /\ Len(Before(s)) = Len(s)
  BY <1>1, QueueOf
<1>3. ASSUME NEW m \in Range(Before(s)) PROVE Update(m)
  <2>1. PICK i \in DOMAIN s : m = [Rendered(s[i]) EXCEPT !.newest = FALSE]
    BY <1>1 DEF Range, Before
  <2>2. Update(s[i])
    BY DEF Range
  <2> QED
    BY <2>1, <2>2, RenderedStays
<1> QED
  BY <1>2, <1>3

(* An update that is started joins the others.                                *)
LEMMA QueueGrows ==
    ASSUME Policy(cache), NEW s, s \in Seq(Range(s)), \A u \in Range(s) : Update(u),
           Len(s) < 2, NEW m, Update(m),
           sent' = Append(Before(s), m), server' = server, cache'.gen = cache.gen
    PROVE  QueueInv'
<1>1. /\ Before(s) \in Seq(Range(Before(s))) /\ Len(Before(s)) = Len(s)
      /\ \A u \in Range(Before(s)) : Update(u)
  BY BeforeStays
<1> DEFINE b == Before(s)
<1> HIDE DEF b
<1>2. b \in Seq(Range(b)) /\ Len(b) < 2 /\ sent' = Append(b, m)
      /\ \A u \in Range(b) : Update(u)
  BY <1>1 DEF b
<1>3. sent' \in Seq(Range(sent')) /\ Range(sent') = Range(b) \cup {m}
  BY <1>2, AppendRange
<1>4. Len(sent') <= 2
  <2>1. Len(b) \in Nat /\ b \in Seq(Range(b) \cup {m})
    BY <1>2, LenProperties, SeqMonotonic
  <2> QED
    BY <1>2, <2>1, AppendProperties
<1>5. ASSUME NEW u \in Range(sent') PROVE Update(u)'
  <2>1. Update(u)
    BY <1>2, <1>3
  <2> QED
    BY <2>1 DEF Update, Does, Contents
<1> QED
  BY <1>3, <1>4, <1>5 DEF QueueInv

(* A policy that is written is a new version, or was the stored one.          *)
LEMMA Written ==
    ASSUME Policy(server), NEW config, Tidy(config), HoldsRules(config),
           server.version < MaxVersion, server' = Newer(config)
    PROVE  Policy(server)' /\ ServerGrows /\ server'.config = config
<1> DEFINE step == IF config = server.config THEN 0 ELSE 1
<1>1. server' = [config |-> config, version |-> server.version + step,
                 gen |-> server.gen + step]
  BY DEF Newer
<1>2. /\ server = [config |-> server.config, version |-> server.version,
                   gen |-> server.gen]
      /\ server.version \in 1 .. MaxVersion /\ server.gen \in 1 .. server.version
  BY DEF Policy
<1>3. MaxVersion \in Nat
  BY Bounds
<1>4. Policy(server)'
  BY <1>1, <1>2, <1>3 DEF Policy
<1>5. server.version <= server'.version /\ server.gen <= server'.gen
  BY <1>1, <1>2
<1>6. ASSUME step = 0 PROVE server' = server
  BY <1>1, <1>2, <1>6
<1>7. step = 0 \/ (server'.version # server.version /\ server'.gen # server.gen)
  BY <1>1, <1>2
<1>8. server'.config = config
  BY <1>1
<1> HIDE DEF step
<1> QED
  BY <1>4, <1>5, <1>6, <1>7, <1>8 DEF ServerGrows

(* A policy that is not written stays as it is.                               *)
LEMMA NotWritten ==
    ASSUME Policy(server), server' = server
    PROVE  Policy(server)' /\ ServerGrows
BY Numbers DEF ServerGrows, Policy

(* The policy in the cache, changed by a save: the picked rule is out, if     *)
(* there is one, and the one that was entered is in.                          *)
LEMMA SentInOrder ==
    ASSUME IndInv, MaySave, NEW config, NEW G, NEW N,
           Tidy(config), HoldsRules(config), \A r \in G : IsRule(r),
           Changes(cache.config, config, G, N),
           Send(config, SetToBag(G), SetToBag(N))
    PROVE  IndInv'
<1> DEFINE m == [config |-> config, version |-> cache.version, orig |-> 0,
                 waits |-> FALSE, newest |-> TRUE, clean |-> ~dirty,
                 gone |-> SetToBag(G), new |-> SetToBag(N),
                 asked |-> asked \cup G, reread |-> FALSE]
<1>1. BagToSet(SetToBag(G)) = G
  BY DEF BagToSet, SetToBag
<1>2. /\ cache' = [cache EXCEPT !.config = config] /\ toSend' = m
      /\ sent' = Append(Before(sent), m)
      /\ dirty' = TRUE /\ asked' = asked \cup G /\ saves' = saves + 1
      /\ server' = server /\ dialog' = dialog /\ selected' = selected
  BY <1>1 DEF Send, NewUpdate
<1>3. /\ cache = [config |-> cache.config, version |-> cache.version, gen |-> cache.gen]
      /\ HoldsRules(cache.config) /\ HoldsRules(server.config)
      /\ cache.version \in Nat /\ server.version \in Nat
      /\ cache.gen \in Nat /\ server.gen \in Nat
      /\ cache.version <= server.version
      /\ Policy(cache) /\ Policy(server) /\ CacheInv
  BY Numbers DEF IndInv, PolicyInv, Policy, CacheInv
<1>4. cache' = [config |-> config, version |-> cache.version, gen |-> cache.gen]
  BY <1>2, <1>3
<1>5. Policy(cache)' /\ Policy(server)'
  BY <1>2, <1>3, <1>4 DEF Policy
<1>6. ASSUME cache.gen = server.gen, NEW r, r \notin asked \cup G
      PROVE  Copies(r, server.config) <= Copies(r, config)
  <2>1. Copies(r, server.config) <= Copies(r, cache.config)
    BY <1>3, <1>6 DEF CacheInv
  <2>2. Copies(r, server.config) \in Nat /\ Copies(r, cache.config) \in Nat
    BY <1>3, CopiesCount
  <2>3. Copies(r, config) = Copies(r, cache.config) + IF r \in N THEN 1 ELSE 0
    BY <1>6, <2>2 DEF Changes
  <2> QED
    BY <2>1, <2>2, <2>3
<1>7. CacheInv'
  BY <1>2, <1>3, <1>4, <1>6 DEF CacheInv
<1>8. /\ m.config = config /\ m.version = cache.version /\ m.clean = ~dirty /\ m.orig = 0
      /\ m.gone = SetToBag(G) /\ m.new = SetToBag(N) /\ m.asked = asked \cup G
  OBVIOUS
<1>9. Contents(m)
  BY DEF Contents
<1>10. ASSUME cache.gen = server.gen PROVE Does(m)
  <2> HIDE DEF m
  <2>1. ASSUME ~dirty
        PROVE  Rules(config) = (Rules(server.config) (-) SetToBag(G)) (+) SetToBag(N)
    <3>1. cache.config = server.config
      BY <1>3, <1>10, <2>1 DEF CacheInv
    <3>2. Changes(server.config, config, G, N)
      BY <3>1
    <3> QED
      BY <1>3, <3>2, TableOfChange
  <2>2. m.clean => ~dirty
    BY Zenon, <1>8
  <2> QED
    BY <1>6, <1>8, <1>10, <2>1, <2>2 DEF Does
<1> HIDE DEF m
<1>11. Update(m)
  <2>1. m.version = server.version => Does(m)
    BY <1>3, <1>8, <1>10 DEF CacheInv
  <2> QED
    BY <1>3, <1>8, <1>9, <2>1 DEF Update
<1>12. ToSendInv'
  BY <1>2, <1>4, <1>8, <1>9, <1>10 DEF ToSendInv, Contents, Does
<1>13. QueueInv'
  <2>1. /\ sent \in Seq(Range(sent)) /\ Len(sent) < 2
        /\ \A u \in Range(sent) : Update(u)
    BY DEF IndInv, PolicyInv, QueueInv, MaySave
  <2> QED
    BY <1>2, <1>3, <1>4, <1>11, <2>1, QueueGrows
<1>14. DialogInv' /\ CountInv'
  <2>1. saves' \in 0 .. MaxSaves
    BY <1>2, Bounds DEF IndInv, CountInv, MaySave
  <2> QED
    BY <1>2, <2>1 DEF IndInv, DialogInv, CountInv
<1> QED
  BY <1>5, <1>7, <1>12, <1>13, <1>14 DEF IndInv, PolicyInv

(* What the dialog lets through becomes a rule as Kubernetes takes it.        *)
LEMMA EnteredRule ==
    ASSUME NEW r \in FormInputs \cup Foreign, ValidRule(r)
    PROVE  Placed(r) /\ IsRule(RuleOf(r))
<1>1. /\ r.component \in Components /\ r.type \in AffinityTypes
      /\ r.priority \in Priorities /\ r.op \in {""} \cup Operators
  BY PolicyAssumption
<1> QED
  BY <1>1, RuleOfType DEF Placed

(* What other clients add is such a rule, too.                                *)
LEMMA ValidForeign ==
    ASSUME NEW r \in Foreign
    PROVE  ValidRule(r)
BY PolicyAssumption

(* The cache without the picked rule.                                         *)
LEMMA PickedOut ==
    ASSUME IndInv, NEW picked, picked = IF selected = NoRule THEN {} ELSE {selected},
           NEW base, base = Without(cache.config)
    PROVE  /\ Tidy(base) /\ HoldsRules(base) /\ \A r \in picked : IsRule(r)
           /\ \A x : Copies(x, base) =
                Copies(x, cache.config)
                  - IF x \in picked /\ Copies(x, cache.config) # 0 THEN 1 ELSE 0
<1>1. Tidy(cache.config) /\ HoldsRules(cache.config)
  BY DEF IndInv, PolicyInv, Policy
<1>2. CASE selected = NoRule
  <2>1. base = cache.config /\ picked = {}
    BY <1>2 DEF Without
  <2>2. \A x : Copies(x, cache.config) \in Nat
    BY <1>1, CopiesCount
  <2> QED
    BY <1>1, <2>1, <2>2
<1>3. CASE selected # NoRule
  <2>1. base = RemoveRule(cache.config, selected) /\ picked = {selected}
    BY <1>3 DEF Without
  <2>2. IsRule(selected) /\ Placed(selected)
    BY <1>3 DEF IndInv, DialogInv, IsRule, Placed
  <2>3. Tidy(base) /\ HoldsRules(base)
    BY <1>1, <2>1, <2>2, RemoveTidy, RemoveHolds
  <2>4. \A x : Copies(x, base) = Copies(x, cache.config)
                 - IF x = selected /\ Copies(selected, cache.config) # 0 THEN 1 ELSE 0
    BY <1>1, <2>1, <2>2, RemoveCopies
  <2> QED
    BY <2>1, <2>2, <2>3, <2>4
<1> QED
  BY <1>2, <1>3

(* "Save" in the dialog keeps the invariant.                                  *)
LEMMA SubmitStep ==
    ASSUME IndInv, NEW r \in FormInputs, Submit(r)
    PROVE  IndInv'
<1> DEFINE picked == IF selected = NoRule THEN {} ELSE {selected}
           base == Without(cache.config)
           config == InsertRule(base, r)
<1>1. /\ Tidy(base) /\ HoldsRules(base) /\ \A x \in picked : IsRule(x)
      /\ \A x : Copies(x, base) = Copies(x, cache.config)
                  - IF x \in picked /\ Copies(x, cache.config) # 0 THEN 1 ELSE 0
  BY PickedOut
<1>2. Placed(r) /\ IsRule(RuleOf(r))
  BY EnteredRule DEF Submit
<1>3. MaySave
  BY DEF Submit
<1>4. \/ /\ cache' = [cache EXCEPT !.config = base]
         /\ dirty' = (dirty \/ base # cache.config) /\ asked' = asked \cup picked
         /\ UNCHANGED <<server, toSend, dialog, selected, sent, saves>>
      \/ Send(config, SetToBag(picked), SetToBag({RuleOf(r)}))
  BY DEF Submit
<1> HIDE DEF picked, base
<1>5. ASSUME Send(config, SetToBag(picked), SetToBag({RuleOf(r)}))
      PROVE  IndInv'
  <2>1. Tidy(config) /\ HoldsRules(config)
    BY <1>1, <1>2, InsertTidy, InsertHolds
  <2>2. \A x : Copies(x, config) = Copies(x, base) + IF x = RuleOf(r) THEN 1 ELSE 0
    BY <1>1, <1>2, InsertCopies
  <2> HIDE DEF config
  <2>3. Changes(cache.config, config, picked, {RuleOf(r)})
    BY <1>1, <2>2 DEF Changes
  <2> QED
    BY <1>1, <1>3, <1>5, <2>1, <2>3, SentInOrder
<1>6. ASSUME cache' = [cache EXCEPT !.config = base],
             dirty' = (dirty \/ base # cache.config), asked' = asked \cup picked,
             UNCHANGED <<server, toSend, dialog, selected, sent, saves>>
      PROVE  IndInv'
  <2>1. /\ cache = [config |-> cache.config, version |-> cache.version, gen |-> cache.gen]
        /\ HoldsRules(cache.config) /\ HoldsRules(server.config)
        /\ Policy(cache) /\ Policy(server) /\ CacheInv /\ ToSendInv /\ QueueInv
    BY DEF IndInv, PolicyInv, Policy
  <2>2. cache' = [config |-> base, version |-> cache.version, gen |-> cache.gen]
    BY <1>6, <2>1
  <2>3. Policy(cache)' /\ Policy(server)'
    BY <1>1, <1>6, <2>1, <2>2 DEF Policy
  <2>4. ASSUME cache.gen = server.gen, NEW x, x \notin asked \cup picked
        PROVE  Copies(x, server.config) <= Copies(x, base)
    <3>1. Copies(x, server.config) <= Copies(x, cache.config)
      BY <2>1, <2>4 DEF CacheInv
    <3>2. Copies(x, server.config) \in Nat /\ Copies(x, cache.config) \in Nat
      BY <2>1, CopiesCount
    <3>3. Copies(x, base) = Copies(x, cache.config)
      BY <1>1, <2>4, <3>2
    <3> QED
      BY <3>1, <3>3
  <2>5. ~dirty' => ~dirty /\ base = cache.config
    BY <1>6
  <2>6. CacheInv'
    BY <1>6, <2>1, <2>2, <2>4, <2>5 DEF CacheInv
  <2>7. ServerGrows /\ cache'.gen = cache.gen /\ cache.gen <= cache'.gen
    BY <1>6, <2>1, <2>2, NotWritten, Numbers
  <2>8. QueueInv'
    BY <1>6, <2>1, <2>3, <2>7, QueueStays
  <2>9. ToSendInv'
    BY <1>6, <2>1, <2>3, <2>7, ToSendStays
  <2>10. DialogInv' /\ CountInv'
    BY <1>1, <1>6 DEF IndInv, DialogInv, CountInv
  <2> QED
    BY <2>3, <2>6, <2>8, <2>9, <2>10 DEF IndInv, PolicyInv
<1> QED
  BY <1>4, <1>5, <1>6

(* So does "Delete" in the dialog.                                            *)
LEMMA DeleteStep ==
    ASSUME IndInv, ConfirmDelete
    PROVE  IndInv'
<1> DEFINE config == RemoveRule(cache.config, selected)
<1>1. Tidy(cache.config) /\ HoldsRules(cache.config)
  BY DEF IndInv, PolicyInv, Policy
<1>2. dialog = "delete" /\ MaySave /\ Send(config, SetToBag({selected}), SetToBag({}))
  BY DEF ConfirmDelete, EmptyBag
<1>3. IsRule(selected) /\ Placed(selected)
  BY <1>2 DEF IndInv, DialogInv, IsRule, Placed
<1>4. Tidy(config) /\ HoldsRules(config)
  BY <1>1, <1>3, RemoveTidy, RemoveHolds
<1>5. \A x : Copies(x, config) = Copies(x, cache.config)
               - IF x = selected /\ Copies(selected, cache.config) # 0 THEN 1 ELSE 0
  BY <1>1, <1>3, RemoveCopies
<1>6. \A x : Copies(x, cache.config) \in Nat
  BY <1>1, CopiesCount
<1> HIDE DEF config
<1>7. Changes(cache.config, config, {selected}, {})
  BY <1>5, <1>6 DEF Changes
<1> QED
  BY <1>2, <1>3, <1>4, <1>7, SentInOrder

(* What an update is written as.                                              *)
LEMMA UpdateWritten ==
    ASSUME PolicyInv, NEW i \in DOMAIN sent, server.version < MaxVersion,
           server' = Newer(sent[i].config)
    PROVE  /\ Policy(server)' /\ ServerGrows /\ server'.config = sent[i].config
           /\ Update(sent[i])
<1>1. Update(sent[i])
  BY DEF PolicyInv, QueueInv, Range
<1>2. Tidy(sent[i].config) /\ HoldsRules(sent[i].config)
  BY <1>1 DEF Update, Contents
<1> QED
  BY <1>1, <1>2, Written DEF PolicyInv

(* An answer that ends an update keeps what is known of the policies.         *)
LEMMA AnswerStep ==
    ASSUME PolicyInv, Policy(server)', ServerGrows,
           NEW i \in DOMAIN sent, sent' = sent \/ End(i), Show(server') \/ KeepShown
    PROVE  PolicyInv'
<1>1. CacheInv' /\ Policy(cache)' /\ ToSendInv' /\ cache.gen <= cache'.gen
  BY Shown, ShownKept
<1>2. QueueInv'
  BY <1>1, QueueStays DEF PolicyInv
<1> QED
  BY <1>1, <1>2 DEF PolicyInv

(* So does a refusal after which the hook waits.                              *)
LEMMA WaitStep ==
    ASSUME PolicyInv, server' = server, KeepShown, NEW i \in DOMAIN sent,
           sent' = [sent EXCEPT ![i] = [Rendered(@) EXCEPT !.waits = TRUE]]
    PROVE  PolicyInv'
<1>1. Policy(server) /\ Policy(cache) /\ QueueInv
  BY DEF PolicyInv
<1>2. Policy(server)' /\ ServerGrows
  BY <1>1, NotWritten
<1>3. CacheInv' /\ Policy(cache)' /\ ToSendInv' /\ cache.gen <= cache'.gen
  BY <1>2, ShownKept
<1>4. sent \in Seq(Range(sent)) /\ Len(sent) <= 2 /\ \A m \in Range(sent) : Update(m)
  BY <1>1 DEF QueueInv
<1> DEFINE u == [Rendered(sent[i]) EXCEPT !.waits = TRUE]
<1>5. Update(u)
  BY <1>1, <1>4, RenderedStays DEF Range
<1>6. /\ DOMAIN sent' = DOMAIN sent /\ sent' = [k \in DOMAIN sent' |-> sent'[k]]
      /\ \A k \in DOMAIN sent : sent'[k] = IF k = i THEN u ELSE sent[k]
  OBVIOUS
<1> HIDE DEF u
<1>7. sent' \in Seq(Range(sent')) /\ Len(sent') = Len(sent)
  BY <1>4, <1>6, QueueOf
<1>8. ASSUME NEW m \in Range(sent') PROVE Update(m)'
  <2>1. Update(m)
    BY <1>4, <1>5, <1>6 DEF Range
  <2> QED
    BY <1>1, <1>2, <1>3, <2>1, UpdateStays
<1>9. QueueInv'
  BY <1>4, <1>7, <1>8 DEF QueueInv
<1> QED
  BY <1>2, <1>3, <1>9 DEF PolicyInv

(* So does sending again: the page has the generation that was read, and what *)
(* is sent does what it should with it.                                       *)
LEMMA ResendStep ==
    ASSUME PolicyInv, server' = server, NEW i \in DOMAIN sent,
           NEW fresh \in {server, cache}, fresh.gen = sent[i].orig,
           sent' = Append(Before(RemoveAt(sent, i)), [toSend EXCEPT !.version = fresh.version]),
           (fresh = server /\ Show(server')) \/ (fresh = cache /\ KeepShown)
    PROVE  PolicyInv'
<1>1. Policy(server) /\ Policy(cache) /\ QueueInv /\ CacheInv /\ ToSendInv
  BY DEF PolicyInv
<1>2. Policy(server)' /\ ServerGrows
  BY <1>1, NotWritten
<1>3. CacheInv' /\ Policy(cache)' /\ ToSendInv' /\ cache.gen <= cache'.gen
  BY <1>2, Shown, ShownKept
<1>4. sent \in Seq(Range(sent)) /\ Len(sent) <= 2 /\ \A m \in Range(sent) : Update(m)
  BY <1>1 DEF QueueInv
<1>5. /\ cache.gen \in Nat /\ server.gen \in Nat /\ cache.gen <= server.gen
      /\ cache.version \in Nat /\ server.version \in Nat
      /\ cache.version <= server.version
  BY <1>1, Numbers DEF CacheInv
<1>6. sent[i].orig <= cache.gen /\ sent[i].orig \in Nat
  BY <1>4 DEF Range, Update
<1>7. fresh.gen = cache.gen /\ fresh.version \in Nat /\ fresh.version <= server.version
  BY <1>5, <1>6
<1>8. fresh.version = server.version => cache.gen = server.gen
  BY <1>1, <1>7 DEF CacheInv
<1>9. cache'.gen = cache.gen
  <2>1. CASE KeepShown
    BY <2>1 DEF KeepShown
  <2>2. CASE fresh = server /\ Show(server')
    BY <1>7, <2>2 DEF Show
  <2> QED
    BY <2>1, <2>2
<1> DEFINE m == [toSend EXCEPT !.version = fresh.version]
           s == RemoveAt(sent, i)
<1>10. m = [config |-> toSend.config, version |-> fresh.version, orig |-> toSend.orig,
            waits |-> toSend.waits, newest |-> toSend.newest, clean |-> toSend.clean,
            gone |-> toSend.gone, new |-> toSend.new, asked |-> toSend.asked,
            reread |-> toSend.reread]
  BY <1>1 DEF ToSendInv, Contents
<1>11. Update(m)
  <2>1. Contents(m) /\ m.version = fresh.version /\ m.orig = 0 /\ m.reread = toSend.reread
    BY <1>1, <1>10 DEF ToSendInv, Contents
  <2>2. Does(toSend) => Does(m)
    BY <1>10 DEF Does
  <2> HIDE DEF m
  <2> QED
    BY <1>1, <1>5, <1>7, <1>8, <2>1, <2>2 DEF ToSendInv, Update
<1>12. /\ s \in Seq(Range(s)) /\ Len(s) < 2 /\ \A u \in Range(s) : Update(u)
  BY <1>4, QueueWithout
<1> HIDE DEF m, s
<1>13. sent' = Append(Before(s), m)
  BY DEF m, s
<1>14. QueueInv'
  BY <1>1, <1>9, <1>11, <1>12, <1>13, QueueGrows
<1> QED
  BY <1>2, <1>3, <1>14 DEF PolicyInv

(* Each action keeps the invariant.                                           *)
LEMMA NextInv == IndInv /\ [Next]_vars => IndInv'
<1> SUFFICES ASSUME IndInv, [Next]_vars PROVE IndInv'
  OBVIOUS
<1>1. /\ PolicyInv /\ DialogInv /\ CountInv
      /\ Policy(server) /\ Policy(cache) /\ CacheInv /\ ToSendInv /\ QueueInv
  BY DEF IndInv, PolicyInv
<1>2. ASSUME server' = server PROVE ServerGrows /\ Policy(server)'
  BY <1>1, <1>2, NotWritten
<1>3. ASSUME UNCHANGED <<server, cache, toSend, sent, saves, dirty, asked>>, DialogInv'
      PROVE  IndInv'
  <2>1. PolicyInv'
    BY <1>1, <1>3 DEF PolicyInv, Policy, CacheInv, ToSendInv, QueueInv, Update, Contents,
                      Does
  <2>2. CountInv'
    BY <1>1, <1>3 DEF CountInv
  <2> QED
    BY <1>3, <2>1, <2>2 DEF IndInv
<1>4. ASSUME ServerGrows, Policy(server)',
             UNCHANGED <<cache, toSend, dialog, selected, sent, saves, dirty, asked>>
      PROVE  IndInv'
  <2>1. CacheInv' /\ Policy(cache)' /\ cache.gen <= cache'.gen
    BY <1>1, <1>4, CacheStays, Numbers DEF Policy
  <2>2. ToSendInv'
    BY <1>1, <1>4, ToSendStays
  <2>3. QueueInv'
    BY <1>1, <1>4, <2>1, QueueStays
  <2>4. DialogInv' /\ CountInv'
    BY <1>1, <1>4 DEF DialogInv, CountInv
  <2> QED
    BY <1>4, <2>1, <2>2, <2>3, <2>4 DEF IndInv, PolicyInv
<1>5. CASE OpenAdd
  <2>1. DialogInv'
    BY <1>5 DEF OpenAdd, DialogInv
  <2> QED
    BY <1>3, <1>5, <2>1 DEF OpenAdd
<1>6. ASSUME NEW kind \in {"edit", "delete"}, NEW r \in BagToSet(Rules(cache.config)),
             OpenRule(kind, r)
      PROVE  IndInv'
  <2>1. IsRule(r)
    BY <1>1, TableRules DEF Policy
  <2>2. r # NoRule
    <3>1. NoRule.component = "none"
      BY DEF NoRule
    <3> QED
      BY <2>1, <3>1 DEF IsRule, Components
  <2>3. DialogInv'
    BY <1>6, <2>1, <2>2 DEF OpenRule, DialogInv
  <2> QED
    BY <1>3, <1>6, <2>3 DEF OpenRule
<1>7. CASE Close
  <2>1. DialogInv'
    BY <1>7 DEF Close, DialogInv
  <2> QED
    BY <1>3, <1>7, <2>1 DEF Close
<1>8. CASE ConfirmDelete
  BY <1>8, DeleteStep
<1>9. ASSUME NEW r \in FormInputs, Submit(r) PROVE IndInv'
  BY <1>9, SubmitStep
<1>10. CASE Fetch
  <2>1. Show(server') /\ server' = server /\ UNCHANGED <<dialog, selected, sent, saves>>
    BY <1>10 DEF Fetch
  <2>2. CacheInv' /\ Policy(cache)' /\ ToSendInv' /\ cache.gen <= cache'.gen
        /\ dirty' = FALSE /\ asked' = {}
    BY <1>1, <1>2, <2>1, Shown
  <2>3. QueueInv'
    BY <1>1, <1>2, <2>1, <2>2, QueueStays
  <2>4. DialogInv' /\ CountInv'
    BY <1>1, <2>1, <2>2 DEF DialogInv, CountInv
  <2> QED
    BY <1>2, <2>1, <2>2, <2>3, <2>4 DEF IndInv, PolicyInv
<1>11. ASSUME NEW i \in DOMAIN sent, Accept(i) PROVE IndInv'
  <2>1. /\ server.version < MaxVersion /\ server' = Newer(sent[i].config)
        /\ End(i) /\ Show(server')
        /\ dialog' = "closed" /\ selected' = NoRule /\ saves' = saves
    BY <1>11 DEF Accept
  <2>2. Policy(server)' /\ ServerGrows
    BY <1>1, <2>1, UpdateWritten
  <2>3. PolicyInv'
    BY <1>1, <2>1, <2>2, AnswerStep
  <2>4. DialogInv' /\ CountInv'
    BY <1>1, <2>1 DEF DialogInv, CountInv, Show
  <2> QED
    BY <2>3, <2>4 DEF IndInv
<1>12. ASSUME NEW i \in DOMAIN sent, Refuse(i) PROVE IndInv'
  <2>1. /\ \/ sent' = [sent EXCEPT ![i] = [Rendered(@) EXCEPT !.waits = TRUE]]
           \/ End(i)
        /\ KeepShown /\ server' = server /\ UNCHANGED <<dialog, selected, saves>>
    BY <1>12 DEF Refuse
  <2>2. PolicyInv'
    BY <1>1, <1>2, <2>1, WaitStep, AnswerStep
  <2>3. DialogInv' /\ CountInv'
    BY <1>1, <2>1 DEF DialogInv, CountInv, KeepShown
  <2> QED
    BY <2>2, <2>3 DEF IndInv
<1>13. ASSUME NEW i \in DOMAIN sent, ReadAgain(i) PROVE IndInv'
  <2>1. PICK fresh \in {server, cache} :
          /\ IF ToResend(sent[i], fresh)
             THEN sent' = Append(Before(RemoveAt(sent, i)),
                                 [toSend EXCEPT !.version = fresh.version])
             ELSE End(i)
          /\ \/ fresh = server /\ Show(fresh)
             \/ fresh = cache /\ KeepShown
    BY <1>13 DEF ReadAgain
  <2>2. server' = server /\ UNCHANGED <<dialog, selected, saves>>
    BY <1>13 DEF ReadAgain
  <2>3. Show(server') \/ KeepShown
    BY <2>1, <2>2
  <2>4. PolicyInv'
    <3>1. CASE ToResend(sent[i], fresh)
      BY <1>1, <2>1, <2>2, <2>3, <3>1, ResendStep DEF ToResend
    <3>2. CASE ~ToResend(sent[i], fresh)
      BY <1>1, <1>2, <2>1, <2>2, <2>3, <3>2, AnswerStep
    <3> QED
      BY <3>1, <3>2
  <2>5. DialogInv' /\ CountInv'
    BY <1>1, <2>2, <2>3 DEF DialogInv, CountInv, Show, KeepShown
  <2> QED
    BY <2>4, <2>5 DEF IndInv
<1>14. ASSUME NEW i \in DOMAIN sent, Fail(i) PROVE IndInv'
  <2>1. End(i) /\ KeepShown /\ UNCHANGED <<dialog, selected, saves>>
    BY <1>14 DEF Fail
  <2>2. \/ server' = server
        \/ server.version < MaxVersion /\ server' = Newer(sent[i].config)
    BY <1>14 DEF Fail
  <2>3. Policy(server)' /\ ServerGrows
    BY <1>1, <1>2, <2>2, UpdateWritten
  <2>4. PolicyInv'
    BY <1>1, <2>1, <2>3, AnswerStep
  <2>5. DialogInv' /\ CountInv'
    BY <1>1, <2>1 DEF DialogInv, CountInv, KeepShown
  <2> QED
    BY <2>4, <2>5 DEF IndInv
<1>15. ASSUME NEW r \in Foreign, Elsewhere(r) PROVE IndInv'
  <2>1. /\ server.version < MaxVersion /\ server' = Newer(InsertRule(server.config, r))
        /\ UNCHANGED <<cache, toSend, dialog, selected, sent, saves, dirty, asked>>
    BY <1>15 DEF Elsewhere
  <2>2. Placed(r) /\ IsRule(RuleOf(r))
    BY EnteredRule, ValidForeign
  <2>3. Tidy(InsertRule(server.config, r)) /\ HoldsRules(InsertRule(server.config, r))
    BY <1>1, <2>2, InsertTidy, InsertHolds DEF Policy
  <2>4. Policy(server)' /\ ServerGrows
    BY <1>1, <2>1, <2>3, Written
  <2> QED
    BY <1>4, <2>1, <2>4
<1>16. CASE Operator
  <2>1. /\ server.version < MaxVersion /\ server' = [server EXCEPT !.version = @ + 1]
        /\ UNCHANGED <<cache, toSend, dialog, selected, sent, saves, dirty, asked>>
    BY <1>16 DEF Operator
  <2>2. server' = [config |-> server.config, version |-> server.version + 1,
                   gen |-> server.gen]
    BY <1>1, <2>1 DEF Policy
  <2>3. Policy(server)' /\ ServerGrows
    BY <1>1, <2>1, <2>2, Bounds DEF Policy, ServerGrows
  <2> QED
    BY <1>4, <2>1, <2>3
<1>17. CASE UNCHANGED vars
  <2>1. DialogInv'
    BY <1>1, <1>17 DEF vars, DialogInv
  <2> QED
    BY <1>3, <1>17, <2>1 DEF vars
<1> QED
  BY <1>5, <1>6, <1>7, <1>8, <1>9, <1>10, <1>11, <1>12, <1>13, <1>14, <1>15, <1>16, <1>17
     DEF Next

-----------------------------------------------------------------------------
(* The theorems. *)

(* The invariant holds of every state.                                        *)
LEMMA Invariant == Spec => []IndInv
BY InitInv, NextInv, PTL DEF Spec

(* Whatever is entered, added elsewhere, refused or lost, the tables of the   *)
(* page and of the server show only rules that Kubernetes takes, and no more  *)
(* than two updates are under way.                                            *)
THEOREM RulesOnly == Spec => []TypeOK
BY Invariant, InvTypes, PTL

(* Neither adding nor taking out a rule ever leaves an empty list or an empty *)
(* level in the stored policy.                                                *)
THEOREM StoredInOrder == Spec => []WellFormed
<1>1. IndInv => WellFormed
  BY DEF IndInv, PolicyInv, Policy, WellFormed
<1> QED
  BY <1>1, Invariant, PTL

(* A save that the server takes does to the table what the dialog said, also  *)
(* when it was sent before others were answered, or was refused and sent      *)
(* again under the generation that the page showed all the while.             *)
THEOREM SavesAreExact == Spec => SaveIsExact
<1> DEFINE Step == \A i \in DOMAIN sent :
                     Accept(i) /\ sent[i].clean /\ ~sent[i].reread =>
                       Rules(server'.config) =
                         (Rules(server.config) (-) sent[i].gone) (+) sent[i].new
<1>1. ASSUME IndInv, [Next]_vars PROVE [Step]_vars
  <2> SUFFICES ASSUME NEW i \in DOMAIN sent, Accept(i), sent[i].clean, ~sent[i].reread
               PROVE  Rules(server'.config) =
                        (Rules(server.config) (-) sent[i].gone) (+) sent[i].new
    OBVIOUS
  <2>1. sent[i].version = server.version /\ server.version < MaxVersion
        /\ server' = Newer(sent[i].config)
    BY DEF Accept
  <2>2. server'.config = sent[i].config /\ Update(sent[i])
    BY <1>1, <2>1, UpdateWritten DEF IndInv
  <2> QED
    BY <2>1, <2>2 DEF Update, Does
<1> QED
  BY <1>1, Invariant, PTL DEF Spec, SaveIsExact

(* A rule that the user has neither edited nor deleted is not lost by a save, *)
(* not even when the cache holds what remained of one that failed, or when it *)
(* is sent again under the generation that the page showed all the while.     *)
THEOREM NoRuleIsLost == Spec => OthersSurvive
<1> DEFINE Step == \A i \in DOMAIN sent : Accept(i) /\ ~sent[i].reread =>
                     \A r \in BagToSet(Rules(server.config)) \ sent[i].asked :
                        Copies(r, server.config) <= Copies(r, server'.config)
<1>1. ASSUME IndInv, [Next]_vars PROVE [Step]_vars
  <2> SUFFICES ASSUME NEW i \in DOMAIN sent, Accept(i), ~sent[i].reread,
                      NEW r \in BagToSet(Rules(server.config)) \ sent[i].asked
               PROVE  Copies(r, server.config) <= Copies(r, server'.config)
    OBVIOUS
  <2>1. sent[i].version = server.version /\ server.version < MaxVersion
        /\ server' = Newer(sent[i].config)
    BY DEF Accept
  <2>2. server'.config = sent[i].config /\ Update(sent[i])
    BY <1>1, <2>1, UpdateWritten DEF IndInv
  <2> QED
    BY <2>1, <2>2 DEF Update, Does
<1> QED
  BY <1>1, Invariant, PTL DEF Spec, OthersSurvive

=============================================================================
