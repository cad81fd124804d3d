---------------------------- MODULE TabApiProofs ----------------------------
(***************************************************************************)
(* Theorems about TabApi, for any sessions, ids and number of tabs.        *)
(***************************************************************************)
EXTENDS TabApi, FiniteSetTheorems, SequenceTheorems, TLAPS

-----------------------------------------------------------------------------
(* Lists of tabs                                                           *)

LEMMA RemoveAtIs ==
    ASSUME NEW S, NEW s \in Seq(S), NEW i \in 1..Len(s)
    PROVE  /\ RemoveAt(s, i) \in Seq(S) /\ Len(RemoveAt(s, i)) = Len(s) - 1
           /\ \A j \in 1..Len(s) - 1 : RemoveAt(s, i)[j] = s[IF j < i THEN j ELSE j + 1]
<1> DEFINE left == SubSeq(s, 1, i - 1)
           right == SubSeq(s, i + 1, Len(s))
<1>1. left \in Seq(S) /\ Len(left) = i - 1 /\ \A j \in 1..i - 1 : left[j] = s[j]
  OBVIOUS
<1>2. right \in Seq(S) /\ Len(right) = Len(s) - i /\ \A j \in 1..Len(s) - i : right[j] = s[i + j]
  OBVIOUS
<1>3. RemoveAt(s, i) = left \o right
  BY DEF RemoveAt
<1> HIDE DEF left, right
<1>4. /\ left \o right \in Seq(S) /\ Len(left \o right) = Len(left) + Len(right)
      /\ \A j \in 1..Len(left) + Len(right) :
            (left \o right)[j] = IF j <= Len(left) THEN left[j] ELSE right[j - Len(left)]
  BY <1>1, <1>2, ConcatProperties
<1>5. Len(s) \in Nat /\ i \in Nat /\ i >= 1 /\ Len(left) + Len(right) = Len(s) - 1
  BY <1>1, <1>2
<1>6. ASSUME NEW j \in 1..Len(s) - 1
      PROVE  (left \o right)[j] = s[IF j < i THEN j ELSE j + 1]
  <2>1. (left \o right)[j] = IF j <= i - 1 THEN left[j] ELSE right[j - (i - 1)]
    BY <1>1, <1>4, <1>5
  <2>2. CASE j < i
    BY <1>1, <1>5, <2>1, <2>2
  <2>3. CASE ~(j < i)
    <3>1. j - (i - 1) \in 1..Len(s) - i /\ i + (j - (i - 1)) = j + 1
      BY <1>5, <2>3
    <3>2. right[j - (i - 1)] = s[j + 1]
      BY <1>2, <3>1
    <3> QED
      BY <1>5, <2>1, <2>3, <3>2
  <2> QED
    BY <2>2, <2>3
<1> QED
  BY <1>3, <1>4, <1>5, <1>6

LEMMA FunctionIsSeq ==
    ASSUME NEW S, NEW n \in Nat, NEW f \in [1..n -> S]
    PROVE  f \in Seq(S) /\ Len(f) = n
OBVIOUS

LEMMA AppendedIs ==
    ASSUME NEW S, NEW s \in Seq(S), NEW x \in S
    PROVE  /\ Append(s, x) \in Seq(S) /\ Len(Append(s, x)) = Len(s) + 1
           /\ \A i \in 1..Len(s) : Append(s, x)[i] = s[i]
           /\ Append(s, x)[Len(s) + 1] = x
OBVIOUS

LEMMA TabListIs ==
    ASSUME NEW l
    PROVE  l \in TabLists <=>
              /\ l = [tabs |-> l.tabs, active |-> l.active]
              /\ l.tabs \in Seq(Ids) /\ Len(l.tabs) \in 1..MaximumTabs
              /\ \A i, j \in 1..Len(l.tabs) : l.tabs[i] = l.tabs[j] => i = j
              /\ l.active \in Ids /\ \E i \in 1..Len(l.tabs) : l.tabs[i] = l.active
<1>1. ASSUME NEW t
      PROVE  t \in UNION {[1..n -> Ids] : n \in 1..MaximumTabs} <=>
                t \in Seq(Ids) /\ Len(t) \in 1..MaximumTabs
  BY TabApiAssumption
<1>2. \A t \in Seq(Ids) : DOMAIN t = 1..Len(t)
  OBVIOUS
<1>3. l \in [tabs : UNION {[1..n -> Ids] : n \in 1..MaximumTabs}, active : Ids] <=>
         /\ l = [tabs |-> l.tabs, active |-> l.active]
         /\ l.tabs \in UNION {[1..n -> Ids] : n \in 1..MaximumTabs} /\ l.active \in Ids
  OBVIOUS
<1> QED
  BY <1>1, <1>2, <1>3 DEF TabLists

\* What the proofs use of a list.
LEMMA ListIs ==
    ASSUME NEW l \in TabLists
    PROVE  /\ l = [tabs |-> l.tabs, active |-> l.active]
           /\ l.tabs \in Seq(Ids) /\ Len(l.tabs) \in Nat /\ Len(l.tabs) \in 1..MaximumTabs
           /\ MaximumTabs \in Nat /\ DOMAIN l.tabs = 1..Len(l.tabs)
           /\ \A i \in 1..Len(l.tabs) : l.tabs[i] \in Ids
           /\ \A i, j \in 1..Len(l.tabs) : l.tabs[i] = l.tabs[j] => i = j
           /\ l.active \in IdsOf(l) /\ IdsOf(l) \subseteq Ids
<1>1. /\ l = [tabs |-> l.tabs, active |-> l.active]
      /\ l.tabs \in Seq(Ids) /\ Len(l.tabs) \in 1..MaximumTabs
      /\ \A i, j \in 1..Len(l.tabs) : l.tabs[i] = l.tabs[j] => i = j
      /\ l.active \in Ids /\ \E i \in 1..Len(l.tabs) : l.tabs[i] = l.active
  BY TabListIs
<1>2. DOMAIN l.tabs = 1..Len(l.tabs) /\ \A i \in 1..Len(l.tabs) : l.tabs[i] \in Ids
  BY <1>1
<1> QED
  BY <1>1, <1>2, TabApiAssumption DEF IdsOf

LEMMA ViewIs ==
    ASSUME NEW l \in TabLists
    PROVE  /\ DOMAIN View(l) = 1..Len(l.tabs) /\ Len(View(l)) = Len(l.tabs)
           /\ View(l) \in Seq([id : Ids, active : BOOLEAN])
           /\ \A i \in 1..Len(l.tabs) :
                 /\ View(l)[i] = Tab(l.tabs[i], l.tabs[i] = l.active)
                 /\ View(l)[i].id = l.tabs[i] /\ View(l)[i].active = (l.tabs[i] = l.active)
<1>1. /\ Len(l.tabs) \in Nat /\ DOMAIN l.tabs = 1..Len(l.tabs)
      /\ \A i \in 1..Len(l.tabs) : l.tabs[i] \in Ids
  BY ListIs
<1>2. View(l) = [i \in 1..Len(l.tabs) |-> Tab(l.tabs[i], l.tabs[i] = l.active)]
  BY <1>1 DEF View
<1>3. \A i \in 1..Len(l.tabs) :
         /\ Tab(l.tabs[i], l.tabs[i] = l.active) \in [id : Ids, active : BOOLEAN]
         /\ Tab(l.tabs[i], l.tabs[i] = l.active).id = l.tabs[i]
         /\ Tab(l.tabs[i], l.tabs[i] = l.active).active = (l.tabs[i] = l.active)
  BY <1>1 DEF Tab
<1>4. View(l) \in [1..Len(l.tabs) -> [id : Ids, active : BOOLEAN]]
  BY <1>2, <1>3
<1>5. View(l) \in Seq([id : Ids, active : BOOLEAN]) /\ Len(View(l)) = Len(l.tabs)
  BY <1>1, <1>4, FunctionIsSeq
<1> QED
  BY <1>2, <1>3, <1>5

\* The list of a container is one that the adapter accepts.
LEMMA ViewIsValid ==
    ASSUME NEW l \in TabLists
    PROVE  ListIsValid(View(l))
<1>1. Len(View(l)) \in 1..MaximumTabs
  BY ViewIs, ListIs
<1>2. \A i, j \in DOMAIN View(l) : View(l)[i].id = View(l)[j].id => i = j
  BY ViewIs, ListIs
<1>3. PICK k \in 1..Len(l.tabs) : l.tabs[k] = l.active
  BY ListIs DEF IdsOf
<1>4. {i \in DOMAIN View(l) : View(l)[i].active} = {k}
  <2>1. \A i \in 1..Len(l.tabs) : View(l)[i].active = (l.tabs[i] = l.active)
    BY ViewIs
  <2>2. \A i \in 1..Len(l.tabs) : l.tabs[i] = l.active <=> i = k
    BY <1>3, ListIs
  <2>3. DOMAIN View(l) = 1..Len(l.tabs)
    BY ViewIs
  <2>4. \A i \in 1..Len(l.tabs) : View(l)[i].active <=> i = k
    BY <2>1, <2>2
  <2> QED
    BY <1>3, <2>3, <2>4
<1>5. Cardinality({k}) = 1
  BY FS_Singleton
<1> QED
  BY <1>1, <1>2, <1>4, <1>5 DEF ListIsValid

LEMMA WithoutIs ==
    ASSUME NEW l \in TabLists, NEW id \in IdsOf(l)
    PROVE  \E k \in 1..Len(l.tabs) :
              /\ l.tabs[k] = id /\ Without(l, id) = RemoveAt(l.tabs, k)
              /\ Without(l, id) \in Seq(Ids) /\ Len(Without(l, id)) = Len(l.tabs) - 1
              /\ DOMAIN Without(l, id) = 1..Len(l.tabs) - 1
              /\ \A i \in 1..Len(l.tabs) - 1 : Without(l, id)[i] = l.tabs[IF i < k THEN i ELSE i + 1]
              /\ \A i, j \in 1..Len(l.tabs) - 1 : Without(l, id)[i] = Without(l, id)[j] => i = j
              /\ {Without(l, id)[i] : i \in DOMAIN Without(l, id)} = IdsOf(l) \ {id}
<1> DEFINE k == CHOOSE i \in DOMAIN l.tabs : l.tabs[i] = id
           rest == Without(l, id)
           n == Len(l.tabs)
<1>1. /\ l.tabs \in Seq(Ids) /\ n \in Nat /\ DOMAIN l.tabs = 1..n
      /\ \A i, j \in 1..n : l.tabs[i] = l.tabs[j] => i = j
  BY ListIs
<1>2. k \in 1..n /\ l.tabs[k] = id
  BY <1>1 DEF IdsOf
<1>3. rest = RemoveAt(l.tabs, k)
  BY DEF Without
<1> HIDE DEF k, rest
<1>4. /\ rest \in Seq(Ids) /\ Len(rest) = n - 1
      /\ \A i \in 1..n - 1 : rest[i] = l.tabs[IF i < k THEN i ELSE i + 1]
  BY <1>1, <1>2, <1>3, RemoveAtIs
<1> HIDE DEF n
<1>5. DOMAIN rest = 1..n - 1
  BY <1>4
<1>6. ASSUME NEW i \in 1..n - 1, NEW j \in 1..n - 1, rest[i] = rest[j] PROVE i = j
  <2> DEFINE old(m) == IF m < k THEN m ELSE m + 1
  <2>1. rest[i] = l.tabs[old(i)] /\ rest[j] = l.tabs[old(j)]
    BY <1>4
  <2>2. old(i) \in 1..n /\ old(j) \in 1..n
    BY <1>1, <1>2
  <2>3. old(i) = old(j)
    BY <1>1, <1>6, <2>1, <2>2
  <2> QED
    BY <1>1, <1>2, <2>3
<1>7. \A i \in 1..n - 1 : rest[i] \in IdsOf(l) \ {id}
  <2> SUFFICES ASSUME NEW i \in 1..n - 1 PROVE rest[i] \in IdsOf(l) \ {id}
    OBVIOUS
  <2> DEFINE m == IF i < k THEN i ELSE i + 1
  <2>1. m \in 1..n /\ m # k
    BY <1>1, <1>2
  <2>2. rest[i] = l.tabs[m]
    BY <1>4
  <2>3. l.tabs[m] # id
    BY <1>1, <1>2, <2>1
  <2> HIDE DEF m
  <2> QED
    BY <1>1, <2>1, <2>2, <2>3 DEF IdsOf
<1>8. ASSUME NEW x \in IdsOf(l) \ {id} PROVE \E i \in 1..n - 1 : rest[i] = x
  <2>1. PICK i \in 1..n : l.tabs[i] = x
    BY <1>1 DEF IdsOf
  <2>2. CASE i < k
    <3>1. i \in 1..n - 1
      BY <1>1, <1>2, <2>2
    <3> QED
      BY <1>4, <2>1, <2>2, <3>1
  <2>3. CASE i > k
    <3>1. i - 1 \in 1..n - 1 /\ ~(i - 1 < k) /\ (i - 1) + 1 = i
      BY <1>1, <1>2, <2>3
    <3> QED
      BY <1>4, <2>1, <3>1
  <2> QED
    BY <1>1, <1>2, <2>1, <2>2, <2>3
<1>9. {rest[i] : i \in DOMAIN rest} = IdsOf(l) \ {id}
  BY <1>5, <1>7, <1>8
<1> QED
  BY <1>2, <1>3, <1>4, <1>5, <1>6, <1>9 DEF rest, n

-----------------------------------------------------------------------------
(* What a supervisor answers                                               *)

Told(r, answer) == [request |-> r, answer |-> answer]

\* A request is refused, for a reason that holds, and changes nothing, or it is
\* performed and answered with the status of its operation.
Honest(l, r, o) ==
    \/ /\ o.list = l
       /\ \E code \in Codes :
             /\ o.reply = Fail(code)
             /\ code \in Relayed => ReasonIsReal(Told(r, Fail(code)), l)
    \/ /\ o.list \in TabLists
       /\ o.reply.status = Expected(r.op)
       /\ Performed(Told(r, o.reply), l, o.list)

LEMMA FailIs ==
    ASSUME NEW code
    PROVE  /\ Fail(code).status = StatusOf(code) /\ Fail(code).body = code
           /\ StatusOf(code) \in {400, 401, 404, 409, 503} /\ IsError(Fail(code))
BY DEF Fail, StatusOf, IsError

LEMMA RefuseHonest ==
    ASSUME NEW l, NEW r, NEW code \in Codes,
           code \in Relayed => ReasonIsReal(Told(r, Fail(code)), l)
    PROVE  Honest(l, r, Refuse(l, code))
BY DEF Honest, Refuse

LEMMA AfterCommandHonest ==
    ASSUME NEW l, NEW r, NEW native, NEW done, Honest(l, r, done)
    PROVE  Honest(l, r, AfterCommand(native, l, done))
<1>1. /\ "TAB_RUNTIME_FAILURE" \in Codes /\ "TAB_RUNTIME_FAILURE" \notin Relayed
      /\ "TAB_RUNTIME_UNAVAILABLE" \in Codes /\ "TAB_RUNTIME_UNAVAILABLE" \notin Relayed
  BY DEF Codes, Relayed
<1>2. /\ Honest(l, r, Refuse(l, "TAB_RUNTIME_FAILURE"))
      /\ Honest(l, r, Refuse(l, "TAB_RUNTIME_UNAVAILABLE"))
  BY <1>1, RefuseHonest
<1> QED
  BY <1>2 DEF AfterCommand

\* The reasons of the controller, as the properties state them.
LEMMA ReasonIs ==
    ASSUME NEW l, NEW r
    PROVE  /\ r.tab \notin IdsOf(l) => Honest(l, r, Refuse(l, "TAB_NOT_FOUND"))
           /\ Len(l.tabs) = MaximumTabs => Honest(l, r, Refuse(l, "TAB_LIMIT_REACHED"))
           /\ IdsOf(l) = {r.tab} => Honest(l, r, Refuse(l, "TAB_MINIMUM_REACHED"))
           /\ Honest(l, r, Refuse(l, "TAB_URL_INVALID"))
<1>1. /\ "TAB_NOT_FOUND" \in Codes /\ "TAB_LIMIT_REACHED" \in Codes
      /\ "TAB_MINIMUM_REACHED" \in Codes /\ "TAB_URL_INVALID" \in Codes
  BY DEF Codes
<1>2. r.tab \notin IdsOf(l) => ReasonIsReal(Told(r, Fail("TAB_NOT_FOUND")), l)
  BY FailIs DEF ReasonIsReal, Told
<1>3. Len(l.tabs) = MaximumTabs => ReasonIsReal(Told(r, Fail("TAB_LIMIT_REACHED")), l)
  BY FailIs DEF ReasonIsReal, Told
<1>4. IdsOf(l) = {r.tab} => ReasonIsReal(Told(r, Fail("TAB_MINIMUM_REACHED")), l)
  BY FailIs DEF ReasonIsReal, Told
<1>5. ReasonIsReal(Told(r, Fail("TAB_URL_INVALID")), l)
  BY FailIs DEF ReasonIsReal, Told
<1> QED
  BY <1>1, <1>2, <1>3, <1>4, <1>5, RefuseHonest

\* What it means to have performed an operation, for each of them.
LEMMA PerformedIs ==
    ASSUME NEW r, NEW answer, NEW before, NEW after
    PROVE  /\ r.op = "list" => (Performed(Told(r, answer), before, after) <=>
                  after = before /\ answer.body = View(before))
           /\ r.op = "create" => (Performed(Told(r, answer), before, after) <=>
                  after.tabs = Append(before.tabs, answer.body.id) /\ after.active = answer.body.id)
           /\ r.op = "activate" => (Performed(Told(r, answer), before, after) <=>
                  after.tabs = before.tabs /\ after.active = r.tab)
           /\ r.op = "navigate" => (Performed(Told(r, answer), before, after) <=>
                  after = before /\ r.tab \in IdsOf(before))
           /\ r.op = "delete" => (Performed(Told(r, answer), before, after) <=>
                  /\ r.tab \in IdsOf(before) /\ IdsOf(after) = IdsOf(before) \ {r.tab}
                  /\ after.active \in IdsOf(after))
<1>1. Told(r, answer).request = r /\ Told(r, answer).answer = answer
  BY DEF Told
<1> QED
  BY <1>1 DEF Performed

LEMMA CreateHonest ==
    ASSUME NEW l \in TabLists, NEW r, r.op = "create", NEW id \in Ids \ IdsOf(l), NEW native
    PROVE  Honest(l, r, ControllerCreate(l, r.url, id, native))
<1> DEFINE more == [tabs |-> Append(l.tabs, id), active |-> id]
           done == Done(more, 201, Tab(id, TRUE))
<1>1. /\ l.tabs \in Seq(Ids) /\ Len(l.tabs) \in 1..MaximumTabs /\ MaximumTabs \in Nat
      /\ \A i, j \in 1..Len(l.tabs) : l.tabs[i] = l.tabs[j] => i = j
      /\ \A i \in 1..Len(l.tabs) : l.tabs[i] # id
  BY ListIs DEF IdsOf
<1>2. CASE Len(l.tabs) >= MaximumTabs
  <2>1. Len(l.tabs) = MaximumTabs
    BY <1>1, <1>2
  <2> QED
    BY <1>2, <2>1, ReasonIs DEF ControllerCreate
<1>3. CASE Len(l.tabs) < MaximumTabs
  <2>1. more \in TabLists
    <3>1. /\ Append(l.tabs, id) \in Seq(Ids) /\ Len(Append(l.tabs, id)) = Len(l.tabs) + 1
          /\ \A i \in 1..Len(l.tabs) : Append(l.tabs, id)[i] = l.tabs[i]
          /\ Append(l.tabs, id)[Len(l.tabs) + 1] = id
      BY <1>1
    <3>2. more.tabs = Append(l.tabs, id) /\ more.active = id
      OBVIOUS
    <3>3. Len(more.tabs) \in 1..MaximumTabs
      BY <1>1, <1>3, <3>1, <3>2
    <3>4. \A i, j \in 1..Len(more.tabs) : more.tabs[i] = more.tabs[j] => i = j
      BY <1>1, <3>1, <3>2
    <3>5. Len(more.tabs) \in 1..Len(more.tabs) /\ more.tabs[Len(more.tabs)] = id
      BY <1>1, <3>1, <3>2
    <3> QED
      BY <3>1, <3>2, <3>3, <3>4, <3>5, TabListIs
  <2>2. done.list = more /\ done.reply.status = 201 /\ done.reply.body.id = id
    BY DEF Done, Tab
  <2> HIDE DEF done
  <2>3. Performed(Told(r, done.reply), l, more)
    BY <2>2, PerformedIs
  <2>4. Honest(l, r, done)
    BY <2>1, <2>2, <2>3 DEF Honest, Expected
  <2>5. Honest(l, r, AfterCommand(native, l, done)) /\ Honest(l, r, Refuse(l, "TAB_URL_INVALID"))
    BY <2>4, AfterCommandHonest, ReasonIs
  <2>6. ControllerCreate(l, r.url, id, native) \in
            {Refuse(l, "TAB_URL_INVALID"), AfterCommand(native, l, done)}
    <3>1. ~(Len(l.tabs) >= MaximumTabs)
      BY <1>1, <1>3
    <3>2. CASE UrlRefused(r.url)
      BY <1>3, <3>1, <3>2 DEF ControllerCreate
    <3>3. CASE ~UrlRefused(r.url)
      BY <1>3, <3>1, <3>3 DEF ControllerCreate, done
    <3> QED
      BY <3>2, <3>3
  <2> QED
    BY <2>5, <2>6
<1> QED
  BY <1>1, <1>2, <1>3

LEMMA ActivateHonest ==
    ASSUME NEW l \in TabLists, NEW r, r.op = "activate", NEW native
    PROVE  Honest(l, r, ControllerActivate(l, r.tab, native))
<1> DEFINE shown == [l EXCEPT !.active = r.tab]
           kept == Done(l, 200, Tab(r.tab, TRUE))
           done == Done(shown, 200, Tab(r.tab, TRUE))
<1>1. l.active \in IdsOf(l)
  BY ListIs
<1>2. CASE r.tab \notin IdsOf(l)
  <2>1. ControllerActivate(l, r.tab, native) = Refuse(l, "TAB_NOT_FOUND")
    BY <1>1, <1>2 DEF ControllerActivate
  <2> QED
    BY <1>2, <2>1, ReasonIs
<1>3. CASE r.tab \in IdsOf(l)
  <2>1. ControllerActivate(l, r.tab, native) =
           IF r.tab = l.active THEN kept ELSE AfterCommand(native, l, done)
    BY <1>3 DEF ControllerActivate
  <2>2. /\ kept.list = l /\ kept.reply.status = 200
        /\ done.list = shown /\ done.reply.status = 200
    BY DEF Done
  <2>3. shown = [tabs |-> l.tabs, active |-> r.tab]
    BY ListIs
  <2> HIDE DEF shown, kept, done
  <2>4. shown.tabs = l.tabs /\ shown.active = r.tab
    BY <2>3
  <2>5. r.tab \in Ids /\ \E i \in 1..Len(l.tabs) : l.tabs[i] = r.tab
    BY <1>3, ListIs DEF IdsOf
  <2>6. shown \in TabLists
    BY <2>3, <2>4, <2>5, ListIs, TabListIs
  <2>7. Performed(Told(r, done.reply), l, shown)
    BY <2>4, PerformedIs
  <2>8. Honest(l, r, done)
    BY <2>2, <2>6, <2>7 DEF Honest, Expected
  <2>9. r.tab = l.active => Performed(Told(r, kept.reply), l, l)
    BY PerformedIs
  <2>10. r.tab = l.active => Honest(l, r, kept)
    BY <2>2, <2>9 DEF Honest, Expected
  <2> QED
    BY <2>1, <2>8, <2>10, AfterCommandHonest
<1> QED
  BY <1>2, <1>3

LEMMA NavigateHonest ==
    ASSUME NEW l \in TabLists, NEW r, r.op = "navigate", NEW native
    PROVE  Honest(l, r, ControllerNavigate(l, r.tab, r.url, native))
<1> DEFINE done == Done(l, 200, Tab(r.tab, r.tab = l.active))
<1>1. CASE r.tab \notin IdsOf(l)
  BY <1>1, ReasonIs DEF ControllerNavigate
<1>2. CASE r.tab \in IdsOf(l)
  <2>1. done.list = l /\ done.reply.status = 200
    BY DEF Done
  <2>2. ControllerNavigate(l, r.tab, r.url, native) \in
            {Refuse(l, "TAB_URL_INVALID"), AfterCommand(native, l, done)}
    BY <1>2 DEF ControllerNavigate, UrlRefused
  <2> HIDE DEF done
  <2>3. Performed(Told(r, done.reply), l, l)
    BY <1>2, PerformedIs
  <2>4. Honest(l, r, done)
    BY <2>1, <2>3 DEF Honest, Expected
  <2> QED
    BY <2>2, <2>4, AfterCommandHonest, ReasonIs
<1> QED
  BY <1>1, <1>2

LEMMA RemoveHonest ==
    ASSUME NEW l \in TabLists, NEW r, r.op = "delete", NEW native
    PROVE  Honest(l, r, ControllerRemove(l, r.tab, native))
<1>1. CASE r.tab \notin IdsOf(l)
  BY <1>1, ReasonIs DEF ControllerRemove
<1>2. CASE r.tab \in IdsOf(l) /\ Len(l.tabs) = 1
  <2>1. IdsOf(l) = {r.tab}
    BY <1>2, ListIs DEF IdsOf
  <2> QED
    BY <1>2, <2>1, ReasonIs DEF ControllerRemove
<1>3. CASE r.tab \in IdsOf(l) /\ Len(l.tabs) # 1
  <2> DEFINE rest == Without(l, r.tab)
             next == IF r.tab = l.active THEN rest[1] ELSE l.active
             less == [tabs |-> rest, active |-> next]
             done == Done(less, 204, "empty")
  <2>1. /\ rest \in Seq(Ids) /\ Len(rest) = Len(l.tabs) - 1 /\ DOMAIN rest = 1..Len(l.tabs) - 1
        /\ \A i, j \in 1..Len(l.tabs) - 1 : rest[i] = rest[j] => i = j
        /\ {rest[i] : i \in DOMAIN rest} = IdsOf(l) \ {r.tab}
    BY <1>3, WithoutIs
  <2>2. /\ Len(l.tabs) \in 1..MaximumTabs /\ MaximumTabs \in Nat
        /\ l.active \in IdsOf(l) /\ IdsOf(l) \subseteq Ids
    BY ListIs
  <2>3. ControllerRemove(l, r.tab, native) = AfterCommand(native, l, done)
    BY <1>3 DEF ControllerRemove
  <2> HIDE DEF rest
  <2>4. 1 \in DOMAIN rest /\ Len(rest) \in 1..MaximumTabs
    <3> HIDE DEF done, less, next
    <3>1. PICK n \in 1..MaximumTabs : n = Len(l.tabs) /\ n # 1
      BY <1>3, <2>2
    <3>2. n - 1 \in 1..MaximumTabs /\ 1 \in 1..n - 1
      <4>1. n # 1
        BY <3>1
      <4>2. MaximumTabs \in Nat
        BY TabApiAssumption
      <4> QED
        BY <4>1, <4>2
    <3> QED
      BY <2>1, <3>1, <3>2
  <2>5. next \in IdsOf(l) \ {r.tab}
    BY <2>1, <2>2, <2>4
  <2> HIDE DEF next
  <2>6. less.tabs = rest /\ less.active = next /\ less = [tabs |-> rest, active |-> next]
    OBVIOUS
  <2> HIDE DEF less
  <2>7. IdsOf(less) = IdsOf(l) \ {r.tab}
    <3>1. IdsOf(less) = {less.tabs[i] : i \in DOMAIN less.tabs}
      BY DEF IdsOf
    <3>2. IdsOf(less) = {rest[i] : i \in DOMAIN rest}
      BY <2>6, <3>1, Zenon
    <3> QED
      BY <2>1, <3>2, Zenon
  <2>8. less \in TabLists
    <3>1. \E i \in 1..Len(less.tabs) : less.tabs[i] = less.active
      BY <2>1, <2>5, <2>6
    <3>2. less.active \in Ids
      BY <2>2, <2>5, <2>6
    <3>3. less.tabs \in Seq(Ids) /\ Len(less.tabs) \in 1..MaximumTabs
      BY <2>1, <2>4, <2>6
    <3>4. \A i, j \in 1..Len(less.tabs) : less.tabs[i] = less.tabs[j] => i = j
      BY <2>1, <2>6
    <3>5. less = [tabs |-> less.tabs, active |-> less.active]
      BY <2>6
    <3> QED
      BY <3>1, <3>2, <3>3, <3>4, <3>5, TabListIs
  <2>9. done.list = less /\ done.reply.status = 204
    BY DEF Done
  <2> HIDE DEF done
  <2>10. Honest(l, r, done)
    <3>1. Performed(Told(r, done.reply), l, less)
      BY <1>3, <2>5, <2>6, <2>7, PerformedIs
    <3> QED
      BY <2>8, <2>9, <3>1 DEF Honest, Expected
  <2> QED
    BY <2>3, <2>10, AfterCommandHonest
<1> QED
  BY <1>1, <1>2, <1>3

\* The checks before the controller, and the operation that is called.
LEMMA HandleIs ==
    ASSUME NEW own, NEW l, NEW r, NEW secret, NEW id, NEW native
    PROVE  LET o == handleTabRequest(own, l, r, secret, id, native) IN
           /\ secret # own => o = Refuse(l, "INTERNAL_AUTH_REQUIRED")
           /\ NoRoute(r) \/ BodyRefused(r) =>
                 o \in {Refuse(l, "INTERNAL_AUTH_REQUIRED"), Refuse(l, "TAB_ROUTE_NOT_FOUND"),
                        Refuse(l, "VALIDATION_FAILED")}
           /\ secret = own /\ ~NoRoute(r) /\ ~BodyRefused(r) =>
                 /\ r.op = "list" => o = Done(l, 200, View(l))
                 /\ r.op = "create" => o = ControllerCreate(l, r.url, id, native)
                 /\ r.op = "activate" => o = ControllerActivate(l, r.tab, native)
                 /\ r.op = "navigate" => o = ControllerNavigate(l, r.tab, r.url, native)
                 /\ r.op = "delete" => o = ControllerRemove(l, r.tab, native)
<1> DEFINE o == handleTabRequest(own, l, r, secret, id, native)
<1>1. NoRoute(r) \in BOOLEAN /\ BodyRefused(r) \in BOOLEAN
  BY DEF NoRoute, BodyRefused
<1>2. internalRequestAuthorized(secret, own) <=> secret = own
  BY DEF internalRequestAuthorized
<1>3. secret # own => o = Refuse(l, "INTERNAL_AUTH_REQUIRED")
  BY <1>1, <1>2 DEF handleTabRequest
<1>4. secret = own /\ NoRoute(r) => o = Refuse(l, "TAB_ROUTE_NOT_FOUND")
  BY <1>1, <1>2 DEF handleTabRequest
<1>5. secret = own /\ ~NoRoute(r) /\ BodyRefused(r) => o = Refuse(l, "VALIDATION_FAILED")
  BY <1>1, <1>2 DEF handleTabRequest
<1>6. secret = own /\ ~NoRoute(r) /\ ~BodyRefused(r) =>
         o = CASE r.op = "list"     -> Done(l, 200, View(l))
               [] r.op = "create"   -> ControllerCreate(l, r.url, id, native)
               [] r.op = "activate" -> ControllerActivate(l, r.tab, native)
               [] r.op = "navigate" -> ControllerNavigate(l, r.tab, r.url, native)
               [] r.op = "delete"   -> ControllerRemove(l, r.tab, native)
  BY <1>1, <1>2 DEF handleTabRequest
<1> HIDE DEF o
<1>7. secret = own /\ ~NoRoute(r) /\ ~BodyRefused(r) =>
         /\ r.op = "list" => o = Done(l, 200, View(l))
         /\ r.op = "create" => o = ControllerCreate(l, r.url, id, native)
         /\ r.op = "activate" => o = ControllerActivate(l, r.tab, native)
         /\ r.op = "navigate" => o = ControllerNavigate(l, r.tab, r.url, native)
         /\ r.op = "delete" => o = ControllerRemove(l, r.tab, native)
  BY <1>6
<1> QED
  BY <1>3, <1>4, <1>5, <1>7 DEF o

LEMMA RequestIs ==
    ASSUME NEW r \in Requests
    PROVE  r.op \in {"list", "create", "activate", "navigate", "delete"}
BY DEF Requests

LEMMA HandleHonest ==
    ASSUME NEW own, NEW l \in TabLists, NEW r \in Requests, NEW secret, NEW id, NEW native,
           r.op = "create" => id \in Ids \ IdsOf(l)
    PROVE  Honest(l, r, handleTabRequest(own, l, r, secret, id, native))
<1> DEFINE o == handleTabRequest(own, l, r, secret, id, native)
<1>1. /\ "INTERNAL_AUTH_REQUIRED" \in Codes \ Relayed /\ "TAB_ROUTE_NOT_FOUND" \in Codes \ Relayed
      /\ "VALIDATION_FAILED" \in Codes \ Relayed
  BY DEF Codes, Relayed
<1>2. /\ Honest(l, r, Refuse(l, "INTERNAL_AUTH_REQUIRED"))
      /\ Honest(l, r, Refuse(l, "TAB_ROUTE_NOT_FOUND"))
      /\ Honest(l, r, Refuse(l, "VALIDATION_FAILED"))
  BY <1>1, RefuseHonest
<1>3. CASE secret # own \/ NoRoute(r) \/ BodyRefused(r)
  <2>1. o \in {Refuse(l, "INTERNAL_AUTH_REQUIRED"), Refuse(l, "TAB_ROUTE_NOT_FOUND"),
               Refuse(l, "VALIDATION_FAILED")}
    BY <1>3, HandleIs
  <2> HIDE DEF o
  <2>2. Honest(l, r, o)
    BY <1>2, <2>1
  <2> QED
    BY <2>2 DEF o
<1>4. CASE secret = own /\ ~NoRoute(r) /\ ~BodyRefused(r)
  <2>1. /\ r.op = "list" => o = Done(l, 200, View(l))
        /\ r.op = "create" => o = ControllerCreate(l, r.url, id, native)
        /\ r.op = "activate" => o = ControllerActivate(l, r.tab, native)
        /\ r.op = "navigate" => o = ControllerNavigate(l, r.tab, r.url, native)
        /\ r.op = "delete" => o = ControllerRemove(l, r.tab, native)
    BY <1>4, HandleIs
  <2> HIDE DEF o
  <2>2. r.op = "list" => Honest(l, r, o)
    <3> SUFFICES ASSUME r.op = "list" PROVE Honest(l, r, o)
      OBVIOUS
    <3>1. o.list = l /\ o.reply.status = 200 /\ o.reply.body = View(l)
      BY <2>1 DEF Done
    <3>2. Performed(Told(r, o.reply), l, l)
      BY <3>1, PerformedIs
    <3> QED
      BY <3>1, <3>2 DEF Honest, Expected
  <2>3. Honest(l, r, o)
    BY <2>1, <2>2, RequestIs, CreateHonest, ActivateHonest, NavigateHonest, RemoveHonest
  <2> QED
    BY <2>3 DEF o
<1> QED
  BY <1>3, <1>4

-----------------------------------------------------------------------------
(* What the adapter makes of the answer                                    *)

LEMMA UnavailableIs == IsError(Unavailable) /\ Unavailable.body \notin Relayed
<1>1. IsError(Unavailable) /\ Unavailable.body = "TAB_RUNTIME_UNAVAILABLE"
  BY FailIs DEF Unavailable
<1> QED
  BY <1>1 DEF Relayed

\* An error of the supervisor is passed on only with a code of the four.
LEMMA ControlFailureIs ==
    ASSUME NEW op, NEW code
    PROVE  controlAnswer(op, Fail(code)) = IF code \in Relayed THEN Fail(code) ELSE Unavailable
<1>1. Fail(code).status # Expected(op) /\ Fail(code).status # 200
  BY FailIs DEF Expected
<1>2. controlAnswer(op, Fail(code)) = parseTabRuntimeError(Fail(code))
  BY <1>1 DEF controlAnswer
<1> QED
  BY <1>2, FailIs DEF parseTabRuntimeError

LEMMA ControlSuccessIs ==
    ASSUME NEW op, NEW reply, reply.status = Expected(op), op = "list" => ListIsValid(reply.body)
    PROVE  controlAnswer(op, reply) = reply
BY DEF controlAnswer, ListIsValid

\* The answer of a container's supervisor as the client gets it.
LEMMA AnswerHonest ==
    ASSUME NEW l \in TabLists, NEW r \in Requests, NEW o, Honest(l, r, o)
    PROVE  LET a == controlAnswer(r.op, o.reply) IN
           /\ o.list \in TabLists
           /\ ~IsError(a) => Performed(Told(r, a), l, o.list)
           /\ IsError(a) /\ a # Unavailable =>
                 o.list = l /\ (a.body \in Relayed => ReasonIsReal(Told(r, a), l))
<1> DEFINE a == controlAnswer(r.op, o.reply)
<1>1. ASSUME o.list = l, NEW code \in Codes, o.reply = Fail(code),
             code \in Relayed => ReasonIsReal(Told(r, Fail(code)), l)
      PROVE  /\ o.list \in TabLists
             /\ ~IsError(a) => Performed(Told(r, a), l, o.list)
             /\ IsError(a) /\ a # Unavailable =>
                   o.list = l /\ (a.body \in Relayed => ReasonIsReal(Told(r, a), l))
  <2>1. a = IF code \in Relayed THEN Fail(code) ELSE Unavailable
    BY <1>1, ControlFailureIs
  <2> HIDE DEF a
  <2> QED
    BY <1>1, <2>1, FailIs, UnavailableIs
<1>2. ASSUME o.list \in TabLists, o.reply.status = Expected(r.op),
             Performed(Told(r, o.reply), l, o.list)
      PROVE  a = o.reply /\ ~IsError(a)
  <2>1. r.op = "list" => o.reply.body = View(l)
    BY <1>2, PerformedIs
  <2>2. a = o.reply
    BY <1>2, <2>1, ViewIsValid, ControlSuccessIs
  <2> QED
    BY <1>2, <2>2 DEF Expected, IsError
<1> HIDE DEF a
<1>3. /\ o.list \in TabLists
      /\ ~IsError(a) => Performed(Told(r, a), l, o.list)
      /\ IsError(a) /\ a # Unavailable =>
            o.list = l /\ (a.body \in Relayed => ReasonIsReal(Told(r, a), l))
  BY <1>1, <1>2 DEF Honest
<1> QED
  BY <1>3 DEF a

-----------------------------------------------------------------------------
(* The control plane                                                       *)

AtOnceErrors ==
    {[status |-> 500, body |-> "RUNTIME_FAILURE"], Fail("VALIDATION_FAILED"), Fail("AUTH_REQUIRED"),
     Fail("AUTH_INVALID"), Fail("SESSION_NOT_FOUND"), Fail("RUNTIME_FAILURE"),
     [status |-> 409, body |-> "TAB_RUNTIME_UNAVAILABLE"]}

LEMMA AtOnceErrorIs ==
    ASSUME NEW a \in AtOnceErrors
    PROVE  IsError(a) /\ a.body \notin Relayed /\ a # None
<1>1. \A n \in Nat, b \in Codes : [status |-> n, body |-> b] # None
  BY NoAnswerAssumption
<1>2. \A b \in Codes : Fail(b) # None
  <2> TAKE b \in Codes
  <2>1. StatusOf(b) \in Nat
    BY FailIs
  <2> QED
    BY <1>1, <2>1 DEF Fail
<1>3. /\ "RUNTIME_FAILURE" \in Codes /\ "VALIDATION_FAILED" \in Codes /\ "AUTH_REQUIRED" \in Codes
      /\ "AUTH_INVALID" \in Codes /\ "SESSION_NOT_FOUND" \in Codes
      /\ "TAB_RUNTIME_UNAVAILABLE" \in Codes
  BY DEF Codes
<1>4. 500 \in Nat /\ 409 \in Nat
  OBVIOUS
<1>5. a # None
  BY <1>1, <1>2, <1>3, <1>4 DEF AtOnceErrors
<1>6. IsError(a)
  BY FailIs DEF AtOnceErrors, IsError
<1>7. a.body \in {"RUNTIME_FAILURE", "VALIDATION_FAILED", "AUTH_REQUIRED", "AUTH_INVALID",
                  "SESSION_NOT_FOUND", "TAB_RUNTIME_UNAVAILABLE"}
  BY FailIs DEF AtOnceErrors
<1> QED
  BY <1>5, <1>6, <1>7 DEF Relayed

\* A container is only asked for the tenant that the session belongs to.
LEMMA AtOnceIs ==
    ASSUME NEW r, NEW session, NEW header, NEW tenant, NEW inspection
    PROVE  LET a == AnsweredAtOnce(r, session, header, tenant, inspection) IN
           a \in AtOnceErrors \/ (a = None /\ session = tenant)
<1> DEFINE a == AnsweredAtOnce(r, session, header, tenant, inspection)
           late == CASE ~Found(session, tenant) -> Fail("SESSION_NOT_FOUND")
                     [] Found(session, tenant) /\ inspection = "error"   -> Fail("RUNTIME_FAILURE")
                     [] Found(session, tenant) /\ inspection = "stopped" ->
                           [status |-> 409, body |-> "TAB_RUNTIME_UNAVAILABLE"]
                     [] OTHER -> None
<1>1. Invalid(r) \in BOOLEAN /\ Found(session, tenant) \in BOOLEAN
  BY DEF Invalid, Found
<1>2. late \in {Fail("SESSION_NOT_FOUND"), Fail("RUNTIME_FAILURE"),
                [status |-> 409, body |-> "TAB_RUNTIME_UNAVAILABLE"]}
         \/ (late = None /\ session = tenant)
  BY <1>1 DEF Found
<1>3. AuthFailure(header) \in {"AUTH_REQUIRED", "AUTH_INVALID"}
  BY DEF AuthFailure
<1>4. CASE r.url = "unparsable"
  BY <1>1, <1>4 DEF AnsweredAtOnce, AtOnceErrors
<1>5. CASE r.url # "unparsable" /\ Invalid(r)
  BY <1>1, <1>5 DEF AnsweredAtOnce, AtOnceErrors
<1>6. CASE r.url # "unparsable" /\ ~Invalid(r) /\ header # "accepted"
  <2>1. a = Fail(AuthFailure(header))
    BY <1>1, <1>6 DEF AnsweredAtOnce
  <2> QED
    BY <1>3, <2>1 DEF AtOnceErrors
<1>7. CASE r.url # "unparsable" /\ ~Invalid(r) /\ header = "accepted"
  <2>1. a = late
    BY <1>1, <1>7 DEF AnsweredAtOnce
  <2> QED
    BY <1>2, <2>1 DEF AtOnceErrors
<1> QED
  BY <1>1, <1>4, <1>5, <1>6, <1>7

-----------------------------------------------------------------------------
(* The two adapters                                                        *)

\* The adapter of the tests answers as the deployed one, from the same list.
Agree(l, r, docker, memory) ==
    /\ controlAnswer(r.op, docker.reply) = memory.reply
    /\ IF r.op = "create" /\ memory.reply = Fail("TAB_URL_INVALID")
       THEN docker.list = l /\ memory.list = Cleared(View(docker.list))
       ELSE memory.list = View(docker.list)

LEMMA BothRefuse ==
    ASSUME NEW l, NEW r, NEW code \in Relayed, r.op # "create" \/ code # "TAB_URL_INVALID"
    PROVE  Agree(l, r, Refuse(l, code), Refuse(View(l), code))
<1>0. code # "TAB_URL_INVALID" => Fail(code) # Fail("TAB_URL_INVALID")
  BY DEF Fail
<1>1. /\ Refuse(l, code).list = l /\ Refuse(l, code).reply = Fail(code)
      /\ Refuse(View(l), code).list = View(l) /\ Refuse(View(l), code).reply = Fail(code)
  BY DEF Refuse
<1> QED
  BY <1>0, <1>1, ControlFailureIs DEF Agree

LEMMA BothDone ==
    ASSUME NEW l, NEW r, NEW after, NEW body, NEW status, status = Expected(r.op),
           r.op = "list" => ListIsValid(body)
    PROVE  Agree(l, r, Done(after, status, body), Done(View(after), status, body))
<1> DEFINE reply == [status |-> status, body |-> body]
<1>1. /\ Done(after, status, body).list = after /\ Done(after, status, body).reply = reply
      /\ Done(View(after), status, body).list = View(after)
      /\ Done(View(after), status, body).reply = reply
  BY DEF Done
<1>2. reply.status = status /\ reply.body = body
  OBVIOUS
<1> HIDE DEF reply
<1>3. controlAnswer(r.op, reply) = reply
  BY <1>2, ControlSuccessIs
<1>4. ~(r.op = "create" /\ reply = Fail("TAB_URL_INVALID"))
  BY <1>2 DEF Expected, Fail, StatusOf
<1> QED
  BY <1>1, <1>3, <1>4 DEF Agree

LEMMA HasTabIs ==
    ASSUME NEW l \in TabLists, NEW id
    PROVE  /\ HasTab(View(l), id) <=> id \in IdsOf(l)
           /\ id \in IdsOf(l) => /\ At(View(l), id) \in 1..Len(l.tabs)
                                 /\ l.tabs[At(View(l), id)] = id
<1>1. HasTab(View(l), id) <=> \E i \in 1..Len(l.tabs) : l.tabs[i] = id
  BY ViewIs DEF HasTab
<1>2. id \in IdsOf(l) <=> \E i \in 1..Len(l.tabs) : l.tabs[i] = id
  BY ListIs DEF IdsOf
<1>3. ASSUME id \in IdsOf(l)
      PROVE  At(View(l), id) \in DOMAIN View(l) /\ View(l)[At(View(l), id)].id = id
  BY <1>1, <1>2, <1>3 DEF HasTab, At
<1> QED
  BY <1>1, <1>2, <1>3, ViewIs

LEMMA AcknowledgedIs == \A l, done : AfterCommand("OK", l, done) = done
BY DEF AfterCommand

LEMMA CreateAgrees ==
    ASSUME NEW l \in TabLists, NEW r, r.op = "create", NEW id \in Ids \ IdsOf(l),
           UrlRefused(r.url) <=> MemoryRefuses(r.url)
    PROVE  Agree(l, r, ControllerCreate(l, r.url, id, "OK"), MemoryCreate(View(l), r.url, id))
<1> DEFINE docker == ControllerCreate(l, r.url, id, "OK")
           memory == MemoryCreate(View(l), r.url, id)
           more == [tabs |-> Append(l.tabs, id), active |-> id]
           cleared == Cleared(View(l))
           longer == Append(cleared, Tab(id, TRUE))
<1>1. /\ Len(l.tabs) \in Nat /\ MaximumTabs \in Nat /\ Len(View(l)) = Len(l.tabs)
      /\ l.tabs \in Seq(Ids) /\ \A i \in 1..Len(l.tabs) : l.tabs[i] # id /\ l.tabs[i] \in Ids
  BY ListIs, ViewIs DEF IdsOf
<1>2. CASE Len(l.tabs) >= MaximumTabs
  <2>1. docker = Refuse(l, "TAB_LIMIT_REACHED") /\ memory = Refuse(View(l), "TAB_LIMIT_REACHED")
    <3>1. /\ Len(View(l)) >= MaximumTabs
          /\ ~(Len(View(l)) < MaximumTabs) /\ ~(Len(l.tabs) < MaximumTabs)
      BY <1>1, <1>2
    <3>2. docker = Refuse(l, "TAB_LIMIT_REACHED")
      BY <1>2, <3>1 DEF ControllerCreate
    <3>3. memory = Refuse(View(l), "TAB_LIMIT_REACHED")
      BY <3>1 DEF MemoryCreate
    <3> QED
      BY <3>2, <3>3
  <2>2. "TAB_LIMIT_REACHED" \in Relayed /\ "TAB_LIMIT_REACHED" # "TAB_URL_INVALID"
    BY DEF Relayed
  <2> QED
    BY <2>1, <2>2, BothRefuse
<1>3. CASE ~(Len(l.tabs) >= MaximumTabs) /\ UrlRefused(r.url)
  <2>1. Len(l.tabs) < MaximumTabs /\ MemoryRefuses(r.url)
    BY <1>1, <1>3
  <2>2. docker = Refuse(l, "TAB_URL_INVALID")
    BY <1>3, <2>1 DEF ControllerCreate
  <2>3. memory = Refuse(cleared, "TAB_URL_INVALID")
    BY <1>1, <1>3, <2>1 DEF MemoryCreate
  <2> HIDE DEF docker, memory
  <2>4. /\ docker.reply = Fail("TAB_URL_INVALID") /\ memory.reply = Fail("TAB_URL_INVALID")
        /\ docker.list = l /\ memory.list = Cleared(View(l))
    BY <2>2, <2>3 DEF Refuse
  <2>5. "TAB_URL_INVALID" \in Relayed
    BY DEF Relayed
  <2>6. Agree(l, r, docker, memory)
    BY <2>4, <2>5, ControlFailureIs DEF Agree
  <2> QED
    BY <2>6 DEF docker, memory
<1>4. CASE ~(Len(l.tabs) >= MaximumTabs) /\ ~UrlRefused(r.url)
  <2>1. docker = Done(more, 201, Tab(id, TRUE))
    BY <1>4, AcknowledgedIs DEF ControllerCreate
  <2>2. memory = Done(longer, 201, Tab(id, TRUE))
    BY <1>1, <1>4 DEF MemoryCreate
  <2>3. more \in TabLists
    <3>1. Honest(l, r, docker)
      BY CreateHonest
    <3>2. docker.list = more
      BY <2>1 DEF Done
    <3> HIDE DEF docker
    <3> QED
      BY <3>1, <3>2 DEF Honest
  <2>4. longer = View(more)
    <3> DEFINE S == [id : Ids, active : BOOLEAN]
    <3>1. /\ Append(l.tabs, id) \in Seq(Ids) /\ Len(Append(l.tabs, id)) = Len(l.tabs) + 1
          /\ \A i \in 1..Len(l.tabs) : Append(l.tabs, id)[i] = l.tabs[i]
          /\ Append(l.tabs, id)[Len(l.tabs) + 1] = id
      BY <1>1
    <3>2. more.tabs = Append(l.tabs, id) /\ more.active = id
      OBVIOUS
    <3>3. cleared = [i \in 1..Len(l.tabs) |-> Tab(l.tabs[i], FALSE)]
      BY ViewIs DEF Cleared, Flagged
    <3>4. \A i \in 1..Len(l.tabs) : Tab(l.tabs[i], FALSE) \in S
      BY <1>1 DEF Tab
    <3>5. Tab(id, TRUE) \in S
      BY DEF Tab
    <3> HIDE DEF cleared, S, more
    <3>6. cleared \in [1..Len(l.tabs) -> S]
      BY <3>3, <3>4
    <3>7. cleared \in Seq(S) /\ Len(cleared) = Len(l.tabs)
      BY <1>1, <3>6, FunctionIsSeq
    <3>8. /\ longer \in Seq(S) /\ Len(longer) = Len(l.tabs) + 1
          /\ \A i \in 1..Len(l.tabs) : longer[i] = cleared[i]
          /\ longer[Len(l.tabs) + 1] = Tab(id, TRUE)
      <4> HIDE DEF longer
      <4>1. PICK tab \in S : tab = Tab(id, TRUE)
        BY <3>5
      <4>2. longer = Append(cleared, tab)
        BY <4>1 DEF longer
      <4>3. /\ longer \in Seq(S) /\ Len(longer) = Len(cleared) + 1
            /\ \A i \in 1..Len(cleared) : longer[i] = cleared[i]
            /\ longer[Len(cleared) + 1] = tab
        BY <3>7, <4>2, AppendedIs
      <4> QED
        BY <3>7, <4>1, <4>3
    <3> HIDE DEF longer
    <3>9. /\ View(more) \in Seq(S) /\ Len(View(more)) = Len(l.tabs) + 1
          /\ \A i \in 1..Len(l.tabs) + 1 : View(more)[i] = Tab(more.tabs[i], more.tabs[i] = id)
      <4>1. View(more) \in Seq(S) /\ Len(View(more)) = Len(more.tabs)
        BY <2>3, ViewIs DEF S
      <4>2. \A i \in 1..Len(more.tabs) : View(more)[i] = Tab(more.tabs[i], more.tabs[i] = more.active)
        BY <2>3, ViewIs
      <4>3. Len(more.tabs) = Len(l.tabs) + 1
        BY <3>1, <3>2
      <4> QED
        BY <3>2, <4>1, <4>2, <4>3
    <3>10. ASSUME NEW i \in 1..Len(longer) PROVE longer[i] = View(more)[i]
      <4>1. CASE i \in 1..Len(l.tabs)
        <5>1. longer[i] = Tab(l.tabs[i], FALSE)
          BY <3>3, <3>8, <4>1
        <5>2. View(more)[i] = Tab(l.tabs[i], l.tabs[i] = id) /\ l.tabs[i] # id
          BY <1>1, <3>1, <3>2, <3>9, <4>1
        <5> QED
          BY <5>1, <5>2
      <4>2. CASE i = Len(l.tabs) + 1
        BY <1>1, <3>1, <3>2, <3>8, <3>9, <4>2
      <4> QED
        BY <1>1, <3>8, <4>1, <4>2
    <3> QED
      BY <3>8, <3>9, <3>10, SeqEqual
  <2> HIDE DEF docker, memory, more, longer
  <2>5. Agree(l, r, docker, memory)
    BY <2>1, <2>2, <2>4, BothDone DEF Expected
  <2> QED
    BY <2>5 DEF docker, memory
<1> QED
  BY <1>2, <1>3, <1>4

LEMMA ActivateAgrees ==
    ASSUME NEW l \in TabLists, NEW r, r.op = "activate"
    PROVE  Agree(l, r, ControllerActivate(l, r.tab, "OK"), MemoryActivate(View(l), r.tab))
<1> DEFINE docker == ControllerActivate(l, r.tab, "OK")
           memory == MemoryActivate(View(l), r.tab)
           flagged == Flagged(View(l), LAMBDA t : t.id = r.tab)
           shown == IF r.tab = l.active THEN l ELSE [l EXCEPT !.active = r.tab]
<1>1. l.active \in IdsOf(l)
  BY ListIs
<1>2. CASE r.tab \notin IdsOf(l)
  <2>1. docker = Refuse(l, "TAB_NOT_FOUND")
    BY <1>1, <1>2 DEF ControllerActivate
  <2>2. memory = Refuse(View(l), "TAB_NOT_FOUND")
    BY <1>2, HasTabIs DEF MemoryActivate
  <2>3. "TAB_NOT_FOUND" \in Relayed
    BY DEF Relayed
  <2> QED
    BY <2>1, <2>2, <2>3, BothRefuse
<1>3. CASE r.tab \in IdsOf(l)
  <2>1. docker = Done(shown, 200, Tab(r.tab, TRUE))
    BY <1>3, AcknowledgedIs DEF ControllerActivate
  <2>2. memory = Done(flagged, 200, Tab(r.tab, TRUE))
    BY <1>3, HasTabIs DEF MemoryActivate
  <2>3. shown.tabs = l.tabs /\ shown.active = r.tab
    BY ListIs
  <2>4. flagged = [i \in 1..Len(l.tabs) |-> Tab(l.tabs[i], l.tabs[i] = r.tab)]
    BY ViewIs DEF Flagged
  <2> HIDE DEF docker, memory, shown, flagged
  <2>5. View(shown) = flagged
    BY <2>3, <2>4, ListIs DEF View
  <2>6. Agree(l, r, docker, memory)
    BY <2>1, <2>2, <2>5, BothDone DEF Expected
  <2> QED
    BY <2>6 DEF docker, memory
<1> QED
  BY <1>2, <1>3

LEMMA NavigateAgrees ==
    ASSUME NEW l \in TabLists, NEW r, r.op = "navigate",
           UrlRefused(r.url) <=> MemoryRefuses(r.url)
    PROVE  Agree(l, r, ControllerNavigate(l, r.tab, r.url, "OK"),
                       MemoryNavigate(View(l), r.tab, r.url))
<1> DEFINE docker == ControllerNavigate(l, r.tab, r.url, "OK")
           memory == MemoryNavigate(View(l), r.tab, r.url)
<1>1. "TAB_NOT_FOUND" \in Relayed /\ "TAB_URL_INVALID" \in Relayed
  BY DEF Relayed
<1>2. HasTab(View(l), r.tab) \in BOOLEAN /\ (HasTab(View(l), r.tab) <=> r.tab \in IdsOf(l))
  BY HasTabIs DEF HasTab
<1>3. CASE r.tab \notin IdsOf(l)
  <2>1. docker = Refuse(l, "TAB_NOT_FOUND")
    BY <1>3 DEF ControllerNavigate
  <2>2. memory = Refuse(View(l), "TAB_NOT_FOUND")
    BY <1>2, <1>3 DEF MemoryNavigate
  <2> QED
    BY <1>1, <2>1, <2>2, BothRefuse
<1>4. CASE r.tab \in IdsOf(l) /\ UrlRefused(r.url)
  <2>1. docker = Refuse(l, "TAB_URL_INVALID")
    BY <1>4 DEF ControllerNavigate
  <2>2. memory = Refuse(View(l), "TAB_URL_INVALID")
    BY <1>2, <1>4 DEF MemoryNavigate
  <2> QED
    BY <1>1, <2>1, <2>2, BothRefuse
<1>5. CASE r.tab \in IdsOf(l) /\ ~UrlRefused(r.url)
  <2>1. docker = Done(l, 200, Tab(r.tab, r.tab = l.active))
    BY <1>5, AcknowledgedIs DEF ControllerNavigate
  <2>2. memory = Done(View(l), 200, View(l)[At(View(l), r.tab)])
    BY <1>2, <1>5 DEF MemoryNavigate
  <2>3. View(l)[At(View(l), r.tab)] = Tab(r.tab, r.tab = l.active)
    BY <1>5, HasTabIs, ViewIs
  <2> HIDE DEF docker, memory
  <2>4. Agree(l, r, docker, memory)
    BY <2>1, <2>2, <2>3, BothDone DEF Expected
  <2> QED
    BY <2>4 DEF docker, memory
<1> QED
  BY <1>3, <1>4, <1>5

LEMMA RaisedIs ==
    ASSUME NEW x
    PROVE  [Tab(x, FALSE) EXCEPT !.active = TRUE] = Tab(x, TRUE)
<1> DEFINE t == [Tab(x, FALSE) EXCEPT !.active = TRUE]
<1>1. t \in [id : {x}, active : BOOLEAN]
  BY DEF Tab
<1>2. t.id = x /\ t.active = TRUE
  BY DEF Tab
<1> HIDE DEF t
<1>3. t = [id |-> t.id, active |-> t.active]
  BY <1>1
<1> QED
  BY <1>2, <1>3 DEF Tab, t

LEMMA DeleteAgrees ==
    ASSUME NEW l \in TabLists, NEW r, r.op = "delete"
    PROVE  Agree(l, r, ControllerRemove(l, r.tab, "OK"), MemoryDelete(View(l), r.tab))
<1> DEFINE docker == ControllerRemove(l, r.tab, "OK")
           memory == MemoryDelete(View(l), r.tab)
           n == Len(l.tabs)
<1>1. /\ n \in Nat /\ Len(View(l)) = n /\ l.active \in IdsOf(l)
      /\ \A i, j \in 1..n : l.tabs[i] = l.tabs[j] => i = j
  BY ListIs, ViewIs
<1>2. HasTab(View(l), r.tab) \in BOOLEAN /\ (HasTab(View(l), r.tab) <=> r.tab \in IdsOf(l))
  BY HasTabIs DEF HasTab
<1>3. "TAB_NOT_FOUND" \in Relayed /\ "TAB_MINIMUM_REACHED" \in Relayed
  BY DEF Relayed
<1>4. CASE r.tab \notin IdsOf(l)
  <2>1. docker = Refuse(l, "TAB_NOT_FOUND")
    BY <1>4 DEF ControllerRemove
  <2>2. memory = Refuse(View(l), "TAB_NOT_FOUND")
    BY <1>2, <1>4 DEF MemoryDelete
  <2> QED
    BY <1>3, <2>1, <2>2, BothRefuse
<1>5. CASE r.tab \in IdsOf(l) /\ n = 1
  <2>1. docker = Refuse(l, "TAB_MINIMUM_REACHED")
    BY <1>5 DEF ControllerRemove
  <2>2. memory = Refuse(View(l), "TAB_MINIMUM_REACHED")
    BY <1>1, <1>2, <1>5 DEF MemoryDelete
  <2> QED
    BY <1>3, <2>1, <2>2, BothRefuse
<1>6. CASE r.tab \in IdsOf(l) /\ n # 1
  <2> DEFINE at == At(View(l), r.tab)
             kept == RemoveAt(View(l), at)
             flagged == IF View(l)[at].active THEN [kept EXCEPT ![1].active = TRUE] ELSE kept
             rest == Without(l, r.tab)
             less == [tabs |-> rest,
                      active |-> IF r.tab = l.active THEN rest[1] ELSE l.active]
  <2>1. docker = Done(less, 204, "empty")
    BY <1>6, AcknowledgedIs DEF ControllerRemove
  <2>2. memory = Done(flagged, 204, "empty")
    BY <1>1, <1>2, <1>6 DEF MemoryDelete
  <2>3. less \in TabLists
    <3>1. Honest(l, r, docker)
      BY RemoveHonest
    <3>2. docker.list = less
      BY <2>1 DEF Done
    <3> HIDE DEF docker, less
    <3> QED
      BY <3>1, <3>2 DEF Honest
  <2>4. at \in 1..n /\ l.tabs[at] = r.tab /\ View(l)[at].active = (r.tab = l.active)
    BY <1>6, HasTabIs, ViewIs
  <2>5. /\ Len(rest) = n - 1
        /\ \A i \in 1..n - 1 : rest[i] = l.tabs[IF i < at THEN i ELSE i + 1]
        /\ \A i, j \in 1..n - 1 : rest[i] = rest[j] => i = j
        /\ \A i \in 1..n - 1 : rest[i] # r.tab
    <3>1. PICK k \in 1..n :
            /\ l.tabs[k] = r.tab /\ Len(rest) = n - 1 /\ DOMAIN rest = 1..n - 1
            /\ \A i \in 1..n - 1 : rest[i] = l.tabs[IF i < k THEN i ELSE i + 1]
            /\ \A i, j \in 1..n - 1 : rest[i] = rest[j] => i = j
            /\ {rest[i] : i \in DOMAIN rest} = IdsOf(l) \ {r.tab}
      BY <1>6, WithoutIs
    <3> HIDE DEF rest
    <3>2. k = at
      BY <1>1, <2>4, <3>1
    <3>3. \A i \in 1..n - 1 : rest[i] # r.tab
      BY <3>1
    <3> QED
      BY <3>1, <3>2, <3>3
  <2>6. /\ kept \in Seq([id : Ids, active : BOOLEAN]) /\ Len(kept) = n - 1
        /\ \A i \in 1..n - 1 : kept[i] = View(l)[IF i < at THEN i ELSE i + 1]
    <3>1. View(l) \in Seq([id : Ids, active : BOOLEAN]) /\ at \in 1..Len(View(l))
      BY <1>1, <2>4, ViewIs
    <3> HIDE DEF at
    <3> QED
      BY <1>1, <3>1, RemoveAtIs
  <2>7. \A i \in 1..n - 1 : kept[i] = Tab(rest[i], rest[i] = l.active)
    <3> SUFFICES ASSUME NEW i \in 1..n - 1 PROVE kept[i] = Tab(rest[i], rest[i] = l.active)
      OBVIOUS
    <3> HIDE DEF at, kept, rest
    <3> DEFINE j == IF i < at THEN i ELSE i + 1
    <3>1. j \in 1..n
      BY <1>1, <2>4
    <3>2. kept[i] = View(l)[j] /\ rest[i] = l.tabs[j]
      BY <2>5, <2>6
    <3> HIDE DEF j
    <3> QED
      BY <3>1, <3>2, ViewIs
  <2>8. less.tabs = rest /\ less.active = IF r.tab = l.active THEN rest[1] ELSE l.active
    OBVIOUS
  <2> HIDE DEF less
  <2>9. /\ View(less) \in Seq([id : Ids, active : BOOLEAN]) /\ Len(View(less)) = n - 1
        /\ \A i \in 1..n - 1 : View(less)[i] = Tab(rest[i], rest[i] = less.active)
    <3> HIDE DEF rest
    <3>1. /\ View(less) \in Seq([id : Ids, active : BOOLEAN]) /\ Len(View(less)) = Len(less.tabs)
          /\ \A i \in 1..Len(less.tabs) : View(less)[i] = Tab(less.tabs[i], less.tabs[i] = less.active)
      BY <2>3, ViewIs
    <3> QED
      BY <2>5, <2>8, <3>1
  <2> HIDE DEF at, kept, rest
  <2>10. ASSUME r.tab # l.active PROVE flagged = View(less)
    <3>1. flagged = kept /\ less.active = l.active
      BY <2>4, <2>8, <2>10
    <3>2. \A i \in 1..Len(kept) : kept[i] = View(less)[i]
      BY <2>6, <2>7, <2>9, <3>1
    <3> HIDE DEF flagged
    <3>3. kept = View(less)
      BY <2>6, <2>9, <3>2, SeqEqual
    <3> QED
      BY <3>1, <3>3
  <2>11. ASSUME r.tab = l.active PROVE flagged = View(less)
    <3>1. flagged = [kept EXCEPT ![1].active = TRUE] /\ less.active = rest[1]
      BY <2>4, <2>8, <2>11
    <3>2. 1 \in 1..n - 1 /\ n \in Nat
      <4>1. PICK k : k = n
        OBVIOUS
      <4>2. k \in Nat /\ k # 0 /\ k # 1
        BY <1>1, <1>6, <2>4, <4>1
      <4> HIDE DEF n
      <4>3. 1 \in 1..k - 1
        BY <4>2
      <4> QED
        BY <4>1, <4>2, <4>3
    <3>3. \A i \in 1..n - 1 : rest[i] = less.active <=> i = 1
      BY <2>5, <3>1, <3>2
    <3>4. \A i \in 1..n - 1 : kept[i] = Tab(rest[i], FALSE)
      BY <2>5, <2>7, <2>11
    <3>5. [kept[1] EXCEPT !.active = TRUE] = Tab(rest[1], TRUE)
      <4>1. kept[1] = Tab(rest[1], FALSE)
        BY <3>2, <3>4
      <4> QED
        BY <4>1, RaisedIs
    <3>6. flagged = [kept EXCEPT ![1] = Tab(rest[1], TRUE)]
      BY <3>1, <3>5
    <3>7. Tab(rest[1], TRUE) \in [id : Ids, active : BOOLEAN]
      <4>1. View(less)[1] \in [id : Ids, active : BOOLEAN]
        BY <2>9, <3>2, ElementOfSeq
      <4>2. View(less)[1] = Tab(rest[1], TRUE)
        BY <2>9, <3>2, <3>3
      <4> QED
        BY <4>1, <4>2
    <3> HIDE DEF flagged
    <3>8. /\ flagged \in Seq([id : Ids, active : BOOLEAN]) /\ Len(flagged) = n - 1
          /\ \A i \in 1..n - 1 : flagged[i] = IF i = 1 THEN Tab(rest[1], TRUE) ELSE kept[i]
      <4> DEFINE S == [id : Ids, active : BOOLEAN]
      <4>1. PICK tab \in S : tab = Tab(rest[1], TRUE)
        BY <3>7
      <4>2. kept \in Seq(S) /\ Len(kept) = n - 1 /\ 1 \in 1..Len(kept)
        BY <2>6, <3>2
      <4> HIDE DEF S, n
      <4>3. /\ [kept EXCEPT ![1] = tab] \in Seq(S) /\ Len([kept EXCEPT ![1] = tab]) = Len(kept)
            /\ \A i \in 1..Len(kept) : [kept EXCEPT ![1] = tab][i] = IF i = 1 THEN tab ELSE kept[i]
        BY <4>2, ExceptSeq
      <4>4. flagged = [kept EXCEPT ![1] = tab]
        BY <3>6, <4>1
      <4>5. /\ flagged \in Seq(S) /\ Len(flagged) = n - 1
            /\ \A i \in 1..n - 1 : flagged[i] = IF i = 1 THEN Tab(rest[1], TRUE) ELSE kept[i]
        BY <4>1, <4>2, <4>3, <4>4
      <4> QED
        BY <4>5 DEF S
    <3>9. \A i \in 1..n - 1 : View(less)[i] = IF i = 1 THEN Tab(rest[1], TRUE) ELSE Tab(rest[i], FALSE)
      BY <2>9, <3>3
    <3>10. \A i \in 1..Len(flagged) : flagged[i] = View(less)[i]
      BY <3>4, <3>8, <3>9
    <3> QED
      BY <2>9, <3>8, <3>10, SeqEqual
  <2>12. flagged = View(less)
    BY <2>10, <2>11
  <2> HIDE DEF docker, memory, flagged
  <2>13. Agree(l, r, docker, memory)
    BY <2>1, <2>2, <2>12, BothDone DEF Expected
  <2> QED
    BY <2>13 DEF docker, memory
<1> QED
  BY <1>4, <1>5, <1>6

-----------------------------------------------------------------------------
(* The theorems                                                            *)

Listed == containers \in [Sessions -> TabLists]

\* What a request makes of the tabs and what its client is told.
Outcome(e) ==
    /\ \A s \in Sessions : containers'[s] # containers[s] => e.session = s /\ e.tenant = s
    /\ ~IsError(e.answer) => Performed(e, containers[e.session], containers'[e.session])
    /\ IsError(e.answer) /\ e.answer # Unavailable =>
          /\ UNCHANGED containers
          /\ e.answer.body \in Relayed => ReasonIsReal(e, containers[e.session])

LEMMA RecordIs ==
    ASSUME NEW r, NEW session, NEW tenant, NEW answer
    PROVE  LET e == Record(r, session, tenant, answer) IN
           /\ e.request = r /\ e.session = session /\ e.tenant = tenant /\ e.answer = answer
           /\ \A l, m : Performed(e, l, m) <=> Performed(Told(r, answer), l, m)
           /\ \A l : ReasonIsReal(e, l) <=> ReasonIsReal(Told(r, answer), l)
<1> DEFINE e == Record(r, session, tenant, answer)
<1>1. e.request = r /\ e.session = session /\ e.tenant = tenant /\ e.answer = answer
  BY DEF Record
<1>2. Told(r, answer).request = r /\ Told(r, answer).answer = answer
  BY DEF Told
<1> HIDE DEF e
<1>3. \A l, m : Performed(e, l, m) <=> Performed(Told(r, answer), l, m)
  BY <1>1, <1>2 DEF Performed
<1>4. \A l : ReasonIsReal(e, l) <=> ReasonIsReal(Told(r, answer), l)
  BY <1>1, <1>2 DEF ReasonIsReal
<1> QED
  BY <1>1, <1>3, <1>4 DEF e

\* A request that no container is asked.
LEMMA UnaskedOutcome ==
    ASSUME Listed, NEW r, NEW session, NEW tenant, NEW a \in AtOnceErrors \union {Unavailable},
           exchange' = Record(r, session, tenant, a), UNCHANGED containers
    PROVE  Listed' /\ Outcome(exchange')
<1>1. exchange'.answer = a
  BY RecordIs
<1>2. IsError(a) /\ (a # Unavailable => a.body \notin Relayed)
  BY AtOnceErrorIs, UnavailableIs
<1> QED
  BY <1>1, <1>2 DEF Listed, Outcome

LEMMA ForwardedOutcome ==
    ASSUME Listed, NEW r \in Requests, NEW session \in Sessions, NEW peer \in Sessions,
           NEW native, NEW lost \in BOOLEAN, NEW id,
           r.op = "create" => id \in Unused,
           LET outcome == handleTabRequest(peer, containers[peer], r, session, id, native)
           IN  /\ containers' = [containers EXCEPT ![peer] = outcome.list]
               /\ exchange' = Record(r, session, session,
                      IF lost THEN Unavailable ELSE controlAnswer(r.op, outcome.reply))
    PROVE  Listed' /\ Outcome(exchange')
<1> DEFINE l == containers[peer]
           o == handleTabRequest(peer, l, r, session, id, native)
           a == controlAnswer(r.op, o.reply)
           told == IF lost THEN Unavailable ELSE a
<1>1. l \in TabLists
  BY DEF Listed
<1>2. r.op = "create" => id \in Ids \ IdsOf(l)
  BY DEF Unused
<1>3. Honest(l, r, o)
  BY <1>1, <1>2, HandleHonest
<1>4. session # peer => o.list = l /\ a = Unavailable
  <2> SUFFICES ASSUME session # peer PROVE o.list = l /\ a = Unavailable
    OBVIOUS
  <2>1. o = Refuse(l, "INTERNAL_AUTH_REQUIRED")
    BY HandleIs
  <2>2. o.list = l /\ o.reply = Fail("INTERNAL_AUTH_REQUIRED")
    BY <2>1 DEF Refuse
  <2>3. "INTERNAL_AUTH_REQUIRED" \notin Relayed
    BY DEF Relayed
  <2> HIDE DEF o
  <2> QED
    BY <2>2, <2>3, ControlFailureIs
<1>5. containers' = [containers EXCEPT ![peer] = o.list]
  OBVIOUS
<1>6. exchange' = Record(r, session, session, told)
  OBVIOUS
<1> HIDE DEF o
<1>7. /\ o.list \in TabLists
      /\ ~IsError(a) => Performed(Told(r, a), l, o.list)
      /\ IsError(a) /\ a # Unavailable =>
            o.list = l /\ (a.body \in Relayed => ReasonIsReal(Told(r, a), l))
  BY <1>1, <1>3, AnswerHonest
<1> HIDE DEF a
<1>8. told = a \/ told = Unavailable
  OBVIOUS
<1> HIDE DEF told
<1>9. /\ exchange'.session = session /\ exchange'.tenant = session /\ exchange'.answer = told
      /\ \A k, m : Performed(exchange', k, m) <=> Performed(Told(r, told), k, m)
      /\ \A k : ReasonIsReal(exchange', k) <=> ReasonIsReal(Told(r, told), k)
  BY <1>6, RecordIs
<1>10. /\ Listed' /\ containers'[peer] = o.list
       /\ \A s \in Sessions \ {peer} : containers'[s] = containers[s]
       /\ o.list = l => containers' = containers
  BY <1>1, <1>5, <1>7 DEF Listed
<1>11. \A s \in Sessions : containers'[s] # containers[s] => s = session
  BY <1>4, <1>10
<1>12. ~IsError(told) => Performed(exchange', containers[session], containers'[session])
  <2> SUFFICES ASSUME ~IsError(told)
               PROVE  Performed(exchange', containers[session], containers'[session])
    OBVIOUS
  <2>1. told = a /\ session = peer
    BY <1>4, <1>8, UnavailableIs
  <2> QED
    BY <1>7, <1>9, <1>10, <2>1
<1>13. IsError(told) /\ told # Unavailable =>
          /\ UNCHANGED containers
          /\ told.body \in Relayed => ReasonIsReal(exchange', containers[session])
  <2> SUFFICES ASSUME IsError(told), told # Unavailable
               PROVE  /\ UNCHANGED containers
                      /\ told.body \in Relayed => ReasonIsReal(exchange', containers[session])
    OBVIOUS
  <2>1. told = a /\ session = peer
    BY <1>4, <1>8
  <2> QED
    BY <1>7, <1>9, <1>10, <2>1
<1> QED
  BY <1>9, <1>10, <1>11, <1>12, <1>13 DEF Outcome

LEMMA InitListed == Init => Listed
<1> SUFFICES ASSUME Init PROVE Listed
  OBVIOUS
<1>1. ASSUME NEW id \in Ids PROVE [tabs |-> <<id>>, active |-> id] \in TabLists
  <2> DEFINE l == [tabs |-> <<id>>, active |-> id]
  <2>1. l.tabs = <<id>> /\ l.active = id /\ l = [tabs |-> l.tabs, active |-> l.active]
    OBVIOUS
  <2>2. <<id>> \in Seq(Ids) /\ Len(<<id>>) = 1 /\ <<id>>[1] = id /\ 1 \in 1..MaximumTabs
    BY TabApiAssumption
  <2> HIDE DEF l
  <2>3. \E i \in 1..Len(l.tabs) : l.tabs[i] = l.active
    BY <2>1, <2>2
  <2>4. \A i, j \in 1..Len(l.tabs) : l.tabs[i] = l.tabs[j] => i = j
    BY <2>1, <2>2
  <2>5. l \in TabLists
    BY <2>1, <2>2, <2>3, <2>4, TabListIs
  <2> QED
    BY <2>5 DEF l
<1> QED
  BY <1>1 DEF Init, Listed

LEMMA StepOutcome ==
    ASSUME Listed, [Next]_vars
    PROVE  /\ Listed'
           /\ exchange = None => UNCHANGED vars \/ Outcome(exchange')
           /\ exchange # None => UNCHANGED containers
<1>1. ASSUME NEW op, Serve(op)
      PROVE  exchange = None /\ Listed' /\ Outcome(exchange')
  <2>1. PICK r \in Requests : Refused(r) \/ Forwarded(r)
    BY <1>1 DEF Serve
  <2>2. CASE Refused(r)
    <3>1. PICK session \in Sessions \union {None}, header \in Headers, tenant \in Sessions,
               inspection \in {"running", "stopped", "error"} :
             LET answer == AnsweredAtOnce(r, session, header, tenant, inspection)
             IN  /\ answer # None
                 /\ exchange' = Record(r, session,
                                       IF header = "accepted" THEN tenant ELSE None, answer)
                 /\ UNCHANGED containers
      BY <2>2 DEF Refused
    <3>2. AnsweredAtOnce(r, session, header, tenant, inspection) \in AtOnceErrors
      BY <3>1, AtOnceIs
    <3> QED
      BY <1>1, <3>1, <3>2, UnaskedOutcome DEF Serve
  <2>3. CASE Forwarded(r)
    <3>1. PICK session \in Sessions, tenant \in Sessions, peer \in Sessions \union {None},
               native \in {"OK", "ERR", "gone"}, lost \in BOOLEAN :
             /\ AnsweredAtOnce(r, session, "accepted", tenant, "running") = None
             /\ IF peer = None
                THEN /\ exchange' = Record(r, session, tenant, Unavailable)
                     /\ UNCHANGED containers
                ELSE \E id \in (IF r.op = "create" THEN Unused ELSE {None}) :
                       LET outcome == handleTabRequest(peer, containers[peer], r, session, id, native)
                       IN  /\ containers' = [containers EXCEPT ![peer] = outcome.list]
                           /\ exchange' = Record(r, session, tenant,
                                 IF lost THEN Unavailable ELSE controlAnswer(r.op, outcome.reply))
      BY <2>3 DEF Forwarded
    <3>2. session = tenant
      BY <3>1, AtOnceIs, AtOnceErrorIs
    <3>3. CASE peer = None
      BY <1>1, <3>1, <3>3, UnaskedOutcome DEF Serve
    <3>4. CASE peer # None
      <4>1. PICK id \in (IF r.op = "create" THEN Unused ELSE {None}) :
               LET outcome == handleTabRequest(peer, containers[peer], r, session, id, native)
               IN  /\ containers' = [containers EXCEPT ![peer] = outcome.list]
                   /\ exchange' = Record(r, session, session,
                         IF lost THEN Unavailable ELSE controlAnswer(r.op, outcome.reply))
        BY <3>1, <3>2, <3>4
      <4>2. peer \in Sessions /\ (r.op = "create" => id \in Unused)
        BY <3>4
      <4> QED
        BY <1>1, <4>1, <4>2, ForwardedOutcome DEF Serve
    <3> QED
      BY <3>3, <3>4
  <2> QED
    BY <2>1, <2>2, <2>3
<1>2. CASE Deliver
  BY <1>2 DEF Deliver, Listed
<1>3. CASE UNCHANGED vars
  BY <1>3 DEF vars, Listed
<1> QED
  BY <1>1, <1>2, <1>3 DEF Next, ListTabs, CreateTab, ActivateTab, NavigateTab, DeleteTab

LEMMA ListedInvariance == Spec => []Listed
<1>1. Listed /\ [Next]_vars => Listed'
  BY StepOutcome
<1> QED
  BY <1>1, InitListed, PTL DEF Spec

\* Every list that a TabController comes to is one that the adapter's listTabs
\* accepts: the control plane never finds fault with a healthy session.
THEOREM ListsStayAccepted == Spec => []ListsAreAccepted
<1>1. Listed => ListsAreAccepted
  BY ViewIsValid DEF Listed, ListsAreAccepted
<1> QED
  BY <1>1, ListedInvariance, PTL

\* What a client is told is what happened in the container of its session, and
\* an error other than "unavailable" means that nothing was changed.
THEOREM AnswersStayTrue == Spec => AnswersAreTrue
<1>1. ASSUME Listed, [Next]_vars
      PROVE  [exchange = None =>
                LET e == exchange'
                IN  IF ~IsError(e.answer)
                    THEN Performed(e, containers[e.session], containers'[e.session])
                    ELSE e.answer # Unavailable =>
                            /\ UNCHANGED containers
                            /\ e.answer.body \in Relayed =>
                                  ReasonIsReal(e, containers[e.session])]_vars
  BY <1>1, StepOutcome DEF Outcome
<1> QED
  BY <1>1, ListedInvariance, PTL DEF Spec, AnswersAreTrue

\* A request changes no tabs but those of the session it names, and only when it
\* comes from the tenant of that session, whoever listens on the port by then.
THEOREM OwnTabsOnly == Spec => OnlyOwnTabs
<1>1. ASSUME Listed, [Next]_vars
      PROVE  [\A s \in Sessions : containers'[s] # containers[s] =>
                 exchange'.session = s /\ exchange'.tenant = s]_vars
  BY <1>1, StepOutcome DEF Outcome
<1> QED
  BY <1>1, ListedInvariance, PTL DEF Spec, OnlyOwnTabs

\* InMemoryRuntime, which the repository's tests use, answers every plain request
\* as the deployed adapter does.  The lists they come to are the same but after a
\* creation refused for its URL, which takes the flag of the active tab from the
\* list of InMemoryRuntime and changes nothing else of either.
THEOREM AdaptersStayAgreed == Spec => []AdaptersAgree
<1>1. ASSUME Listed, NEW s \in Sessions, NEW r \in Requests, Plain(r),
             NEW id \in (IF r.op = "create" THEN Unused ELSE {None})
      PROVE  Agree(containers[s], r, handleTabRequest(s, containers[s], r, s, id, "OK"),
                   InMemory(MemoryOf(containers[s]), r, id))
  <2> DEFINE l == containers[s]
             docker == handleTabRequest(s, l, r, s, id, "OK")
             memory == InMemory(MemoryOf(l), r, id)
  <2>1. l \in TabLists /\ (r.op = "create" => id \in Ids \ IdsOf(l))
    BY <1>1 DEF Listed, Unused
  <2>2. ~NoRoute(r) /\ ~BodyRefused(r) /\ (UrlRefused(r.url) <=> MemoryRefuses(r.url))
    BY <1>1 DEF Plain, NoRoute, BodyRefused, UrlRefused, MemoryRefuses
  <2>3. /\ r.op = "list" => docker = Done(l, 200, View(l))
        /\ r.op = "create" => docker = ControllerCreate(l, r.url, id, "OK")
        /\ r.op = "activate" => docker = ControllerActivate(l, r.tab, "OK")
        /\ r.op = "navigate" => docker = ControllerNavigate(l, r.tab, r.url, "OK")
        /\ r.op = "delete" => docker = ControllerRemove(l, r.tab, "OK")
    BY <2>2, HandleIs
  <2>4. /\ r.op = "list" => memory = Done(View(l), 200, View(l))
        /\ r.op = "create" => memory = MemoryCreate(View(l), r.url, id)
        /\ r.op = "activate" => memory = MemoryActivate(View(l), r.tab)
        /\ r.op = "navigate" => memory = MemoryNavigate(View(l), r.tab, r.url)
        /\ r.op = "delete" => memory = MemoryDelete(View(l), r.tab)
    BY DEF InMemory, MemoryOf
  <2> HIDE DEF docker, memory, l
  <2>5. r.op = "list" => Agree(l, r, docker, memory)
    BY <2>1, <2>3, <2>4, BothDone, ViewIsValid DEF Expected
  <2>6. Agree(l, r, docker, memory)
    BY <2>1, <2>2, <2>3, <2>4, <2>5, RequestIs,
       CreateAgrees, ActivateAgrees, NavigateAgrees, DeleteAgrees
  <2> QED
    BY <2>6 DEF docker, memory, l
<1>2. Listed => AdaptersAgree
  BY <1>1 DEF AdaptersAgree, Agree, MemoryOf
<1> QED
  BY <1>2, ListedInvariance, PTL
=============================================================================
