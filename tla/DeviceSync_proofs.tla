--------------------------- MODULE DeviceSync_proofs ---------------------------
(***************************************************************************)
(* The types of DeviceSync, and that calm means accurate, for every kind   *)
(* of device, every set of values and any number of changes and faults.    *)
(***************************************************************************)
EXTENDS DeviceSync, ExtremaLemmas, SequenceTheorems

Cached == Values \union BOOLEAN \union {None}

-----------------------------------------------------------------------------
(* What StateCache.set() for a list of items leaves in the cache *)

\* Among the first n items none is for attribute a, or number k is the last one.
NoneFor(its, n, a) == \A j \in 1..n : its[j].attr # a
LastFor(its, n, a, k) ==
    its[k].attr = a /\ \A j \in 1..n : j > k => its[j].attr # a

LEMMA CacheDomain ==
  ASSUME NEW c, NEW its, NEW n
  PROVE DOMAIN CacheAfter(c, its, n) = DOMAIN c
  BY DEF CacheAfter

LEMMA CacheLast ==
  ASSUME NEW c, NEW its, NEW n \in Nat, NEW a \in DOMAIN c,
         NEW k \in 1..n, its[k].attr = a,
         \A j \in 1..n : j > k => its[j].attr # a
  PROVE CacheAfter(c, its, n)[a] = its[k].value
<1> DEFINE set == {j \in 1..n : its[j].attr = a}
<1>1. set \subseteq 0..n /\ k \in set /\ \A j \in set : j <= k
  OBVIOUS
<1>2. CacheAfter(c, its, n)[a] = IF set = {} THEN c[a] ELSE its[Max(set)].value
  BY DEF CacheAfter
<1> HIDE DEF set
<1>3. Max(set) = k BY <1>1, MaxIs
<1> QED BY <1>1, <1>2, <1>3

LEMMA CacheNone ==
  ASSUME NEW c, NEW its, NEW n \in Nat, NEW a \in DOMAIN c,
         \A j \in 1..n : its[j].attr # a
  PROVE CacheAfter(c, its, n)[a] = c[a]
  BY DEF CacheAfter

LEMMA CacheCases ==
  ASSUME NEW its, NEW n \in Nat, NEW a
  PROVE NoneFor(its, n, a) \/ \E k \in 1..n : LastFor(its, n, a, k)
<1> USE DEF NoneFor, LastFor
<1> DEFINE set == {j \in 1..n : its[j].attr = a}
<1>1. CASE set = {} BY <1>1
<1>2. CASE set # {}
  <2>1. set \subseteq 0..n OBVIOUS
  <2>2. PICK k \in set : \A j \in set : j <= k
    BY <1>2, <2>1, GreatestElement
  <2>3. \A j \in 1..n : j > k => its[j].attr # a
    BY <2>2
  <2> QED BY <2>3
<1> QED BY <1>1, <1>2

LEMMA CacheStep ==
  ASSUME NEW c, NEW its, NEW n \in Nat, NEW a \in DOMAIN c
  PROVE CacheAfter(c, its, n + 1)[a] =
            IF its[n + 1].attr = a THEN its[n + 1].value
                                   ELSE CacheAfter(c, its, n)[a]
<1>0. /\ n + 1 \in Nat /\ n + 1 \in 1..(n + 1)
      /\ \A j \in 1..(n + 1) : j = n + 1 \/ j \in 1..n
      /\ \A j \in 1..n : j \in 1..(n + 1)
  OBVIOUS
<1>1. CASE its[n + 1].attr = a
  <2>1. \A j \in 1..(n + 1) : j > n + 1 => its[j].attr # a OBVIOUS
  <2> QED BY <1>0, <1>1, <2>1, CacheLast
<1>2. CASE its[n + 1].attr # a /\ \A j \in 1..n : its[j].attr # a
  <2>1. \A j \in 1..(n + 1) : its[j].attr # a BY <1>0, <1>2
  <2> QED BY <1>0, <1>2, <2>1, CacheNone
<1>3. ASSUME its[n + 1].attr # a, NEW k \in 1..n, its[k].attr = a,
             \A j \in 1..n : j > k => its[j].attr # a
      PROVE CacheAfter(c, its, n + 1)[a] = CacheAfter(c, its, n)[a]
  <2>1. \A j \in 1..(n + 1) : j > k => its[j].attr # a BY <1>0, <1>3
  <2>2. k \in 1..(n + 1) BY <1>0
  <2>3. CacheAfter(c, its, n + 1)[a] = its[k].value
    BY <1>0, <1>3, <2>1, <2>2, CacheLast
  <2>4. CacheAfter(c, its, n)[a] = its[k].value BY <1>3, CacheLast
  <2> QED BY <2>3, <2>4
<1>4. NoneFor(its, n, a) \/ \E k \in 1..n : LastFor(its, n, a, k)
  BY CacheCases
<1> QED BY <1>1, <1>2, <1>3, <1>4 DEF NoneFor, LastFor

LEMMA CacheType ==
  ASSUME NEW c, NEW S, c \in [DOMAIN c -> S], NEW its, NEW n \in Nat,
         \A k \in 1..n : its[k].value \in S
  PROVE CacheAfter(c, its, n) \in [DOMAIN c -> S]
<1>1. ASSUME NEW a \in DOMAIN c PROVE CacheAfter(c, its, n)[a] \in S
  <2>1. CASE \A j \in 1..n : its[j].attr # a
    BY <2>1, CacheNone
  <2>2. ASSUME NEW k \in 1..n, its[k].attr = a,
               \A j \in 1..n : j > k => its[j].attr # a
        PROVE CacheAfter(c, its, n)[a] \in S
    <3>1. CacheAfter(c, its, n)[a] = its[k].value BY <2>2, CacheLast
    <3> QED BY <3>1
  <2>3. NoneFor(its, n, a) \/ \E k \in 1..n : LastFor(its, n, a, k)
    BY CacheCases
  <2> QED BY <2>1, <2>2, <2>3 DEF NoneFor, LastFor
<1> QED BY <1>1 DEF CacheAfter

\* Processing a list up to m and then the rest of it is processing the list.
LEMMA CacheSplit ==
  ASSUME NEW c, NEW S, NEW its \in Seq(S), NEW m \in 0..Len(its)
  PROVE CacheAfter(CacheAfter(c, its, m), SubSeq(its, m + 1, Len(its)),
                   Len(SubSeq(its, m + 1, Len(its)))) =
            CacheAfter(c, its, Len(its))
<1> DEFINE n == Len(its)
           tail == SubSeq(its, m + 1, n)
           d == CacheAfter(c, its, m)
<1>0. n \in Nat /\ m \in Nat /\ m <= n OBVIOUS
<1>1. Len(tail) = n - m /\ \A k \in 1..(n - m) : tail[k] = its[m + k]
  OBVIOUS
<1>2. DOMAIN d = DOMAIN c BY CacheDomain
<1> HIDE DEF n, tail
<1>3. n - m \in Nat BY <1>0
<1> DEFINE l == n - m
<1>l. l \in Nat /\ m + l = n BY <1>0, <1>3
<1> HIDE DEF l
<1>4. ASSUME NEW a \in DOMAIN c
      PROVE CacheAfter(d, tail, l)[a] = CacheAfter(c, its, n)[a]
  <2>1. CASE \A j \in 1..l : tail[j].attr # a
    <3>1. \A j \in 1..n : j > m => its[j].attr # a
      <4> SUFFICES ASSUME NEW j \in 1..n, j > m PROVE its[j].attr # a OBVIOUS
      <4>1. j - m \in 1..l /\ m + (j - m) = j BY <1>0, <1>l
      <4> QED BY <4>1, <1>1, <2>1 DEF l
    <3>2. CacheAfter(d, tail, l)[a] = d[a]
      BY <1>l, <1>2, <2>1, CacheNone
    <3>3. CASE \A j \in 1..m : its[j].attr # a
      <4>1. \A j \in 1..n : its[j].attr # a BY <3>1, <3>3, <1>0
      <4> QED BY <3>2, <3>3, <4>1, <1>0, CacheNone
    <3>4. ASSUME NEW k \in 1..m, its[k].attr = a,
                 \A j \in 1..m : j > k => its[j].attr # a
          PROVE CacheAfter(d, tail, l)[a] = CacheAfter(c, its, n)[a]
      <4>1. d[a] = its[k].value BY <1>0, <3>4, CacheLast
      <4>2. k \in 1..n /\ \A j \in 1..n : j > k => its[j].attr # a
        BY <1>0, <3>1, <3>4
      <4>3. CacheAfter(c, its, n)[a] = its[k].value
        BY <1>0, <3>4, <4>2, CacheLast
      <4> QED BY <3>2, <4>1, <4>3
    <3>5. NoneFor(its, m, a) \/ \E k \in 1..m : LastFor(its, m, a, k)
      BY <1>0, CacheCases
    <3> QED BY <3>3, <3>4, <3>5 DEF NoneFor, LastFor
  <2>2. ASSUME NEW k \in 1..l, tail[k].attr = a,
               \A j \in 1..l : j > k => tail[j].attr # a
        PROVE CacheAfter(d, tail, l)[a] = CacheAfter(c, its, n)[a]
    <3>1. CacheAfter(d, tail, l)[a] = tail[k].value
      BY <1>l, <1>2, <2>2, CacheLast
    <3>2. tail[k] = its[m + k] BY <1>1 DEF l
    <3>3. m + k \in 1..n BY <1>0, <1>l
    <3>4. \A j \in 1..n : j > m + k => its[j].attr # a
      <4> SUFFICES ASSUME NEW j \in 1..n, j > m + k PROVE its[j].attr # a OBVIOUS
      <4>1. j - m \in 1..l /\ j - m > k /\ m + (j - m) = j BY <1>0, <1>l
      <4> QED BY <4>1, <1>1, <2>2 DEF l
    <3>5. CacheAfter(c, its, n)[a] = its[m + k].value
      BY <1>0, <2>2, <3>2, <3>3, <3>4, CacheLast
    <3> QED BY <3>1, <3>2, <3>5
  <2>3. NoneFor(tail, l, a) \/ \E k \in 1..l : LastFor(tail, l, a, k)
    BY <1>l, CacheCases
  <2> QED BY <2>1, <2>2, <2>3 DEF NoneFor, LastFor
<1>5. CacheAfter(d, tail, l) = CacheAfter(c, its, n)
  BY <1>2, <1>4 DEF CacheAfter
<1> QED BY <1>1, <1>5 DEF l, n, tail

\* Items that are not published leave the cache of an attribute with an entity as
\* it is: the dedup compares with what was published last.
LEMMA CacheQuiet ==
  ASSUME NEW c, NEW its, NEW known, NEW n \in Nat, NEW a \in DOMAIN c,
         kind.entityOf[a] \in Range(known),
         \A k \in 1..n : ~ Publishes(c, its, k, known)
  PROVE CacheAfter(c, its, n)[a] = c[a]
<1> DEFINE wrong == {m \in 0..n : CacheAfter(c, its, m)[a] # c[a]}
<1> SUFFICES ASSUME wrong # {} PROVE FALSE
  OBVIOUS
<1>1. wrong \subseteq Nat OBVIOUS
<1>2. PICK m \in wrong : \A k \in wrong : m <= k
  BY <1>1, LeastElement
<1>3. CacheAfter(c, its, 0)[a] = c[a]
  BY CacheNone
<1>4. m # 0 BY <1>3
<1>5. PICK p \in 0..n : m = p + 1 /\ p = m - 1 /\ m \in 1..n
  BY <1>4
<1>6. p < m /\ p \in Nat BY <1>5
<1>7. CacheAfter(c, its, p)[a] = c[a] BY <1>2, <1>5, <1>6
<1>a. CacheAfter(c, its, p + 1)[a] =
          IF its[p + 1].attr = a THEN its[p + 1].value ELSE CacheAfter(c, its, p)[a]
  BY <1>6, CacheStep
<1>8. its[m].attr = a /\ its[m].value # CacheAfter(c, its, m - 1)[a]
  BY <1>2, <1>5, <1>7, <1>a
<1> QED BY <1>5, <1>8 DEF Publishes

-----------------------------------------------------------------------------
(* What a run of Process leaves behind *)

Ended(t) == IF t = "main" THEN "waiting" ELSE "listening"
ForThisDevice(its) ==
    its \in Seq(Item) /\ \A n \in 1..Len(its) : its[n].attr \in DOMAIN kind.entityOf

\* The first publish of a list.
LEMMA FirstPublish ==
  ASSUME NEW c, NEW its \in Seq(Item), NEW known,
         \E n \in 1..Len(its) : Publishes(c, its, n, known)
  PROVE LET sending == {n \in 1..Len(its) : Publishes(c, its, n, known)}
            first == CHOOSE n \in sending : \A k \in sending : n <= k
        IN /\ first \in 1..Len(its) /\ Publishes(c, its, first, known)
           /\ \A k \in 1..(first - 1) : ~ Publishes(c, its, k, known)
<1> DEFINE sending == {n \in 1..Len(its) : Publishes(c, its, n, known)}
           first == CHOOSE n \in sending : \A k \in sending : n <= k
<1>1. sending \subseteq Nat /\ sending # {} OBVIOUS
<1>2. \E n \in sending : \A k \in sending : n <= k
  BY <1>1, LeastElement
<1>3. first \in sending /\ \A k \in sending : first <= k
  BY <1>2
<1> HIDE DEF first
<1>4. first \in 1..Len(its) /\ Publishes(c, its, first, known) BY <1>3
<1>5. ASSUME NEW k \in 1..(first - 1) PROVE ~ Publishes(c, its, k, known)
  BY <1>3, <1>4
<1> QED BY <1>4, <1>5 DEF first

\* The payload is made of the cache as it is then, and has the item.
LEMMA PayloadIsCache ==
  ASSUME kind \in Kinds, NEW c \in [DOMAIN kind.entityOf -> Cached], NEW i \in Item,
         i.attr \in DOMAIN kind.entityOf, kind.entityOf[i.attr] # None,
         c[i.attr] = i.value
  PROVE /\ i.attr \in DOMAIN Payload(c, i)
        /\ DOMAIN Payload(c, i) \subseteq Mapped
        /\ \A a \in DOMAIN Payload(c, i) :
              Payload(c, i)[a] = c[a] /\ c[a] \in Values \union BOOLEAN
<1>0. i.value \in Values \union BOOLEAN /\ i.value # None
  BY DeviceSyncAssumption DEF Item
<1>1. CASE kind.entityOf[i.attr] \in kind.snapshots
  BY <1>0, <1>1 DEF Payload, AttributesOf, Mapped, Cached
<1>2. CASE kind.entityOf[i.attr] \notin kind.snapshots
  BY <1>0, <1>2 DEF Payload, Mapped
<1> QED BY <1>1, <1>2

LEMMA ProcessEffect ==
  ASSUME TypeOK, NEW t \in Tasks, NEW c \in [DOMAIN kind.entityOf -> Cached],
         NEW its, ForThisDevice(its), NEW known, None \notin Range(known),
         NEW label, Process(t, c, its, known, label)
  PROVE /\ cache' \in [DOMAIN kind.entityOf -> Cached]
        /\ pc' = [pc EXCEPT ![t] = pc'[t]]
        /\ items' = [items EXCEPT ![t] = items'[t]]
        /\ out' = [out EXCEPT ![t] = out'[t]]
        /\ ForThisDevice(items'[t])
        /\ Len(its) < 2 => items'[t] = <<>>
        /\ DOMAIN out'[t] \subseteq Mapped
        /\ \A a \in DOMAIN out'[t] :
              out'[t][a] = cache'[a] /\ cache'[a] \in Values \union BOOLEAN
        /\ \/ pc'[t] = label
           \/ pc'[t] = Ended(t) /\ items'[t] = <<>> /\ DOMAIN out'[t] = {}
        /\ (\E n \in 1..Len(its) : Publishes(c, its, n, known)) => pc'[t] = label
        /\ CacheAfter(cache', items'[t], Len(items'[t])) = CacheAfter(c, its, Len(its))
        /\ \A a \in DOMAIN kind.entityOf :
              kind.entityOf[a] \in Range(known) =>
                  /\ cache'[a] = c[a] \/ a \in DOMAIN out'[t]
                  /\ Forced(its, a) => a \in DOMAIN out'[t] \/ Forced(items'[t], a)
<1> DEFINE n == Len(its)
           sending == {k \in 1..n : Publishes(c, its, k, known)}
           first == CHOOSE k \in sending : \A l \in sending : k <= l
<1>0. its \in Seq(Item) /\ n \in Nat /\ \A k \in 1..n : its[k] \in Item
  BY DEF ForThisDevice
<1>c. c \in [DOMAIN c -> Cached] /\ DOMAIN c = DOMAIN kind.entityOf OBVIOUS
<1>v. \A k \in 1..n : its[k].value \in Cached BY <1>0 DEF Item, Cached
<1>p. pc \in [Tasks -> MainPc \union WsPc] /\ items \in [Tasks -> Seq(Item)]
      /\ DOMAIN out = Tasks /\ kind \in Kinds
  BY DEF TypeOK
<1>1. CASE sending = {}
  <2>1. /\ cache' = CacheAfter(c, its, n)
        /\ items' = [items EXCEPT ![t] = <<>>]
        /\ out' = [out EXCEPT ![t] = <<>>]
        /\ pc' = [pc EXCEPT ![t] = Ended(t)]
    BY <1>1 DEF Process, Goto, Ended
  <2>2. cache' \in [DOMAIN kind.entityOf -> Cached]
    BY <1>0, <1>c, <1>v, <2>1, CacheType
  <2>3. CacheAfter(cache', <<>>, 0) = cache'
    BY <2>1, CacheDomain DEF CacheAfter
  <2>4. \A a \in DOMAIN kind.entityOf :
            kind.entityOf[a] \in Range(known) => cache'[a] = c[a] /\ ~ Forced(its, a)
    <3> SUFFICES ASSUME NEW a \in DOMAIN kind.entityOf,
                        kind.entityOf[a] \in Range(known)
                 PROVE cache'[a] = c[a] /\ ~ Forced(its, a)
      OBVIOUS
    <3>1. \A k \in 1..n : ~ Publishes(c, its, k, known) BY <1>1
    <3>2. cache'[a] = c[a] BY <1>0, <1>c, <2>1, <3>1, CacheQuiet
    <3>3. ~ Forced(its, a) BY <3>1 DEF Forced, Publishes
    <3> QED BY <3>2, <3>3
  <2>5. items'[t] = <<>> /\ out'[t] = <<>> /\ pc'[t] = Ended(t) BY <1>p, <2>1
  <2>6. ForThisDevice(<<>>) /\ Len(<<>>) = 0 /\ DOMAIN <<>> = {}
    BY DEF ForThisDevice
  <2> QED BY <1>1, <2>1, <2>2, <2>3, <2>4, <2>5, <2>6
<1>2. CASE sending # {}
  <2>1. first \in 1..n /\ Publishes(c, its, first, known)
        /\ \A k \in 1..(first - 1) : ~ Publishes(c, its, k, known)
    BY <1>0, <1>2, FirstPublish
  <2> DEFINE d == CacheAfter(c, its, first)
             rest == SubSeq(its, first + 1, n)
  <2>2. /\ cache' = d
        /\ items' = [items EXCEPT ![t] = rest]
        /\ out' = [out EXCEPT ![t] = Payload(d, its[first])]
        /\ pc' = [pc EXCEPT ![t] = label]
    BY <1>2 DEF Process, Goto
  <2> HIDE DEF first
  <2>f. first \in Nat /\ first - 1 \in Nat /\ (first - 1) + 1 = first BY <2>1
  <2>3. d \in [DOMAIN kind.entityOf -> Cached]
    <3>1. \A k \in 1..first : its[k].value \in Cached BY <1>0, <1>v, <2>1
    <3> QED BY <1>c, <2>f, <3>1, CacheType
  <2>4. its[first].attr \in DOMAIN c /\ its[first] \in Item
    BY <1>0, <1>c, <2>1 DEF ForThisDevice
  <2>5. d[its[first].attr] = its[first].value
    BY <2>f, <2>1, <2>4, CacheLast
  <2>6. CacheAfter(d, rest, Len(rest)) = CacheAfter(c, its, n)
    <3>1. first \in 0..Len(its) BY <2>1, <1>0
    <3> QED BY <1>0, <3>1, CacheSplit
  <2>7. Len(rest) = n - first /\ \A k \in 1..(n - first) : rest[k] = its[first + k]
    BY <1>0, <2>1
  <2>8. rest \in Seq(Item) BY <1>0, <2>1
  <2> DEFINE payload == Payload(d, its[first])
  <2>9. /\ its[first].attr \in DOMAIN payload
        /\ DOMAIN payload \subseteq Mapped
        /\ \A a \in DOMAIN payload :
              payload[a] = d[a] /\ d[a] \in Values \union BOOLEAN
    <3>1. kind.entityOf[its[first].attr] # None BY <2>1 DEF Publishes
    <3> QED BY <1>p, <1>c, <2>3, <2>4, <2>5, <3>1, PayloadIsCache
  <2> HIDE DEF d, rest, payload
  <2>10. ForThisDevice(rest)
    <3>1. ASSUME NEW k \in 1..Len(rest) PROVE rest[k].attr \in DOMAIN kind.entityOf
      <4>1. k \in 1..(n - first) /\ first + k \in 1..n BY <1>0, <2>1, <2>7
      <4> QED BY <2>7, <4>1 DEF ForThisDevice
    <3> QED BY <2>8, <3>1 DEF ForThisDevice
  <2>11. n < 2 => rest = <<>>
    BY <1>0, <2>1, <2>7, <2>8
  <2>12. ASSUME NEW a \in DOMAIN kind.entityOf, kind.entityOf[a] \in Range(known)
         PROVE /\ d[a] = c[a] \/ a \in DOMAIN payload
               /\ Forced(its, a) => a \in DOMAIN payload \/ Forced(rest, a)
    <3>1. CASE its[first].attr = a BY <2>9, <3>1
    <3>2. CASE its[first].attr # a
      <4>1. CacheAfter(c, its, first - 1)[a] = c[a]
        BY <1>c, <2>f, <2>1, <2>12, CacheQuiet
      <4>2. d[a] = CacheAfter(c, its, first - 1)[a]
        <5>1. \A p \in Nat : p + 1 = first => d[a] = CacheAfter(c, its, p)[a]
          BY <1>c, <3>2, CacheStep DEF d
        <5> QED BY <5>1, <2>f
      <4>3. ASSUME NEW k \in 1..n, its[k].attr = a, its[k].force PROVE Forced(rest, a)
        <5>1. ~ (k \in 1..(first - 1))
          BY <2>1, <2>12, <4>3 DEF Publishes
        <5>2. k # first BY <3>2, <4>3
        <5>3. k - first \in 1..(n - first) /\ first + (k - first) = k
          BY <1>0, <2>1, <5>1, <5>2
        <5>4. rest[k - first] = its[k] /\ k - first \in 1..Len(rest) BY <2>7, <5>3
        <5> QED BY <4>3, <5>4 DEF Forced
      <4> QED BY <4>1, <4>2, <4>3 DEF Forced
    <3> QED BY <3>1, <3>2
  <2>13. items'[t] = rest /\ out'[t] = payload /\ pc'[t] = label
    BY <1>p, <2>2 DEF payload
  <2> QED BY <2>2, <2>3, <2>6, <2>9, <2>10, <2>11, <2>12, <2>13
<1> QED BY <1>1, <1>2

-----------------------------------------------------------------------------
(* Types: the pieces of a step *)

\* The part of the type invariant that a run of Process touches.
WorkTyped ==
    /\ cache \in [DOMAIN kind.entityOf -> Cached]
    /\ pc \in [Tasks -> MainPc \union WsPc]
    /\ pc["main"] \in MainPc /\ pc["ws"] \in WsPc
    /\ items \in [Tasks -> Seq(Item)] /\ DOMAIN out = Tasks
    /\ \A t \in Tasks :
          /\ ForThisDevice(items[t])
          /\ pc[t] # "publishing" => items[t] = <<>>
          /\ DOMAIN out[t] \subseteq Mapped
          /\ \A a \in DOMAIN out[t] : out[t][a] \in Values \union BOOLEAN

LEMMA WorkOfType == ASSUME TypeInv PROVE WorkTyped
  BY DEF TypeInv, TypeOK, InLoop, Spoken, WorkTyped, ForThisDevice, Cached

LEMMA NoneIsNoEntity == ASSUME TypeOK PROVE None \notin Range(entities)
  BY DeviceSyncAssumption DEF TypeOK, Range

LEMMA DeviceIsTyped == ASSUME TypeOK PROVE ThisDevice \in Device
  BY DEF TypeOK

LEMMA AttributesAreMapped ==
  ASSUME kind \in Kinds
  PROVE /\ DOMAIN kind.entityOf = Range(kind.attributes) \union {"isReachable"}
        /\ "isReachable" \notin Range(kind.attributes)
        /\ Range(kind.attributes) \subseteq Attributes
        /\ Range(kind.entities) \subseteq Entities
        /\ \A a \in DOMAIN kind.entityOf :
              kind.entityOf[a] \in Range(kind.entities) \union {None}
<1>1. Range(kind.attributes) \subseteq Attributes BY DEF Attributes
<1>2. Range(kind.entities) \subseteq Entities BY DEF Entities
<1>3. \A a \in DOMAIN kind.entityOf :
          kind.entityOf[a] \in Range(kind.entities) \union {None}
  BY DeviceSyncAssumption DEF Range
<1> QED BY <1>1, <1>2, <1>3, DeviceSyncAssumption

\* The lists the handlers process.
LEMMA AttributeItemsTyped ==
  ASSUME kind \in Kinds, NEW dev \in Device
  PROVE /\ ForThisDevice(AttributeItems(dev))
        /\ Len(AttributeItems(dev)) = Len(kind.attributes)
<1> DEFINE n == Len(kind.attributes)
<1>1. kind.attributes \in Seq(Attributes) /\ n \in Nat
  BY DeviceSyncAssumption
<1>2. ASSUME NEW k \in 1..n
      PROVE /\ kind.attributes[k] \in Range(kind.attributes)
            /\ dev.value[kind.attributes[k]] \in Values
  BY <1>1 DEF Device, Range
<1>3. ASSUME NEW k \in 1..n
      PROVE [attr |-> kind.attributes[k], value |-> dev.value[kind.attributes[k]],
             force |-> TRUE] \in Item
  BY <1>2, AttributesAreMapped DEF Item, Reported
<1>4. AttributeItems(dev) \in Seq(Item) /\ Len(AttributeItems(dev)) = n
  BY <1>1, <1>3, SeqDef DEF AttributeItems
<1>5. \A k \in 1..n : AttributeItems(dev)[k].attr \in DOMAIN kind.entityOf
  BY <1>2, AttributesAreMapped DEF AttributeItems
<1> QED BY <1>4, <1>5 DEF ForThisDevice

\* Attribute a is among the first n items, and has value v wherever it is.
AlwaysFor(its, n, a, v) ==
    /\ \E k \in 1..n : its[k].attr = a
    /\ \A k \in 1..n : its[k].attr = a => its[k].value = v

LEMMA CacheValue ==
  ASSUME NEW c, NEW its, NEW n \in Nat, NEW a \in DOMAIN c, NEW v,
         AlwaysFor(its, n, a, v)
  PROVE CacheAfter(c, its, n)[a] = v
<1>1. PICK k \in 1..n : LastFor(its, n, a, k)
  BY CacheCases DEF NoneFor, AlwaysFor
<1>2. CacheAfter(c, its, n)[a] = its[k].value
  BY <1>1, CacheLast DEF LastFor
<1> QED BY <1>1, <1>2 DEF LastFor, AlwaysFor

LEMMA CacheUntouched ==
  ASSUME NEW c, NEW its, NEW n \in Nat, NEW a \in DOMAIN c, NoneFor(its, n, a)
  PROVE CacheAfter(c, its, n)[a] = c[a]
  BY CacheNone DEF NoneFor

\* An attribute of the device is in its list, with the value it has.
LEMMA AttributeItemsValue ==
  ASSUME kind \in Kinds, NEW dev, NEW a \in Range(kind.attributes)
  PROVE /\ AlwaysFor(AttributeItems(dev), Len(kind.attributes), a, dev.value[a])
        /\ \E k \in 1..Len(kind.attributes) :
              AttributeItems(dev)[k].attr = a /\ AttributeItems(dev)[k].force
<1>1. kind.attributes \in Seq(Attributes)
  BY DeviceSyncAssumption
<1>2. PICK k \in 1..Len(kind.attributes) : kind.attributes[k] = a
  BY <1>1 DEF Range
<1> QED BY <1>2 DEF AttributeItems, AlwaysFor

LEMMA DeviceItemsEffect ==
  ASSUME kind \in Kinds, NEW dev \in Device,
         NEW c \in [DOMAIN kind.entityOf -> Cached]
  PROVE LET its == DeviceItems(dev)
            d == CacheAfter(c, its, Len(its))
        IN /\ ForThisDevice(its)
           /\ \A a \in DOMAIN kind.entityOf : Forced(its, a)
           /\ d["isReachable"] = dev.reach
           /\ \A a \in Range(kind.attributes) : d[a] = dev.value[a]
<1> DEFINE first == [attr |-> "isReachable", value |-> dev.reach, force |-> TRUE]
           rest == AttributeItems(dev)
           its == <<first>> \o rest
           n == Len(rest)
<1>0. DeviceItems(dev) = its BY DEF DeviceItems
<1>1. rest \in Seq(Item) /\ n = Len(kind.attributes) /\ n \in Nat
      /\ \A k \in 1..n : rest[k].attr \in Range(kind.attributes)
  <2>1. \A k \in 1..n : rest[k].attr \in Range(kind.attributes)
    BY AttributeItemsTyped, DeviceSyncAssumption DEF AttributeItems, Range
  <2> QED BY <2>1, AttributeItemsTyped DEF ForThisDevice
<1>2. first \in Item BY DEF Item, Device, Reported
<1>v. \A a \in Range(kind.attributes) :
          /\ AlwaysFor(rest, n, a, dev.value[a])
          /\ \E k \in 1..n : rest[k].attr = a /\ rest[k].force
  BY <1>1, AttributeItemsValue
<1>f. first.attr = "isReachable" /\ first.value = dev.reach /\ first.force
  OBVIOUS
<1> HIDE DEF first, rest
<1>3. its \in Seq(Item) /\ Len(its) = n + 1 /\ its[1] = first
      /\ \A k \in 1..n : its[k + 1] = rest[k]
  BY <1>1, <1>2
<1> HIDE DEF its, n
<1>4. \A k \in 1..(n + 1) : k = 1 \/ \E j \in 1..n : k = j + 1 /\ its[k] = rest[j]
  <2> SUFFICES ASSUME NEW k \in 1..(n + 1), k # 1
               PROVE \E j \in 1..n : k = j + 1 /\ its[k] = rest[j]
    OBVIOUS
  <2>1. k - 1 \in 1..n /\ k = (k - 1) + 1 BY <1>1
  <2>2. its[(k - 1) + 1] = rest[k - 1] BY <1>3, <2>1
  <2> QED BY <2>1, <2>2
<1>5. "isReachable" \notin Range(kind.attributes)
      /\ DOMAIN c = Range(kind.attributes) \union {"isReachable"}
  BY AttributesAreMapped
<1>n. n + 1 \in Nat /\ 1 \in 1..(n + 1) /\ \A k \in 1..n : k + 1 \in 1..(n + 1)
  BY <1>1
<1>6. ForThisDevice(its)
  BY <1>1, <1>3, <1>4, <1>5, <1>f DEF ForThisDevice
<1>7. ASSUME NEW a \in DOMAIN c PROVE Forced(its, a)
  <2>1. CASE a = "isReachable" BY <1>3, <1>f, <1>n, <2>1 DEF Forced
  <2>2. CASE a \in Range(kind.attributes)
    <3>1. PICK k \in 1..n : rest[k].attr = a /\ rest[k].force BY <1>v, <2>2
    <3>2. its[k + 1] = rest[k] /\ k + 1 \in 1..(n + 1) BY <1>3, <1>n
    <3> QED BY <1>3, <3>1, <3>2 DEF Forced
  <2> QED BY <1>5, <2>1, <2>2
<1>8. CacheAfter(c, its, n + 1)["isReachable"] = dev.reach
  <2>1. \A k \in 1..(n + 1) : its[k].attr = "isReachable" => its[k].value = dev.reach
    BY <1>1, <1>3, <1>4, <1>5, <1>f
  <2>2. \E k \in 1..(n + 1) : its[k].attr = "isReachable" BY <1>3, <1>f, <1>n
  <2>3. AlwaysFor(its, n + 1, "isReachable", dev.reach) BY <2>1, <2>2 DEF AlwaysFor
  <2> QED BY <1>5, <1>n, <2>3, CacheValue
<1>9. ASSUME NEW a \in Range(kind.attributes)
      PROVE CacheAfter(c, its, n + 1)[a] = dev.value[a]
  <2>1. \A k \in 1..(n + 1) : its[k].attr = a => its[k].value = dev.value[a]
    BY <1>v, <1>3, <1>4, <1>5, <1>f DEF AlwaysFor
  <2>2. \E k \in 1..(n + 1) : its[k].attr = a
    <3>1. PICK k \in 1..n : rest[k].attr = a BY <1>v
    <3>2. its[k + 1] = rest[k] /\ k + 1 \in 1..(n + 1) BY <1>3, <1>n
    <3> QED BY <3>1, <3>2
  <2>3. AlwaysFor(its, n + 1, a, dev.value[a]) BY <2>1, <2>2 DEF AlwaysFor
  <2> QED BY <1>5, <1>n, <2>3, CacheValue
<1> QED BY <1>0, <1>3, <1>5, <1>6, <1>7, <1>8, <1>9

LEMMA MessageItemsEffect ==
  ASSUME kind \in Kinds, NEW m \in Message,
         m.attr = None \/ (m.attr \in Range(kind.attributes) /\ m.value \in Values),
         NEW c \in [DOMAIN kind.entityOf -> Cached]
  PROVE LET its == MessageItems(m)
            d == CacheAfter(c, its, Len(its))
        IN /\ ForThisDevice(its) /\ Len(its) < 2
           /\ d["isReachable"] = c["isReachable"]
           /\ \A a \in Range(kind.attributes) :
                 d[a] = IF m.attr = a THEN m.value ELSE c[a]
<1>1. "isReachable" \notin Range(kind.attributes)
      /\ DOMAIN c = Range(kind.attributes) \union {"isReachable"}
      /\ None \notin Range(kind.attributes)
  BY AttributesAreMapped, DeviceSyncAssumption DEF Reported
<1>2. CASE m.attr = None
  BY <1>1, <1>2, CacheNone DEF MessageItems, ForThisDevice
<1>3. CASE m.attr # None
  <2> DEFINE i == [attr |-> m.attr, value |-> m.value, force |-> FALSE]
  <2>1. i \in Item /\ MessageItems(m) = <<i>>
    BY <1>3, AttributesAreMapped DEF Item, Reported, MessageItems
  <2>i. i.attr = m.attr /\ i.value = m.value OBVIOUS
  <2> HIDE DEF i
  <2>2. /\ ForThisDevice(<<i>>) /\ Len(<<i>>) = 1
        /\ <<i>>[1] = i
    BY <1>1, <1>3, <2>1, <2>i DEF ForThisDevice
  <2>3. ASSUME NEW a \in DOMAIN c, m.attr # a PROVE CacheAfter(c, <<i>>, 1)[a] = c[a]
    BY <2>2, <2>3, <2>i, CacheNone
  <2>4. ASSUME NEW a \in DOMAIN c, m.attr = a
        PROVE CacheAfter(c, <<i>>, 1)[a] = m.value
    <3>1. AlwaysFor(<<i>>, 1, a, m.value) BY <2>2, <2>4, <2>i DEF AlwaysFor
    <3> QED BY <3>1, CacheValue
  <2> QED BY <1>1, <1>3, <2>1, <2>2, <2>3, <2>4
<1> QED BY <1>2, <1>3

LEMMA RefreshItemsEffect ==
  ASSUME kind \in Kinds, NEW dev \in Device, NEW m \in Message,
         m.attr = None \/ (m.attr \in Range(kind.attributes) /\ m.value \in Values),
         NEW c \in [DOMAIN kind.entityOf -> Cached]
  PROVE LET its == AttributeItems(dev) \o MessageItems(m)
            d == CacheAfter(c, its, Len(its))
        IN /\ ForThisDevice(its)
           /\ d["isReachable"] = c["isReachable"]
           /\ \A a \in Range(kind.attributes) :
                 d[a] = IF m.attr = a THEN m.value ELSE dev.value[a]
<1> DEFINE left == AttributeItems(dev)
           right == MessageItems(m)
           its == left \o right
           n == Len(left)
           l == Len(right)
<1>1. /\ left \in Seq(Item) /\ n = Len(kind.attributes) /\ n \in Nat
      /\ \A k \in 1..n : left[k].attr \in Range(kind.attributes)
  <2>1. \A k \in 1..n : left[k].attr \in Range(kind.attributes)
    BY AttributeItemsTyped, DeviceSyncAssumption DEF AttributeItems, Range
  <2> QED BY <2>1, AttributeItemsTyped DEF ForThisDevice
<1>v. \A a \in Range(kind.attributes) : AlwaysFor(left, n, a, dev.value[a])
  BY <1>1, AttributeItemsValue
<1>2. right \in Seq(Item) BY MessageItemsEffect DEF ForThisDevice
<1>r. IF m.attr = None THEN l = 0
      ELSE l = 1 /\ right[1].attr = m.attr /\ right[1].value = m.value
  BY DEF MessageItems
<1>5. "isReachable" \notin Range(kind.attributes)
      /\ DOMAIN c = Range(kind.attributes) \union {"isReachable"}
      /\ None \notin Range(kind.attributes)
  BY AttributesAreMapped, DeviceSyncAssumption DEF Reported
<1> HIDE DEF left, right
<1>3. its \in Seq(Item) /\ Len(its) = n + l /\ l \in Nat
      /\ (\A k \in 1..n : its[k] = left[k])
      /\ \A k \in (n + 1)..(n + l) : its[k] = right[k - n]
  <2>1. /\ left \o right \in Seq(Item)
        /\ Len(left \o right) = Len(left) + Len(right)
        /\ \A k \in 1..(Len(left) + Len(right)) : (left \o right)[k] =
              IF k <= Len(left) THEN left[k] ELSE right[k - Len(left)]
    BY <1>1, <1>2, ConcatProperties
  <2>2. Len(right) \in Nat BY <1>2
  <2> QED BY <1>1, <2>1, <2>2
<1> HIDE DEF its, n, l
<1>4. CASE m.attr = None
  <2>1. n + l = n BY <1>1, <1>4, <1>r
  <2>2. ForThisDevice(its) BY <1>1, <1>3, <1>5, <2>1 DEF ForThisDevice
  <2>3. CacheAfter(c, its, n)["isReachable"] = c["isReachable"]
    <3>1. NoneFor(its, n, "isReachable") BY <1>1, <1>3, <1>5 DEF NoneFor
    <3> QED BY <1>1, <1>5, <3>1, CacheUntouched
  <2>4. ASSUME NEW a \in Range(kind.attributes)
        PROVE CacheAfter(c, its, n)[a] = dev.value[a]
    <3>1. a \in DOMAIN c BY <1>5
    <3>2. AlwaysFor(its, n, a, dev.value[a]) BY <1>v, <1>3 DEF AlwaysFor
    <3> QED BY <1>1, <3>1, <3>2, CacheValue
  <2> QED BY <1>3, <1>4, <1>5, <2>1, <2>2, <2>3, <2>4 DEF left, right, its
<1>6. CASE m.attr # None
  <2>1. n + l = n + 1 /\ n + 1 \in (n + 1)..(n + l) /\ (n + 1) - n = 1
    BY <1>1, <1>6, <1>r
  <2>2. its[n + 1] = right[1] BY <1>3, <2>1
  <2>3. its[n + 1].attr = m.attr /\ its[n + 1].value = m.value
    BY <1>6, <1>r, <2>2
  <2>4. \A k \in 1..(n + 1) : k = n + 1 \/ k \in 1..n BY <1>1
  <2>n. n + 1 \in Nat /\ n + 1 \in 1..(n + 1) BY <1>1
  <2>5. ForThisDevice(its)
    BY <1>1, <1>3, <1>5, <1>6, <2>1, <2>3, <2>4 DEF ForThisDevice
  <2>6. CacheAfter(c, its, n + 1)["isReachable"] = c["isReachable"]
    <3>1. \A k \in 1..(n + 1) : its[k].attr # "isReachable"
      BY <1>1, <1>3, <1>5, <1>6, <2>3, <2>4
    <3> QED BY <1>5, <2>n, <3>1, CacheNone
  <2>7. ASSUME NEW a \in Range(kind.attributes)
        PROVE CacheAfter(c, its, n + 1)[a] = IF m.attr = a THEN m.value ELSE dev.value[a]
    <3>0. a \in DOMAIN c BY <1>5
    <3>1. CASE m.attr = a
      <4>1. \A j \in 1..(n + 1) : j > n + 1 => its[j].attr # a BY <1>1
      <4> QED BY <2>3, <2>n, <3>0, <3>1, <4>1, CacheLast
    <3>2. CASE m.attr # a
      <4>1. \A k \in 1..(n + 1) : its[k].attr = a => its[k].value = dev.value[a]
        BY <1>v, <1>3, <2>3, <2>4, <3>2 DEF AlwaysFor
      <4>2. \E k \in 1..(n + 1) : its[k].attr = a
        <5>1. PICK k \in 1..n : left[k].attr = a BY <1>v DEF AlwaysFor
        <5>2. k \in 1..(n + 1) BY <1>1
        <5> QED BY <1>3, <5>1, <5>2
      <4>3. AlwaysFor(its, n + 1, a, dev.value[a]) BY <4>1, <4>2 DEF AlwaysFor
      <4> QED BY <2>n, <3>0, <3>2, <4>3, CacheValue
    <3> QED BY <3>1, <3>2
  <2> QED BY <1>3, <1>5, <1>6, <2>1, <2>5, <2>6, <2>7 DEF left, right, its
<1> QED BY <1>4, <1>6

-----------------------------------------------------------------------------
(* The type invariant, in the pieces a step touches together *)

HubTyped ==
    /\ kind \in Kinds /\ reach \in BOOLEAN
    /\ value \in [Range(kind.attributes) -> Values]
    /\ link \in BOOLEAN /\ wire \in Seq(Message)
    /\ \A n \in 1..Len(wire) : About(wire[n])
TableTyped ==
    /\ entities \in Seq(Entities) /\ IsInjective(entities)
    /\ Range(entities) \subseteq Range(kind.entities)
ShownTyped ==
    /\ lastReachable \in BOOLEAN \union {None}
    /\ avail \in [Range(kind.entities) -> BOOLEAN \union {None}]
    /\ shown \in [DOMAIN kind.entityOf -> Cached]
    /\ missed \subseteq DOMAIN avail \union Mapped /\ blind \in BOOLEAN
    /\ disturbances \in 0..MaxDisturbances
LoopTyped ==
    /\ todo \in [Tasks -> Seq(Entities)]
    /\ snap \in [Tasks -> Device \union {None}]
    /\ \A t \in Tasks :
          /\ Range(todo[t]) \subseteq Range(kind.entities)
          /\ pc[t] \in {"registering", "setting"} =>
                todo[t] # <<>> /\ snap[t] \in Device
          /\ pc[t] = "registering" => Head(todo[t]) \notin Range(entities)
    /\ pc["ws"] = "darkening" => todo["ws"] # <<>>
HandlerTyped ==
    /\ msg \in Message /\ About(msg)
    /\ mark \in [next : Nat, size : Nat]
    /\ mark.next <= mark.size /\ mark.size <= Len(entities)
    /\ pc["ws"] = "marking" => mark.next > 0
    /\ pc["ws"] \in {"marking", "reporting"} => msg.reach # "none"
    /\ pc["ws"] = "refreshing" => msg.reach = "up"
Typed ==
    /\ HubTyped /\ TableTyped /\ ShownTyped /\ LoopTyped /\ HandlerTyped
    /\ WorkTyped /\ Solo

LEMMA TypedIsTypeInv == TypeInv <=> Typed
<1>1. ThisDevice \in Device <=>
          reach \in BOOLEAN /\ value \in [Range(kind.attributes) -> Values]
  BY DEF ThisDevice, Device
<1>2. TypeInv => Typed
  BY <1>1, WorkOfType DEF TypeInv, TypeOK, InLoop, Spoken, Typed, HubTyped,
     TableTyped, ShownTyped, LoopTyped, HandlerTyped, Cached
<1>3. Typed => TypeInv
  BY <1>1 DEF TypeInv, TypeOK, InLoop, Spoken, Typed, HubTyped, TableTyped,
     ShownTyped, LoopTyped, HandlerTyped, WorkTyped, ForThisDevice, Cached
<1> QED BY <1>2, <1>3

LEMMA KindKept == ASSUME UNCHANGED kind PROVE Device' = Device /\ Mapped' = Mapped
  BY DEF Device, Mapped

\* What a run of Process leaves behind has the types of the tasks.
LEMMA ProcessKeeps ==
  ASSUME TypeInv, NEW t \in Tasks, NEW c \in [DOMAIN kind.entityOf -> Cached],
         NEW its, ForThisDevice(its), NEW label,
         label \in (IF t = "main" THEN MainPc ELSE WsPc),
         label = "publishing" \/ Len(its) < 2,
         Process(t, c, its, entities, label), UNCHANGED kind
  PROVE /\ WorkTyped'
        /\ pc' = [pc EXCEPT ![t] = pc'[t]] /\ pc'[t] \in {label, Ended(t)}
<1>0. TypeOK /\ WorkTyped /\ None \notin Range(entities)
  BY WorkOfType, NoneIsNoEntity DEF TypeInv
<1>1. /\ cache' \in [DOMAIN kind.entityOf -> Cached]
      /\ pc' = [pc EXCEPT ![t] = pc'[t]]
      /\ items' = [items EXCEPT ![t] = items'[t]]
      /\ out' = [out EXCEPT ![t] = out'[t]]
      /\ ForThisDevice(items'[t])
      /\ Len(its) < 2 => items'[t] = <<>>
      /\ DOMAIN out'[t] \subseteq Mapped
      /\ \A a \in DOMAIN out'[t] :
            out'[t][a] = cache'[a] /\ cache'[a] \in Values \union BOOLEAN
      /\ \/ pc'[t] = label
         \/ pc'[t] = Ended(t) /\ items'[t] = <<>> /\ DOMAIN out'[t] = {}
  BY <1>0, ProcessEffect
<1>2. pc'[t] \in (IF t = "main" THEN MainPc ELSE WsPc)
  BY <1>1 DEF Ended, MainPc, WsPc
<1>3. pc'[t] # "publishing" => items'[t] = <<>>
  BY <1>1
<1>4. \A u \in Tasks : u # t => /\ pc'[u] = pc[u] /\ items'[u] = items[u]
                                /\ out'[u] = out[u]
  BY <1>0, <1>1 DEF WorkTyped
<1>5. /\ pc' \in [Tasks -> MainPc \union WsPc]
      /\ pc'["main"] \in MainPc /\ pc'["ws"] \in WsPc
  BY <1>0, <1>1, <1>2, <1>4 DEF WorkTyped, Tasks
<1>6. items' \in [Tasks -> Seq(Item)] /\ DOMAIN out' = Tasks
  BY <1>0, <1>1 DEF WorkTyped, ForThisDevice
<1>7. ASSUME NEW u \in Tasks
      PROVE /\ ForThisDevice(items'[u])
            /\ pc'[u] # "publishing" => items'[u] = <<>>
            /\ DOMAIN out'[u] \subseteq Mapped
            /\ \A a \in DOMAIN out'[u] : out'[u][a] \in Values \union BOOLEAN
  <2>1. CASE u = t BY <1>1, <1>3, <2>1
  <2>2. CASE u # t BY <1>0, <1>4, <2>2 DEF WorkTyped
  <2> QED BY <2>1, <2>2
<1>8. WorkTyped'
  BY <1>1, <1>5, <1>6, <1>7, KindKept DEF WorkTyped, ForThisDevice
<1> QED BY <1>1, <1>8

\* A step of the registration loop.
LEMMA NextEntityKeeps ==
  ASSUME TypeInv, NEW t \in Tasks, pc[t] \in {"fetching", "registering", "setting"},
         NEW rest \in Seq(Entities), Range(rest) \subseteq Range(kind.entities),
         NEW dev \in Device, NextEntity(t, rest, entities, dev),
         UNCHANGED <<hub, entities, handler>>
  PROVE WorkTyped' /\ LoopTyped' /\ HandlerTyped' /\ Solo'
<1>0. Typed /\ kind \in Kinds /\ UNCHANGED kind
  BY TypedIsTypeInv DEF Typed, HubTyped, hub
<1>k. Device' = Device /\ Mapped' = Mapped BY <1>0, KindKept
<1>1. CASE rest = <<>>
  <2>1. /\ todo' = [todo EXCEPT ![t] = <<>>] /\ snap' = [snap EXCEPT ![t] = None]
        /\ Process(t, cache, DeviceItems(dev), entities, "publishing")
    BY <1>1 DEF NextEntity
  <2>2. ForThisDevice(DeviceItems(dev)) /\ cache \in [DOMAIN kind.entityOf -> Cached]
    BY <1>0, DeviceItemsEffect DEF Typed, WorkTyped
  <2>3. /\ WorkTyped' /\ pc' = [pc EXCEPT ![t] = pc'[t]]
        /\ pc'[t] \in {"publishing", Ended(t)}
    BY <1>0, <2>1, <2>2, ProcessKeeps DEF MainPc, WsPc
  <2>4. LoopTyped'
    <3>1. /\ todo' \in [Tasks -> Seq(Entities)]
          /\ snap' \in [Tasks -> Device \union {None}] /\ todo'[t] = <<>>
      BY <1>0, <2>1 DEF Typed, LoopTyped
    <3>2. \A u \in Tasks : u # t => /\ pc'[u] = pc[u] /\ todo'[u] = todo[u]
                                    /\ snap'[u] = snap[u]
      BY <1>0, <2>1, <2>3 DEF Typed, LoopTyped, WorkTyped
    <3>3. Range(<<>>) = {} BY DEF Range
    <3>4. pc'[t] \notin {"registering", "setting", "darkening"}
      BY <2>3 DEF Ended
    <3> QED BY <1>0, <1>k, <3>1, <3>2, <3>3, <3>4 DEF Typed, LoopTyped, Tasks
  <2>5. HandlerTyped' /\ Solo'
    BY <1>0, <2>3 DEF Typed, HandlerTyped, About, Solo, WorkTyped, Tasks, Ended, hub,
       handler
  <2> QED BY <2>3, <2>4, <2>5
<1>2. CASE rest # <<>>
  <2>1. /\ todo' = [todo EXCEPT ![t] = rest] /\ snap' = [snap EXCEPT ![t] = dev]
        /\ pc' = [pc EXCEPT ![t] = pc'[t]]
        /\ pc'[t] = IF Head(rest) \in Range(entities) THEN "setting" ELSE "registering"
        /\ UNCHANGED <<cache, items, out>>
    BY <1>0, <1>2 DEF NextEntity, Goto, Typed, WorkTyped
  <2>2. WorkTyped'
    BY <1>0, <1>k, <2>1 DEF Typed, WorkTyped, ForThisDevice, Tasks, MainPc, WsPc
  <2>3. LoopTyped'
    BY <1>0, <1>k, <1>2, <2>1 DEF Typed, LoopTyped, WorkTyped, Tasks
  <2>4. HandlerTyped' /\ Solo'
    BY <1>0, <2>1 DEF Typed, HandlerTyped, About, Solo, WorkTyped, Tasks, hub, handler
  <2> QED BY <2>2, <2>3, <2>4
<1> QED BY <1>1, <1>2

\* The message handlers leave the loops of the discovery alone.
Handling == {"listening", "marking", "reporting", "refreshing", "publishing"}
LEMMA HandlingKeeps ==
  ASSUME TypeInv, UNCHANGED <<kind, link, entities, todo, snap>>,
         pc["ws"] \in Handling, pc' = [pc EXCEPT !["ws"] = pc'["ws"]],
         pc'["ws"] \in Handling
  PROVE LoopTyped' /\ Solo' /\ TableTyped'
<1>1. Typed /\ Device' = Device BY TypedIsTypeInv, KindKept
<1>2. pc'["main"] = pc["main"] BY <1>1 DEF Typed, WorkTyped, Tasks
<1>3. LoopTyped' BY <1>1, <1>2 DEF Typed, LoopTyped, Tasks, Handling
<1>4. Solo' BY <1>1, <1>2 DEF Typed, Solo, Handling
<1>5. TableTyped' BY <1>1 DEF Typed, TableTyped
<1> QED BY <1>3, <1>4, <1>5

LEMMA MessageIsForDevice ==
  ASSUME TypeInv, NEW m \in Message, About(m)
  PROVE /\ ForThisDevice(MessageItems(m)) /\ Len(MessageItems(m)) < 2
        /\ cache \in [DOMAIN kind.entityOf -> Cached] /\ kind \in Kinds
        /\ "ws" \in Tasks /\ "publishing" \in WsPc /\ "reporting" \in WsPc
        /\ m.attr = None \/ (m.attr \in Range(kind.attributes) /\ m.value \in Values)
<1>1. Typed BY TypedIsTypeInv
<1>2. m.attr = None \/ (m.attr \in Range(kind.attributes) /\ m.value \in Values)
  BY <1>1 DEF Typed, HubTyped, About
<1>3. cache \in [DOMAIN kind.entityOf -> Cached] /\ kind \in Kinds
  BY <1>1 DEF Typed, HubTyped, WorkTyped
<1> QED BY <1>2, <1>3, MessageItemsEffect DEF Tasks, WsPc

\* The end of a reachability handler.
LEMMA EdgeKeeps ==
  ASSUME TypeInv, UNCHANGED <<kind, value>>, items["ws"] = <<>>,
         NEW m \in Message, About(m), NEW c \in [DOMAIN kind.entityOf -> Cached],
         Edge(m, c)
  PROVE /\ WorkTyped'
        /\ pc' = [pc EXCEPT !["ws"] = pc'["ws"]]
        /\ pc'["ws"] \in {"listening", "refreshing", "publishing"}
        /\ msg' \in Message /\ About(msg)' /\ lastReachable' \in BOOLEAN
        /\ pc'["ws"] = "refreshing" => msg'.reach = "up"
<1>1. ForThisDevice(MessageItems(m)) /\ Len(MessageItems(m)) < 2
      /\ "ws" \in Tasks /\ "publishing" \in WsPc
  BY MessageIsForDevice
<1>w. WorkTyped BY WorkOfType
<1>n. NoMessage \in Message /\ NoMessage.attr = None BY DEF NoMessage, Message
<1>2. CASE m.reach = "up" /\ lastReachable # TRUE
  <2>1. /\ pc' = [pc EXCEPT !["ws"] = "refreshing"] /\ cache' = c /\ msg' = m
        /\ UNCHANGED <<items, out>> /\ lastReachable' \in BOOLEAN
    BY <1>2 DEF Edge, Goto
  <2>2. WorkTyped'
    BY <1>w, <2>1, KindKept DEF WorkTyped, ForThisDevice, Tasks, WsPc
  <2>3. pc'["ws"] = "refreshing" BY <1>w, <2>1 DEF WorkTyped, Tasks
  <2> QED BY <1>2, <2>1, <2>2, <2>3 DEF About
<1>3. CASE ~ (m.reach = "up" /\ lastReachable # TRUE)
  <2>1. /\ Process("ws", c, MessageItems(m), entities, "publishing")
        /\ msg' = NoMessage /\ lastReachable' \in BOOLEAN
    BY <1>3 DEF Edge
  <2>2. /\ WorkTyped' /\ pc' = [pc EXCEPT !["ws"] = pc'["ws"]]
        /\ pc'["ws"] \in {"publishing", Ended("ws")}
    BY <1>1, <2>1, ProcessKeeps
  <2> QED BY <1>n, <2>1, <2>2 DEF About, Ended
<1> QED BY <1>2, <1>3

\* The report of the reachability, after the marks.
ReachItem(m) == [attr |-> "isReachable", value |-> m.reach = "up", force |-> FALSE]

LEMMA ReachItemTyped ==
  ASSUME kind \in Kinds, NEW m, NEW c \in [DOMAIN kind.entityOf -> Cached]
  PROVE /\ ForThisDevice(<<ReachItem(m)>>) /\ Len(<<ReachItem(m)>>) = 1
        /\ CacheAfter(c, <<ReachItem(m)>>, 1) \in [DOMAIN kind.entityOf -> Cached]
        /\ CacheAfter(c, <<ReachItem(m)>>, 1)["isReachable"] = (m.reach = "up")
        /\ \A a \in DOMAIN kind.entityOf :
              a # "isReachable" => CacheAfter(c, <<ReachItem(m)>>, 1)[a] = c[a]
<1>1. ReachItem(m) \in Item /\ ReachItem(m).attr = "isReachable"
      /\ ReachItem(m).value = (m.reach = "up")
  BY DEF ReachItem, Item, Reported
<1>2. "isReachable" \in DOMAIN kind.entityOf BY AttributesAreMapped
<1> DEFINE i == ReachItem(m)
<1> HIDE DEF i
<1>3. <<i>> \in Seq(Item) /\ Len(<<i>>) = 1 /\ <<i>>[1] = i BY <1>1 DEF i
<1>4. \A k \in 1..1 : <<i>>[k] = i BY <1>3
<1>5. ForThisDevice(<<i>>) BY <1>1, <1>2, <1>3, <1>4 DEF ForThisDevice, i
<1>v. \A k \in 1..1 : <<i>>[k].value \in Cached BY <1>1, <1>4 DEF Cached, i
<1>6. CacheAfter(c, <<i>>, 1) \in [DOMAIN kind.entityOf -> Cached]
  BY <1>v, CacheType
<1>7. AlwaysFor(<<i>>, 1, "isReachable", m.reach = "up")
  BY <1>1, <1>4 DEF AlwaysFor, i
<1>8. CacheAfter(c, <<i>>, 1)["isReachable"] = (m.reach = "up")
  BY <1>2, <1>7, CacheValue
<1>9. ASSUME NEW a \in DOMAIN kind.entityOf, a # "isReachable"
      PROVE CacheAfter(c, <<i>>, 1)[a] = c[a]
  <2>1. NoneFor(<<i>>, 1, a) BY <1>1, <1>4, <1>9 DEF NoneFor, i
  <2> QED BY <2>1, CacheUntouched
<1> QED BY <1>3, <1>5, <1>6, <1>8, <1>9 DEF i

LEMMA ReportKeeps ==
  ASSUME TypeInv, UNCHANGED <<kind, value>>, items["ws"] = <<>>,
         NEW m \in Message, About(m), m.reach # "none", Report(m)
  PROVE /\ WorkTyped'
        /\ pc' = [pc EXCEPT !["ws"] = pc'["ws"]]
        /\ pc'["ws"] \in {"listening", "refreshing", "reporting", "publishing"}
        /\ msg' \in Message /\ About(msg)' /\ lastReachable' \in BOOLEAN \union {None}
        /\ pc'["ws"] = "refreshing" => msg'.reach = "up"
        /\ pc'["ws"] = "reporting" => msg'.reach # "none"
<1>1. /\ kind \in Kinds /\ cache \in [DOMAIN kind.entityOf -> Cached]
      /\ "ws" \in Tasks /\ "reporting" \in WsPc
  BY MessageIsForDevice
<1>t. TypeOK /\ None \notin Range(entities) BY NoneIsNoEntity DEF TypeInv
<1> DEFINE its == <<ReachItem(m)>>
<1>2. ForThisDevice(its) /\ Len(its) = 1
      /\ CacheAfter(cache, its, 1) \in [DOMAIN kind.entityOf -> Cached]
  BY <1>1, ReachItemTyped
<1>3. IF Publishes(cache, its, 1, entities)
      THEN /\ Process("ws", cache, its, entities, "reporting")
           /\ msg' = m /\ UNCHANGED lastReachable
      ELSE Edge(m, CacheAfter(cache, its, 1))
  BY DEF Report, ReachItem
<1> HIDE DEF its
<1>4. CASE Publishes(cache, its, 1, entities)
  <2>1. /\ WorkTyped' /\ pc' = [pc EXCEPT !["ws"] = pc'["ws"]]
        /\ pc'["ws"] \in {"reporting", Ended("ws")}
    <3>1. Process("ws", cache, its, entities, "reporting") BY <1>3, <1>4
    <3>2. UNCHANGED kind /\ Len(its) < 2 BY <1>2
    <3>3. "reporting" \in (IF "ws" = "main" THEN MainPc ELSE WsPc) BY <1>1
    <3> QED BY <1>1, <1>2, <3>1, <3>2, <3>3, ProcessKeeps
  <2> QED BY <1>3, <1>4, <1>t, <2>1 DEF About, Ended, TypeOK
<1>5. CASE ~ Publishes(cache, its, 1, entities)
  BY <1>2, <1>3, <1>5, EdgeKeeps
<1> QED BY <1>4, <1>5

\* The publishes: what is shown has the types of what is published.
LEMMA AvailabilityKeeps ==
  ASSUME Typed, UNCHANGED <<kind, shown, blind>>, lastReachable' \in BOOLEAN \union {None},
         NEW e \in Range(kind.entities), NEW online \in BOOLEAN,
         AvailabilityPublish(e, online)
  PROVE ShownTyped'
<1>1. /\ avail' \in [Range(kind.entities) -> BOOLEAN \union {None}]
      /\ missed' \subseteq DOMAIN avail \union Mapped /\ DOMAIN avail' = DOMAIN avail
      /\ disturbances' \in 0..MaxDisturbances
  BY DeviceSyncAssumption DEF AvailabilityPublish, Typed, ShownTyped, Disturb
<1> QED BY <1>1, KindKept DEF Typed, ShownTyped

LEMMA StateKeeps ==
  ASSUME Typed, UNCHANGED <<kind, avail, blind>>, lastReachable' \in BOOLEAN \union {None},
         NEW t \in Tasks, StatePublish(t)
  PROVE ShownTyped'
<1>1. DOMAIN out[t] \subseteq Mapped
      /\ \A a \in DOMAIN out[t] : out[t][a] \in Values \union BOOLEAN
  BY DEF Typed, WorkTyped
<1>2. shown' \in [DOMAIN kind.entityOf -> Cached]
  BY <1>1 DEF StatePublish, Typed, ShownTyped, Cached
<1>3. /\ missed' \subseteq DOMAIN avail \union Mapped
      /\ disturbances' \in 0..MaxDisturbances
  BY <1>1, DeviceSyncAssumption DEF StatePublish, Typed, ShownTyped, Disturb
<1> QED BY <1>2, <1>3, KindKept DEF Typed, ShownTyped

LEMMA ShownKeeps ==
  ASSUME Typed, UNCHANGED <<kind, avail, shown, blind>>,
         lastReachable' \in BOOLEAN \union {None},
         missed' \subseteq DOMAIN avail \union Mapped,
         disturbances' = disturbances \/ Disturb
  PROVE ShownTyped'
<1>1. disturbances' \in 0..MaxDisturbances
  BY DeviceSyncAssumption DEF Typed, ShownTyped, Disturb
<1> QED BY <1>1, KindKept DEF Typed, ShownTyped

LEMMA HubKeeps == ASSUME HubTyped, UNCHANGED hub PROVE HubTyped'
  BY DEF HubTyped, About, hub

LEMMA HandlerKeeps ==
  ASSUME HandlerTyped, UNCHANGED <<value, entities, mark>>, msg' \in Message,
         About(msg)', pc'["ws"] \notin {"marking"},
         pc'["ws"] = "reporting" => msg'.reach # "none",
         pc'["ws"] = "refreshing" => msg'.reach = "up"
  PROVE HandlerTyped'
  BY DEF HandlerTyped

LEMMA TailOfTodo ==
  ASSUME Typed, NEW t \in Tasks, todo[t] # <<>>
  PROVE /\ Tail(todo[t]) \in Seq(Entities)
        /\ Range(Tail(todo[t])) \subseteq Range(kind.entities)
        /\ Head(todo[t]) \in Range(kind.entities)
<1>1. todo[t] \in Seq(Entities) /\ Range(todo[t]) \subseteq Range(kind.entities)
  BY DEF Typed, LoopTyped
<1>2. Tail(todo[t]) \in Seq(Entities) BY <1>1
<1>3. \A k \in DOMAIN Tail(todo[t]) :
          Tail(todo[t])[k] = todo[t][k + 1] /\ k + 1 \in DOMAIN todo[t]
  BY <1>1
<1>4. Head(todo[t]) = todo[t][1] /\ 1 \in DOMAIN todo[t] BY <1>1
<1> QED BY <1>1, <1>2, <1>3, <1>4, ZenonT(40) DEF Range

\* Discovery.
LEMMA FetchedTypes ==
  ASSUME TypeInv, NEW t \in Tasks, Fetched(t) PROVE Typed'
<1>1. Typed /\ ThisDevice \in Device BY TypedIsTypeInv DEF TypeInv, TypeOK
<1>2. kind.entities \in Seq(Entities)
  BY <1>1, DeviceSyncAssumption DEF Typed, HubTyped
<1>3. WorkTyped' /\ LoopTyped' /\ HandlerTyped' /\ Solo'
  BY <1>1, <1>2, NextEntityKeeps DEF Fetched, book
<1>4. HubTyped' /\ TableTyped' /\ ShownTyped'
  BY <1>1, HubKeeps, KindKept DEF Fetched, Typed, TableTyped, ShownTyped, hub, book, ha
<1> QED BY <1>3, <1>4 DEF Typed

LEMMA RegisteredTypes ==
  ASSUME TypeInv, NEW t \in Tasks, Registered(t) PROVE Typed'
<1>1. Typed /\ Device' = Device /\ Mapped' = Mapped
  BY TypedIsTypeInv, KindKept DEF Registered, hub
<1> DEFINE e == Head(todo[t])
<1>2. /\ todo[t] \in Seq(Entities) /\ todo[t] # <<>> /\ snap[t] \in Device
      /\ Range(todo[t]) \subseteq Range(kind.entities) /\ e \notin Range(entities)
  BY <1>1 DEF Typed, LoopTyped, Registered
<1>3. e \in Range(kind.entities) /\ e \in Entities
  <2>1. e \in Range(kind.entities) BY <1>1, <1>2, TailOfTodo
  <2>2. kind \in Kinds BY <1>1 DEF Typed, HubTyped
  <2> QED BY <2>1, <2>2, AttributesAreMapped
<1> HIDE DEF e
<1>4. /\ entities' = Append(entities, e) /\ pc' = [pc EXCEPT ![t] = "setting"]
      /\ pc[t] = "registering"
      /\ UNCHANGED <<hub, blind, cache, lastReachable, ha, task, handler, disturbances>>
  BY DEF Registered, Goto, e
<1>5. /\ entities' \in Seq(Entities) /\ Len(entities') = Len(entities) + 1
      /\ entities'[Len(entities) + 1] = e
      /\ \A k \in 1..Len(entities) : entities'[k] = entities[k]
      /\ \A k \in 1..Len(entities') : k = Len(entities) + 1 \/ k \in 1..Len(entities)
      /\ Len(entities) \in Nat
  BY <1>1, <1>3, <1>4 DEF Typed, TableTyped
<1>6. Range(entities') = Range(entities) \union {e}
  BY <1>1, <1>5 DEF Range, Typed, TableTyped
<1>7. IsInjective(entities')
  BY <1>1, <1>2, <1>5 DEF IsInjective, Range, Typed, TableTyped, e
<1>8. TableTyped' BY <1>1, <1>3, <1>4, <1>5, <1>6, <1>7 DEF Typed, TableTyped, hub
<1>9. HubTyped' /\ ShownTyped'
  BY <1>1, <1>4, HubKeeps DEF Typed, ShownTyped, ha, hub
<1>10. WorkTyped'
  BY <1>1, <1>4 DEF Typed, WorkTyped, ForThisDevice, Tasks, MainPc, WsPc, task, hub
<1>11. HandlerTyped'
  BY <1>1, <1>4, <1>5 DEF Typed, HandlerTyped, WorkTyped, About, Tasks, handler, hub
<1>12. Solo' /\ \A u \in Tasks : u # t => pc'[u] # "registering" /\ pc'[u] = pc[u]
  BY <1>1, <1>4 DEF Typed, Solo, WorkTyped, Tasks, hub
<1>13. pc'[t] = "setting" BY <1>1, <1>4 DEF Typed, WorkTyped
<1>14. LoopTyped'
  BY <1>1, <1>2, <1>4, <1>12, <1>13 DEF Typed, LoopTyped, Tasks, task, hub
<1> QED BY <1>8, <1>9, <1>10, <1>11, <1>12, <1>14 DEF Typed

LEMMA RegisterFailsTypes ==
  ASSUME TypeInv, NEW t \in Tasks, RegisterFails(t) PROVE Typed'
<1>1. Typed /\ UNCHANGED kind BY TypedIsTypeInv DEF RegisterFails, hub
<1>2. todo[t] # <<>> /\ snap[t] \in Device BY <1>1 DEF Typed, LoopTyped, RegisterFails
<1>3. WorkTyped' /\ LoopTyped' /\ HandlerTyped' /\ Solo'
  BY <1>1, <1>2, TailOfTodo, NextEntityKeeps DEF RegisterFails, book
<1>4. AttributesOf(Head(todo[t])) \subseteq Mapped
  BY <1>1, <1>2, TailOfTodo, AttributesAreMapped, DeviceSyncAssumption
  DEF AttributesOf, Mapped, Typed, HubTyped
<1>5. ShownTyped'
  BY <1>1, <1>2, <1>4, TailOfTodo, ShownKeeps
  DEF RegisterFails, Typed, ShownTyped, book
<1>6. HubTyped' /\ TableTyped'
  BY <1>1, HubKeeps DEF RegisterFails, Typed, TableTyped, hub, book
<1> QED BY <1>3, <1>5, <1>6 DEF Typed

LEMMA InitialAvailabilityTypes ==
  ASSUME TypeInv, NEW t \in Tasks, InitialAvailability(t) PROVE Typed'
<1>1. Typed /\ UNCHANGED <<kind, shown, blind>> /\ lastReachable' = lastReachable
  BY TypedIsTypeInv DEF InitialAvailability, hub, book
<1>2. todo[t] # <<>> /\ snap[t] \in Device
  BY <1>1 DEF Typed, LoopTyped, InitialAvailability
<1>3. WorkTyped' /\ LoopTyped' /\ HandlerTyped' /\ Solo'
  BY <1>1, <1>2, TailOfTodo, NextEntityKeeps DEF InitialAvailability, book
<1>4. snap[t].reach \in BOOLEAN BY <1>2 DEF Device
<1>5. ShownTyped'
  <2>1. lastReachable' \in BOOLEAN \union {None} BY <1>1 DEF Typed, ShownTyped
  <2> QED BY <1>1, <1>2, <1>4, <2>1, TailOfTodo, AvailabilityKeeps
      DEF InitialAvailability
<1>6. HubTyped' /\ TableTyped'
  BY <1>1, HubKeeps DEF InitialAvailability, Typed, TableTyped, hub, book
<1> QED BY <1>3, <1>5, <1>6 DEF Typed

LEMMA PublishedTypes ==
  ASSUME TypeInv, NEW t \in Tasks, Published(t) PROVE Typed'
<1>1. Typed /\ UNCHANGED <<kind, avail, blind, entities>>
      /\ lastReachable' \in BOOLEAN \union {None}
  BY TypedIsTypeInv DEF Published, hub, book, Typed, ShownTyped
<1>2. /\ cache \in [DOMAIN kind.entityOf -> Cached] /\ ForThisDevice(items[t])
      /\ pc \in [Tasks -> MainPc \union WsPc] /\ pc[t] = "publishing"
  BY <1>1 DEF Typed, WorkTyped, Published
<1>3. /\ WorkTyped' /\ pc' = [pc EXCEPT ![t] = pc'[t]]
      /\ pc'[t] \in {"publishing", Ended(t)}
  BY <1>1, <1>2, ProcessKeeps DEF Published, MainPc, WsPc
<1>4. ShownTyped' BY <1>1, StateKeeps DEF Published
<1>5. HubTyped' /\ TableTyped'
  BY <1>1, HubKeeps DEF Published, Typed, TableTyped, hub
<1>k. Device' = Device BY <1>1, KindKept
<1>p. \A u \in Tasks : u # t => pc'[u] = pc[u] BY <1>2, <1>3
<1>6. LoopTyped'
  BY <1>1, <1>k, <1>3, <1>p DEF Published, Typed, LoopTyped, Tasks, Ended, hub
<1>7. HandlerTyped' /\ Solo'
  BY <1>1, <1>2, <1>3, <1>p DEF Published, Typed, HandlerTyped, About, Solo, Tasks,
     Ended, hub, handler
<1> QED BY <1>3, <1>4, <1>5, <1>6, <1>7 DEF Typed

\* Messages.
LEMMA TakenMessage ==
  ASSUME HubTyped, wire # <<>>
  PROVE /\ Head(wire) \in Message /\ About(Head(wire)) /\ Tail(wire) \in Seq(Message)
        /\ \A n \in 1..Len(Tail(wire)) : About(Tail(wire)[n])
<1>1. wire \in Seq(Message) /\ Len(wire) > 0 BY DEF HubTyped
<1>2. Head(wire) = wire[1] /\ 1 \in 1..Len(wire) BY <1>1
<1>3. \A n \in 1..Len(Tail(wire)) : Tail(wire)[n] = wire[n + 1] /\ n + 1 \in 1..Len(wire)
  BY <1>1
<1> QED BY <1>1, <1>2, <1>3 DEF HubTyped

LEMMA TakeMessageTypes == ASSUME TypeInv, TakeMessage PROVE Typed'
<1> DEFINE m == Head(wire)
<1>1. Typed /\ pc["ws"] = "listening" /\ wire # <<>> /\ wire' = Tail(wire)
      /\ UNCHANGED <<kind, value, reach, link, blind, entities, ha, todo, snap,
                     disturbances>>
  BY TypedIsTypeInv DEF TakeMessage
<1>m. m \in Message /\ About(m) BY <1>1, TakenMessage DEF Typed
<1>i. items["ws"] = <<>> /\ pc \in [Tasks -> MainPc \union WsPc]
  BY <1>1 DEF Typed, WorkTyped, Tasks
<1>h. HubTyped'
  BY <1>1, TakenMessage DEF Typed, HubTyped, About
<1>2. CASE m.reach = "none"
           /\ Process("ws", cache, MessageItems(m), entities, "publishing")
           /\ UNCHANGED <<lastReachable, handler>>
  <2>1. /\ WorkTyped' /\ pc' = [pc EXCEPT !["ws"] = pc'["ws"]]
        /\ pc'["ws"] \in {"publishing", Ended("ws")}
    BY <1>1, <1>2, <1>m, MessageIsForDevice, ProcessKeeps
  <2>2. LoopTyped' /\ Solo' /\ TableTyped'
    BY <1>1, <2>1, HandlingKeeps DEF Handling, Ended
  <2>3. ShownTyped' BY <1>1, <1>2, ShownKeeps DEF Typed, ShownTyped, ha
  <2>4. HandlerTyped'
    BY <1>1, <1>2, <2>1 DEF Typed, HandlerTyped, About, handler, Ended
  <2> QED BY <1>h, <2>1, <2>2, <2>3, <2>4 DEF Typed
<1>3. CASE m.reach # "none" /\ entities = <<>> /\ Report(m) /\ UNCHANGED mark
  <2>1. /\ WorkTyped' /\ pc' = [pc EXCEPT !["ws"] = pc'["ws"]]
        /\ pc'["ws"] \in {"listening", "refreshing", "reporting", "publishing"}
        /\ msg' \in Message /\ About(msg)' /\ lastReachable' \in BOOLEAN \union {None}
        /\ pc'["ws"] = "refreshing" => msg'.reach = "up"
        /\ pc'["ws"] = "reporting" => msg'.reach # "none"
    BY <1>1, <1>3, <1>m, <1>i, ReportKeeps
  <2>2. LoopTyped' /\ Solo' /\ TableTyped'
    BY <1>1, <2>1, HandlingKeeps DEF Handling
  <2>3. ShownTyped' BY <1>1, <2>1, ShownKeeps DEF Typed, ShownTyped, ha
  <2>4. HandlerTyped' BY <1>1, <1>3, <2>1, HandlerKeeps DEF Typed
  <2> QED BY <1>h, <2>1, <2>2, <2>3, <2>4 DEF Typed
<1>4. CASE /\ m.reach # "none" /\ entities # <<>>
           /\ msg' = m /\ mark' = [next |-> 1, size |-> Len(entities)]
           /\ Goto("ws", "marking")
           /\ UNCHANGED <<lastReachable, cache, items, out>>
  <2>1. /\ pc' = [pc EXCEPT !["ws"] = pc'["ws"]] /\ pc'["ws"] = "marking"
    BY <1>4, <1>i DEF Goto, Tasks
  <2>2. LoopTyped' /\ Solo' /\ TableTyped'
    BY <1>1, <2>1, HandlingKeeps DEF Handling
  <2>3. ShownTyped' BY <1>1, <1>4, ShownKeeps DEF Typed, ShownTyped, ha
  <2>4. WorkTyped'
    BY <1>1, <1>4, <1>i, <2>1, KindKept DEF Typed, WorkTyped, ForThisDevice, Tasks, WsPc
  <2>5. Len(entities) \in Nat /\ Len(entities) > 0
    BY <1>1, <1>4 DEF Typed, TableTyped
  <2>6. HandlerTyped'
    BY <1>1, <1>m, <1>4, <2>1, <2>5 DEF HandlerTyped, About
  <2> QED BY <1>h, <2>2, <2>3, <2>4, <2>6 DEF Typed
<1> QED BY <1>2, <1>3, <1>4 DEF TakeMessage

LEMMA MarkedTypes == ASSUME TypeInv, Marked PROVE Typed'
<1>1. Typed /\ pc["ws"] = "marking" /\ msg \in Message /\ About(msg)
      /\ msg.reach # "none" /\ mark \in [next : Nat, size : Nat]
      /\ mark.next > 0 /\ mark.next <= mark.size /\ mark.size <= Len(entities)
  BY TypedIsTypeInv DEF Marked, Typed, HandlerTyped
<1>u. UNCHANGED <<kind, value, link, entities, shown, blind, todo, snap>>
      /\ UNCHANGED hub
  BY DEF Marked, hub
<1>i. items["ws"] = <<>> /\ pc \in [Tasks -> MainPc \union WsPc]
  BY <1>1 DEF Typed, WorkTyped, Tasks
<1>h. HubTyped' BY <1>1, <1>u, HubKeeps DEF Typed
<1>e. entities[mark.next] \in Range(kind.entities)
  <2>1. mark.next \in DOMAIN entities BY <1>1 DEF Typed, TableTyped
  <2> QED BY <1>1, <2>1 DEF Typed, TableTyped, Range
<1>s. ASSUME lastReachable' \in BOOLEAN \union {None} PROVE ShownTyped'
  BY <1>1, <1>u, <1>e, <1>s, AvailabilityKeeps DEF Marked
<1>n. NoMessage \in Message /\ NoMessage.attr = None
      /\ NoLoop \in [next : Nat, size : Nat] /\ NoLoop.next = 0 /\ NoLoop.size = 0
  BY DEF NoMessage, Message, NoLoop
<1>l. Len(entities) \in Nat BY <1>1 DEF Typed, TableTyped
<1>2. CASE /\ Process("ws", cache, MessageItems(msg), entities, "publishing")
           /\ msg' = NoMessage /\ mark' = NoLoop
           /\ UNCHANGED lastReachable
  <2>1. /\ WorkTyped' /\ pc' = [pc EXCEPT !["ws"] = pc'["ws"]]
        /\ pc'["ws"] \in {"publishing", Ended("ws")}
    BY <1>1, <1>2, <1>u, MessageIsForDevice, ProcessKeeps
  <2>2. LoopTyped' /\ Solo' /\ TableTyped'
    BY <1>1, <1>u, <2>1, HandlingKeeps DEF Handling, Ended
  <2>3. ShownTyped' BY <1>1, <1>2, <1>s DEF Typed, ShownTyped
  <2>4. HandlerTyped'
    BY <1>2, <1>n, <1>l, <1>u, <2>1 DEF HandlerTyped, About, Ended
  <2> QED BY <1>h, <2>1, <2>2, <2>3, <2>4 DEF Typed
<1>3. CASE Report(msg) /\ mark' = NoLoop
  <2>1. /\ WorkTyped' /\ pc' = [pc EXCEPT !["ws"] = pc'["ws"]]
        /\ pc'["ws"] \in {"listening", "refreshing", "reporting", "publishing"}
        /\ msg' \in Message /\ About(msg)' /\ lastReachable' \in BOOLEAN \union {None}
        /\ pc'["ws"] = "refreshing" => msg'.reach = "up"
        /\ pc'["ws"] = "reporting" => msg'.reach # "none"
    BY <1>1, <1>3, <1>u, <1>i, ReportKeeps
  <2>2. LoopTyped' /\ Solo' /\ TableTyped'
    BY <1>1, <1>u, <2>1, HandlingKeeps DEF Handling
  <2>3. ShownTyped' BY <2>1, <1>s
  <2>4. HandlerTyped'
    BY <1>3, <1>n, <1>l, <1>u, <2>1 DEF HandlerTyped
  <2> QED BY <1>h, <2>1, <2>2, <2>3, <2>4 DEF Typed
<1>4. CASE /\ mark.next < mark.size /\ mark' = [mark EXCEPT !.next = @ + 1]
           /\ UNCHANGED <<lastReachable, cache, pc, items, out, msg>>
  <2>1. WorkTyped' BY <1>1, <1>4, <1>u, KindKept DEF Typed, WorkTyped, ForThisDevice
  <2>2. LoopTyped' /\ Solo' /\ TableTyped'
    BY <1>1, <1>4, <1>u, KindKept DEF Typed, LoopTyped, Solo, TableTyped, hub
  <2>3. ShownTyped' BY <1>1, <1>4, <1>s DEF Typed, ShownTyped
  <2>4. HandlerTyped'
    BY <1>1, <1>4, <1>u, <1>l DEF Typed, HandlerTyped, About
  <2> QED BY <1>h, <2>1, <2>2, <2>3, <2>4 DEF Typed
<1> QED BY <1>2, <1>3, <1>4 DEF Marked

LEMMA ReportedReachTypes == ASSUME TypeInv, ReportedReach PROVE Typed'
<1>1. Typed /\ pc["ws"] = "reporting" /\ msg \in Message /\ About(msg) /\ Edge(msg, cache)
      /\ items["ws"] = <<>> /\ cache \in [DOMAIN kind.entityOf -> Cached]
      /\ UNCHANGED <<kind, value, link, entities, avail, blind, todo, snap, mark>>
      /\ UNCHANGED hub /\ "ws" \in Tasks
  BY TypedIsTypeInv DEF ReportedReach, Typed, HandlerTyped, WorkTyped, Tasks, hub
<1>2. /\ WorkTyped'
      /\ pc' = [pc EXCEPT !["ws"] = pc'["ws"]]
      /\ pc'["ws"] \in {"listening", "refreshing", "publishing"}
      /\ msg' \in Message /\ About(msg)' /\ lastReachable' \in BOOLEAN
      /\ pc'["ws"] = "refreshing" => msg'.reach = "up"
  BY <1>1, EdgeKeeps
<1>3. LoopTyped' /\ Solo' /\ TableTyped'
  BY <1>1, <1>2, HandlingKeeps DEF Handling
<1>4. ShownTyped' BY <1>1, <1>2, StateKeeps DEF ReportedReach
<1>5. HandlerTyped' BY <1>1, <1>2, HandlerKeeps DEF Typed
<1> QED BY <1>1, <1>2, <1>3, <1>4, <1>5, HubKeeps DEF Typed

LEMMA RefreshedTypes == ASSUME TypeInv, Refreshed PROVE Typed'
<1>1. Typed /\ pc["ws"] = "refreshing" /\ msg \in Message /\ About(msg)
      /\ UNCHANGED <<kind, value, link, entities, todo, snap, mark>>
      /\ UNCHANGED hub /\ "ws" \in Tasks /\ ThisDevice \in Device
  BY TypedIsTypeInv DEF Refreshed, Typed, HandlerTyped, Tasks, hub, book, TypeInv, TypeOK
<1>2. ForThisDevice(AttributeItems(ThisDevice) \o MessageItems(msg))
      /\ cache \in [DOMAIN kind.entityOf -> Cached] /\ "publishing" \in WsPc
  BY <1>1, MessageIsForDevice, RefreshItemsEffect
<1>3. /\ WorkTyped' /\ pc' = [pc EXCEPT !["ws"] = pc'["ws"]]
      /\ pc'["ws"] \in {"publishing", Ended("ws")}
  <2>1. Process("ws", cache, AttributeItems(ThisDevice) \o MessageItems(msg),
                entities, "publishing")
    BY DEF Refreshed
  <2> QED BY <1>1, <1>2, <2>1, ProcessKeeps
<1>4. LoopTyped' /\ Solo' /\ TableTyped'
  BY <1>1, <1>3, HandlingKeeps DEF Handling, Ended
<1>5. ShownTyped' BY <1>1, ShownKeeps DEF Refreshed, Typed, ShownTyped, book, ha
<1>n. NoMessage \in Message /\ NoMessage.attr = None BY DEF NoMessage, Message
<1>6. HandlerTyped'
  BY <1>1, <1>3, <1>n, HandlerKeeps DEF Refreshed, Typed, Ended, About
<1> QED BY <1>1, <1>3, <1>4, <1>5, <1>6, HubKeeps DEF Typed

LEMMA RefreshFailsTypes == ASSUME TypeInv, RefreshFails PROVE Typed'
<1>1. Typed /\ pc["ws"] = "refreshing" /\ msg \in Message /\ About(msg)
      /\ UNCHANGED <<kind, value, link, entities, avail, shown, todo, snap, mark>>
      /\ UNCHANGED hub /\ "ws" \in Tasks /\ lastReachable' = lastReachable
  BY TypedIsTypeInv DEF RefreshFails, Typed, HandlerTyped, Tasks, hub, book
<1>3. /\ WorkTyped' /\ pc' = [pc EXCEPT !["ws"] = pc'["ws"]]
      /\ pc'["ws"] \in {"publishing", Ended("ws")}
  BY <1>1, MessageIsForDevice, ProcessKeeps DEF RefreshFails
<1>4. LoopTyped' /\ Solo' /\ TableTyped'
  BY <1>1, <1>3, HandlingKeeps DEF Handling, Ended
<1>5. ShownTyped'
  <2>1. missed' \subseteq DOMAIN avail \union Mapped
    BY <1>1 DEF Typed, ShownTyped, RefreshFails
  <2>2. disturbances' \in 0..MaxDisturbances /\ blind' \in BOOLEAN
    BY <1>1, DeviceSyncAssumption DEF Typed, ShownTyped, RefreshFails, Disturb
  <2> QED BY <1>1, <2>1, <2>2, KindKept DEF Typed, ShownTyped
<1>n. NoMessage \in Message /\ NoMessage.attr = None BY DEF NoMessage, Message
<1>6. HandlerTyped'
  BY <1>1, <1>3, <1>n, HandlerKeeps DEF RefreshFails, Typed, Ended, About
<1> QED BY <1>1, <1>3, <1>4, <1>5, <1>6, HubKeeps DEF Typed

\* Connection and outage.
LEMMA FetchFailsTypes == ASSUME TypeInv, FetchFails PROVE Typed'
<1>1. /\ Typed /\ pc["ws"] = "fetching" /\ pc' = [pc EXCEPT !["ws"] = "listening"]
      /\ UNCHANGED <<hub, cache, book, avail, shown, task, handler>>
      /\ missed' = DOMAIN avail \union Mapped /\ blind' = TRUE /\ Disturb
  BY TypedIsTypeInv DEF FetchFails, Goto
<1>2. /\ Device' = Device /\ Mapped' = Mapped
      /\ pc'["ws"] = "listening" /\ pc'["main"] = pc["main"]
  BY <1>1, KindKept DEF hub, Typed, WorkTyped, Tasks
<1>3. ShownTyped'
  BY <1>1, <1>2, DeviceSyncAssumption DEF Typed, ShownTyped, Disturb, book, hub
<1>4. WorkTyped'
  BY <1>1, <1>2 DEF Typed, WorkTyped, ForThisDevice, Tasks, MainPc, WsPc, hub, task
<1>5. HubTyped' /\ TableTyped' /\ LoopTyped' /\ HandlerTyped' /\ Solo'
  BY <1>1, <1>2, HubKeeps DEF Typed, TableTyped, LoopTyped, HandlerTyped, About, Solo,
     Tasks, hub, book, task, handler
<1> QED BY <1>3, <1>4, <1>5 DEF Typed

LEMMA OpenedTypes == ASSUME TypeInv, Opened PROVE Typed'
<1>1. /\ Typed /\ pc["ws"] \in {"connecting", "opening"} /\ link' = TRUE
      /\ pc' = [pc EXCEPT !["ws"] = IF pc["ws"] = "opening" THEN "fetching"
                                                            ELSE "listening"]
      /\ UNCHANGED <<kind, value, reach, wire, blind, cache, book, ha, task, handler,
                     disturbances>>
  BY TypedIsTypeInv DEF Opened, Goto
<1>2. /\ Device' = Device /\ Mapped' = Mapped /\ pc'["main"] = pc["main"]
      /\ pc'["ws"] = IF pc["ws"] = "opening" THEN "fetching" ELSE "listening"
  BY <1>1, KindKept DEF Typed, WorkTyped, Tasks
<1>3. HubTyped' /\ TableTyped' /\ ShownTyped'
  BY <1>1, <1>2 DEF Typed, HubTyped, About, TableTyped, ShownTyped, book, ha
<1>4. WorkTyped'
  BY <1>1, <1>2 DEF Typed, WorkTyped, ForThisDevice, Tasks, MainPc, WsPc, task
<1>5. LoopTyped' /\ HandlerTyped'
  BY <1>1, <1>2 DEF Typed, LoopTyped, HandlerTyped, About, Tasks, book, task, handler
<1>6. Solo' BY <1>1, <1>2 DEF Typed, Solo
<1> QED BY <1>3, <1>4, <1>5, <1>6 DEF Typed

LEMMA ListenEndsTypes == ASSUME TypeInv, ListenEnds PROVE Typed'
<1>1. /\ Typed /\ pc["ws"] = "listening" /\ ~link /\ wire' = <<>>
      /\ todo' = [todo EXCEPT !["ws"] = entities]
      /\ pc' = [pc EXCEPT !["ws"] = IF entities = <<>> THEN "opening" ELSE "darkening"]
      /\ UNCHANGED <<kind, value, reach, link, blind, cache, book, ha, snap, items, out,
                     handler, disturbances>>
  BY TypedIsTypeInv DEF ListenEnds, Goto
<1>2. /\ Device' = Device /\ Mapped' = Mapped /\ pc'["main"] = pc["main"]
      /\ pc'["ws"] = IF entities = <<>> THEN "opening" ELSE "darkening"
  BY <1>1, KindKept DEF Typed, WorkTyped, Tasks
<1>3. HubTyped' /\ TableTyped' /\ ShownTyped'
  BY <1>1, <1>2 DEF Typed, HubTyped, About, TableTyped, ShownTyped, book, ha
<1>4. WorkTyped'
  BY <1>1, <1>2 DEF Typed, WorkTyped, ForThisDevice, Tasks, MainPc, WsPc
<1>5. LoopTyped'
  BY <1>1, <1>2 DEF Typed, LoopTyped, TableTyped, WorkTyped, Tasks, book
<1>6. HandlerTyped' /\ Solo'
  BY <1>1, <1>2 DEF Typed, HandlerTyped, About, Solo, book, handler
<1> QED BY <1>3, <1>4, <1>5, <1>6 DEF Typed

LEMMA DarkenedTypes == ASSUME TypeInv, Darkened PROVE Typed'
<1>1. /\ Typed /\ pc["ws"] = "darkening" /\ todo["ws"] # <<>> /\ "ws" \in Tasks
      /\ AvailabilityPublish(Head(todo["ws"]), FALSE)
      /\ todo' = [todo EXCEPT !["ws"] = Tail(todo["ws"])]
      /\ pc' = IF Len(todo["ws"]) = 1 THEN [pc EXCEPT !["ws"] = "opening"] ELSE pc
      /\ UNCHANGED <<hub, blind, cache, book, shown, snap, items, out, handler>>
      /\ UNCHANGED <<kind, shown, blind>>
  BY TypedIsTypeInv DEF Darkened, Goto, Typed, LoopTyped, hub, Tasks
<1>2. /\ Device' = Device /\ Mapped' = Mapped /\ pc'["main"] = pc["main"]
      /\ pc'["ws"] = IF Len(todo["ws"]) = 1 THEN "opening" ELSE "darkening"
  BY <1>1, KindKept DEF Typed, WorkTyped, Tasks
<1>t. /\ Tail(todo["ws"]) \in Seq(Entities)
      /\ Range(Tail(todo["ws"])) \subseteq Range(kind.entities)
      /\ Head(todo["ws"]) \in Range(kind.entities)
  BY <1>1, TailOfTodo
<1>l. Len(todo["ws"]) # 1 => Tail(todo["ws"]) # <<>>
  <2>1. todo["ws"] \in Seq(Entities) BY <1>1 DEF Typed, LoopTyped
  <2> DEFINE rest == Tail(todo["ws"])
  <2>2. Len(rest) = Len(todo["ws"]) - 1 /\ Len(todo["ws"]) \in Nat
    BY <1>1, <2>1
  <2> HIDE DEF rest
  <2>3. rest = <<>> => Len(rest) = 0 OBVIOUS
  <2>4. Len(todo["ws"]) # 1 => rest # <<>> BY <2>2, <2>3
  <2> QED BY <2>4 DEF rest
<1>3. ShownTyped'
  <2>1. lastReachable' \in BOOLEAN \union {None}
    BY <1>1 DEF Typed, ShownTyped, book
  <2> QED BY <1>1, <1>t, <2>1, AvailabilityKeeps
<1>4. WorkTyped'
  BY <1>1, <1>2 DEF Typed, WorkTyped, ForThisDevice, Tasks, MainPc, WsPc
<1>5. LoopTyped'
  <2>1. todo' \in [Tasks -> Seq(Entities)] /\ todo'["ws"] = Tail(todo["ws"])
        /\ todo'["main"] = todo["main"] /\ snap' = snap /\ entities' = entities
    BY <1>1, <1>t DEF Typed, LoopTyped, Tasks, book
  <2> QED BY <1>1, <1>2, <1>t, <1>l, <2>1 DEF Typed, LoopTyped, Tasks
<1>6. HubTyped' /\ TableTyped' /\ HandlerTyped' /\ Solo'
  BY <1>1, <1>2, HubKeeps DEF Typed, TableTyped, HandlerTyped, About, Solo, book,
     handler, hub
<1> QED BY <1>3, <1>4, <1>5, <1>6 DEF Typed

\* The hub.
LEMMA HubMoves ==
  ASSUME TypeInv, HubTyped', disturbances' \in 0..MaxDisturbances, blind' \in BOOLEAN,
         UNCHANGED <<kind, cache, book, ha, pc, task, handler>>,
         DOMAIN value' = DOMAIN value,
         ~link' => pc["ws"] = "connecting" \/ pc["main"] = "waiting",
         pc["ws"] \in {"connecting", "opening", "darkening"} => ~link' /\ wire' = <<>>
  PROVE Typed'
<1>1. Typed /\ Device' = Device /\ Mapped' = Mapped BY TypedIsTypeInv, KindKept
<1>2. TableTyped' /\ ShownTyped' BY <1>1 DEF Typed, TableTyped, ShownTyped, book, ha
<1>3. WorkTyped' BY <1>1 DEF Typed, WorkTyped, ForThisDevice, task
<1>4. LoopTyped' BY <1>1 DEF Typed, LoopTyped, book, task
<1>5. HandlerTyped' BY <1>1 DEF Typed, HandlerTyped, About, book, handler
<1>6. Solo' BY <1>1 DEF Typed, Solo
<1> QED BY <1>2, <1>3, <1>4, <1>5, <1>6 DEF Typed

LEMMA SendTypes ==
  ASSUME HubTyped, NEW r \in {"up", "down", "none"}, NEW a, NEW v, Send(r, a, v),
         (a = None /\ v = None) \/ (a \in DOMAIN value /\ v \in Values),
         DOMAIN value' = DOMAIN value
  PROVE /\ wire' \in Seq(Message) /\ \A n \in 1..Len(wire') : About(wire[n])'
        /\ ~link => wire' = wire
<1> DEFINE m == [reach |-> r, attr |-> a, value |-> v]
<1>1. m \in Message /\ (m.attr = None \/ (m.attr \in DOMAIN value' /\ m.value \in Values))
  BY AttributesAreMapped DEF Message, HubTyped
<1> HIDE DEF m
<1>2. wire' = IF link THEN Append(wire, m) ELSE wire BY DEF Send, m
<1>3. wire \in Seq(Message) BY DEF HubTyped
<1>4. CASE link
  <2>1. /\ wire' \in Seq(Message) /\ Len(wire') = Len(wire) + 1 /\ Len(wire) \in Nat
        /\ wire'[Len(wire) + 1] = m /\ \A k \in 1..Len(wire) : wire'[k] = wire[k]
    BY <1>1, <1>2, <1>3, <1>4
  <2>2. \A n \in 1..Len(wire') : n = Len(wire) + 1 \/ n \in 1..Len(wire) BY <2>1
  <2> QED BY <1>1, <1>4, <2>1, <2>2 DEF HubTyped, About
<1>5. CASE ~link BY <1>2, <1>3, <1>5 DEF HubTyped, About
<1> QED BY <1>4, <1>5

LEMMA HubStepTypes ==
  ASSUME TypeInv, HubStep, value' \in [DOMAIN value -> Values], reach' \in BOOLEAN,
         wire' \in Seq(Message), \A n \in 1..Len(wire') : About(wire[n])',
         ~link => wire' = wire
  PROVE Typed'
<1>1. Typed BY TypedIsTypeInv
<1>2. UNCHANGED <<kind, link, cache, book, ha, pc, task, handler>>
      /\ disturbances' \in 0..MaxDisturbances /\ blind' \in BOOLEAN
  BY <1>1, DeviceSyncAssumption DEF HubStep, Disturb, Typed, ShownTyped, Starting
<1>3. DOMAIN value' = DOMAIN value /\ value' \in [Range(kind.attributes) -> Values]
  BY <1>1 DEF Typed, HubTyped
<1>4. HubTyped' BY <1>1, <1>2, <1>3 DEF Typed, HubTyped
<1> QED BY <1>1, <1>2, <1>3, <1>4, HubMoves DEF Typed, Solo

LEMMA HubTypes ==
  ASSUME TypeInv, Hub PROVE Typed'
<1>0. Typed /\ value \in [DOMAIN value -> Values] /\ reach \in BOOLEAN /\ HubTyped
  BY TypedIsTypeInv DEF Typed, HubTyped
<1>1. ASSUME NEW a \in Attributes, NEW v \in Values, HubChanges(a, v) PROVE Typed'
  <2>1. /\ a \in DOMAIN value /\ value' \in [DOMAIN value -> Values] /\ HubStep
        /\ reach' \in BOOLEAN /\ DOMAIN value' = DOMAIN value
    BY <1>0, <1>1 DEF HubChanges
  <2>2. PICK r \in {"up", "none"} : Send(r, a, v) BY <1>1 DEF HubChanges
  <2> QED BY <1>0, <2>1, <2>2, SendTypes, HubStepTypes
<1>2. CASE HubLoses
  <2>1. value' = value /\ HubStep /\ reach' \in BOOLEAN /\ Send("down", None, None)
        /\ DOMAIN value' = DOMAIN value
    BY <1>0, <1>2 DEF HubLoses
  <2>2. /\ wire' \in Seq(Message) /\ \A n \in 1..Len(wire') : About(wire[n])'
        /\ ~link => wire' = wire
    BY <1>0, <2>1, SendTypes
  <2> QED BY <1>0, <2>1, <2>2, HubStepTypes
<1>3. ASSUME NEW now \in [DOMAIN value -> Values], HubReturns(now) PROVE Typed'
  <2>1. value' \in [DOMAIN value -> Values] /\ HubStep /\ reach' \in BOOLEAN
        /\ Send("up", None, None) /\ DOMAIN value' = DOMAIN value
    BY <1>0, <1>3 DEF HubReturns
  <2>2. /\ wire' \in Seq(Message) /\ \A n \in 1..Len(wire') : About(wire[n])'
        /\ ~link => wire' = wire
    BY <1>0, <2>1, SendTypes
  <2> QED BY <1>0, <2>1, <2>2, HubStepTypes
<1>4. CASE HubDrops
  <2>1. /\ UNCHANGED <<kind, value, reach, wire, blind, cache, book, ha, pc, task, handler>>
        /\ link' = FALSE /\ ~Starting /\ link /\ disturbances' \in 0..MaxDisturbances
    BY <1>0, <1>4, DeviceSyncAssumption
    DEF HubDrops, Disturb, Typed, ShownTyped
  <2>2. HubTyped' BY <1>0, <2>1 DEF HubTyped, About
  <2> QED BY <1>0, <2>1, <2>2, HubMoves DEF Starting, Typed, Solo, ShownTyped
<1> QED BY <1>1, <1>2, <1>3, <1>4 DEF Hub

-----------------------------------------------------------------------------
(* Types *)

LEMMA TypeStart == ASSUME Init PROVE Typed
<1>1. kind \in Kinds /\ 0 \in 0..MaxDisturbances
  BY DeviceSyncAssumption DEF Init
<1>2. HubTyped
  <2>1. wire \in Seq(Message) /\ Len(wire) = 0 BY DEF Init
  <2>2. value \in [Range(kind.attributes) -> Values] /\ reach \in BOOLEAN /\ link \in BOOLEAN
    BY DeviceSyncAssumption DEF Init
  <2> QED BY <1>1, <2>1, <2>2 DEF HubTyped
<1>3. TableTyped BY DEF Init, TableTyped, IsInjective, Range
<1>4. ShownTyped BY <1>1 DEF Init, ShownTyped, Cached
<1>5. LoopTyped BY DEF Init, LoopTyped, Tasks, Range
<1>6. HandlerTyped
  <2>1. msg \in Message /\ msg.attr = None BY DEF Init, NoMessage, Message
  <2>2. mark \in [next : Nat, size : Nat] /\ mark.next = 0 /\ mark.size = 0
    BY DEF Init, NoLoop
  <2>3. Len(entities) = 0 /\ pc["ws"] = "connecting" BY DEF Init, Tasks
  <2> QED BY <2>1, <2>2, <2>3 DEF HandlerTyped, About
<1>7. WorkTyped
  BY DEF Init, WorkTyped, ForThisDevice, Tasks, MainPc, WsPc, Cached
<1>8. Solo BY DEF Init, Solo, Tasks
<1> QED BY <1>2, <1>3, <1>4, <1>5, <1>6, <1>7, <1>8 DEF Typed

LEMMA TypeStep == ASSUME TypeInv, [Next]_vars PROVE TypeInv'
<1>6. Typed' => TypeInv' BY TypedIsTypeInv, PTL
<1> SUFFICES Typed' BY <1>6
<1>1. CASE UNCHANGED vars
  <2>1. UNCHANGED <<hub, blind, cache, book, ha, pc, task, handler, disturbances>>
    BY <1>1 DEF vars
  <2>2. Typed /\ Device' = Device /\ Mapped' = Mapped
    BY <2>1, TypedIsTypeInv, KindKept DEF hub
  <2>3. Typed'
    <3>1. HubTyped' /\ TableTyped' /\ ShownTyped'
      BY <2>1, <2>2, HubKeeps DEF Typed, TableTyped, ShownTyped, hub, book, ha
    <3>2. LoopTyped' /\ HandlerTyped'
      BY <2>1, <2>2 DEF Typed, LoopTyped, HandlerTyped, About, hub, book, task, handler
    <3>3. WorkTyped' /\ Solo'
      BY <2>1, <2>2 DEF Typed, WorkTyped, ForThisDevice, Solo, hub, task
    <3> QED BY <3>1, <3>2, <3>3 DEF Typed
  <2> QED BY <2>3
<1>2. ASSUME NEW t \in Tasks, Discovery(t) PROVE Typed'
  BY <1>2, FetchedTypes, RegisteredTypes, RegisterFailsTypes, InitialAvailabilityTypes,
     PublishedTypes DEF Discovery
<1>3. CASE Ws
  BY <1>2, <1>3, FetchFailsTypes, TakeMessageTypes, MarkedTypes, ReportedReachTypes,
     RefreshedTypes, RefreshFailsTypes, OpenedTypes, ListenEndsTypes, DarkenedTypes
  DEF Ws, Tasks
<1>4. CASE Hub BY <1>4, HubTypes
<1>5. CASE Main BY <1>1, <1>2, <1>5 DEF Main, Poll, Tasks
<1> QED BY <1>1, <1>3, <1>4, <1>5 DEF Next

\* Every variable keeps its type, whatever the device is like and whatever fails.
THEOREM TypeCorrect == Spec => []TypeOK
<1>1. Init => TypeInv BY TypeStart, TypedIsTypeInv
<1>2. TypeInv /\ [Next]_vars => TypeInv' BY TypeStep
<1>3. TypeInv => TypeOK BY DEF TypeInv
<1> QED BY <1>1, <1>2, <1>3, PTL DEF Spec

-----------------------------------------------------------------------------
(* The messages on their way *)

\* A list without its first message.
LEMMA TailOf ==
  ASSUME NEW S, NEW q \in Seq(S), q # <<>>
  PROVE /\ Head(q) = q[1] /\ Tail(q) \in Seq(S) /\ Len(Tail(q)) = Len(q) - 1
        /\ Len(q) \in Nat /\ Len(q) > 0
        /\ \A n \in 1..Len(Tail(q)) : Tail(q)[n] = q[n + 1]
        /\ \A n \in 1..Len(Tail(q)) : n + 1 \in 1..Len(q)
        /\ \A n \in 1..Len(q) : n > 1 =>
              n - 1 \in 1..Len(Tail(q)) /\ q[n] = Tail(q)[n - 1]
<1>1. q \in Seq(S) /\ Len(q) > 0 /\ Len(q) \in Nat OBVIOUS
<1>2. \A n \in 1..Len(q) : n > 1 =>
          n - 1 \in 1..Len(Tail(q)) /\ q[n] = Tail(q)[n - 1]
  <2> SUFFICES ASSUME NEW n \in 1..Len(q), n > 1
               PROVE n - 1 \in 1..Len(Tail(q)) /\ q[n] = Tail(q)[n - 1]
    OBVIOUS
  <2>1. n - 1 \in 1..(Len(q) - 1) /\ (n - 1) + 1 = n BY <1>1
  <2> QED BY <1>1, <2>1
<1> QED BY <1>1, <1>2

LEMMA TailLater ==
  ASSUME NEW q \in Seq(Message), q # <<>>, NEW n \in Nat, Later(q, n + 1)
  PROVE Later(Tail(q), n)
<1> DEFINE r == Tail(q)
<1>1. /\ Len(r) = Len(q) - 1 /\ Len(q) \in Nat
      /\ \A i \in 1..Len(q) : i > 1 => i - 1 \in 1..Len(r) /\ q[i] = r[i - 1]
  BY TailOf
<1> HIDE DEF r
<1>2. PICK j, k \in 1..Len(q) :
          n + 1 < j /\ j < k /\ q[j].reach = "down" /\ q[k].reach = "up"
  BY DEF Later
<1>3. /\ j - 1 \in 1..Len(r) /\ q[j] = r[j - 1] /\ k - 1 \in 1..Len(r) /\ q[k] = r[k - 1]
      /\ n < j - 1 /\ j - 1 < k - 1
  BY <1>1, <1>2
<1>4. r[j - 1].reach = "down" /\ r[k - 1].reach = "up" BY <1>2, <1>3
<1> DEFINE x == j - 1
           y == k - 1
<1>5. /\ x \in 1..Len(r) /\ y \in 1..Len(r) /\ n < x /\ x < y
      /\ r[x].reach = "down" /\ r[y].reach = "up"
  BY <1>3, <1>4
<1> HIDE DEF x, y
<1>6. Later(r, n) BY <1>5 DEF Later
<1> QED BY <1>6 DEF r

\* What is known of the reachability when the first message of q was handled.
Heard(q, last, now) ==
    \/ q[1].reach = "none" /\ now = last
    \/ q[1].reach # "none" /\ now = (q[1].reach = "up")
          /\ ~ (q[1].reach = "up" /\ last # TRUE)

LEMMA TailDue ==
  ASSUME NEW q \in Seq(Message), q # <<>>, NEW last, NEW now, Heard(q, last, now),
         Due(q, last)
  PROVE Due(Tail(q), now)
<1> DEFINE r == Tail(q)
<1>1. /\ Len(r) = Len(q) - 1 /\ Len(q) \in Nat /\ Len(q) > 0
      /\ \A i \in 1..Len(q) : i > 1 => i - 1 \in 1..Len(r) /\ q[i] = r[i - 1]
      /\ q[1] \in Message
  BY TailOf
<1> HIDE DEF r
<1>r. q[1].reach \in {"up", "down", "none"} BY <1>1 DEF Message
<1>2. ASSUME NEW k \in 1..Len(q), q[k].reach = "up", k > 1, now # TRUE
      PROVE Due(r, now)
  <2>1. k - 1 \in 1..Len(r) /\ r[k - 1].reach = "up" BY <1>1, <1>2
  <2> QED BY <1>2, <2>1 DEF Due
<1>3. CASE Later(q, 1)
  <2>1. 0 \in Nat /\ 0 + 1 = 1 OBVIOUS
  <2>2. Later(r, 0) BY <1>3, <2>1, TailLater DEF r
  <2> QED BY <2>2 DEF Due, r
<1>4. CASE Later(q, 0) /\ ~ Later(q, 1)
  <2>1. PICK j, k \in 1..Len(q) :
            0 < j /\ j < k /\ q[j].reach = "down" /\ q[k].reach = "up"
    BY <1>4 DEF Later
  <2>2. ~ (1 < j) BY <1>4, <2>1 DEF Later
  <2>3. j = 1 /\ k > 1 BY <2>1, <2>2
  <2>4. now # TRUE BY <2>1, <2>3 DEF Heard
  <2> QED BY <1>2, <2>1, <2>3, <2>4 DEF r
<1>5. CASE last # TRUE /\ \E k \in 1..Len(q) : q[k].reach = "up"
  <2>1. PICK k \in 1..Len(q) : q[k].reach = "up" BY <1>5
  <2>2. q[1].reach # "up" /\ now # TRUE BY <1>5, <1>r DEF Heard
  <2>3. k > 1 BY <2>1, <2>2
  <2> QED BY <1>2, <2>1, <2>2, <2>3 DEF r
<1> QED BY <1>3, <1>4, <1>5 DEF Due

LEMMA TailLoss ==
  ASSUME NEW q \in Seq(Message), q # <<>>, NEW last, NEW now,
         q[1].reach = "up" \/ Heard(q, last, now), LossHeard(q, last)
  PROVE LossHeard(Tail(q), now)
<1> DEFINE r == Tail(q)
<1>1. /\ Len(r) = Len(q) - 1 /\ Len(q) \in Nat /\ Len(q) > 0
      /\ \A i \in 1..Len(q) : i > 1 => i - 1 \in 1..Len(r) /\ q[i] = r[i - 1]
      /\ \A i \in 1..Len(r) : r[i] = q[i + 1] /\ i + 1 \in 1..Len(q)
  BY TailOf
<1> HIDE DEF r
<1>2. ASSUME NEW n \in 1..Len(r), r[n].attr # None
      PROVE \E k \in 1..Len(r) : k > n /\ r[k].reach = "down"
  <2>1. PICK k \in 1..Len(q) : k > n + 1 /\ q[k].reach = "down"
    BY <1>1, <1>2 DEF LossHeard
  <2>2. k - 1 \in 1..Len(r) /\ k - 1 > n /\ r[k - 1].reach = "down" BY <1>1, <2>1
  <2> QED BY <2>2
<1> DEFINE LastIsDown ==
               \E n \in 1..Len(r) : /\ r[n].reach = "down"
                                    /\ \A k \in 1..Len(r) : k > n => r[k].reach = "none"
           NothingSaid == now # TRUE /\ \A n \in 1..Len(r) : r[n].reach = "none"
<1>3. LastIsDown \/ NothingSaid
  <2>1. ASSUME NEW n \in 1..Len(q), q[n].reach = "down",
               \A k \in 1..Len(q) : k > n => q[k].reach = "none"
        PROVE LastIsDown \/ NothingSaid
    <3>1. CASE n = 1
      <4>1. now # TRUE BY <2>1, <3>1 DEF Heard
      <4>2. \A i \in 1..Len(r) : r[i].reach = "none" BY <1>1, <2>1, <3>1
      <4> QED BY <4>1, <4>2
    <3>n. n = 1 \/ n > 1 BY <1>1
    <3>2. CASE n > 1
      <4>1. n - 1 \in 1..Len(r) /\ r[n - 1].reach = "down" BY <1>1, <2>1, <3>2
      <4>2. \A k \in 1..Len(r) : k > n - 1 => r[k].reach = "none" BY <1>1, <2>1, <3>2
      <4> QED BY <4>1, <4>2
    <3> QED BY <3>n, <3>1, <3>2
  <2>2. CASE last # TRUE /\ \A n \in 1..Len(q) : q[n].reach = "none"
    <3>0. q[1].reach = "none" BY <1>1, <2>2
    <3>1. now # TRUE BY <2>2, <3>0 DEF Heard
    <3>2. \A i \in 1..Len(r) : r[i].reach = "none" BY <1>1, <2>2
    <3>3. NothingSaid BY <3>1, <3>2
    <3> QED BY <3>3
  <2> QED BY <2>1, <2>2 DEF LossHeard
<1>4. LossHeard(r, now) BY <1>2, <1>3 DEF LossHeard
<1> QED BY <1>4 DEF r

LEMMA TailReturn ==
  ASSUME NEW q \in Seq(Message), q # <<>>, ReturnHeard(q)
  PROVE ReturnHeard(Tail(q))
<1> DEFINE r == Tail(q)
<1>1. /\ Len(r) = Len(q) - 1 /\ Len(q) \in Nat /\ Len(q) > 0
      /\ \A i \in 1..Len(q) : i > 1 => i - 1 \in 1..Len(r) /\ q[i] = r[i - 1]
      /\ \A i \in 1..Len(r) : r[i] = q[i + 1] /\ i + 1 \in 1..Len(q)
  BY TailOf
<1> HIDE DEF r
<1>2. ASSUME NEW n \in 1..Len(r), r[n].reach = "down"
      PROVE \E k \in 1..Len(r) : k > n /\ r[k].reach = "up"
  <2>1. PICK k \in 1..Len(q) : k > n + 1 /\ q[k].reach = "up"
    BY <1>1, <1>2 DEF ReturnHeard
  <2>2. k - 1 \in 1..Len(r) /\ k - 1 > n /\ r[k - 1].reach = "up" BY <1>1, <2>1
  <2> QED BY <2>2
<1>3. ReturnHeard(r) BY <1>2 DEF ReturnHeard
<1> QED BY <1>3 DEF r

LEMMA TailSaid ==
  ASSUME NEW q \in Seq(Message), q # <<>>, NEW a, NEW v, Said(q, a, v)
  PROVE Said(Tail(q), a, v)
<1> DEFINE r == Tail(q)
<1>1. /\ Len(r) = Len(q) - 1 /\ Len(q) \in Nat /\ Len(q) > 0
      /\ \A i \in 1..Len(q) : i > 1 => i - 1 \in 1..Len(r) /\ q[i] = r[i - 1]
      /\ \A i \in 1..Len(r) : r[i] = q[i + 1] /\ i + 1 \in 1..Len(q)
  BY TailOf
<1>l. \A n \in Nat : Later(q, n + 1) => Later(r, n) BY TailLater
<1> HIDE DEF r
<1>2. ASSUME NEW n \in 1..Len(r), LastOf(r, a, n)
      PROVE r[n].value = v \/ Later(r, n)
  <2>1. q[n + 1].attr = a BY <1>1, <1>2 DEF LastOf
  <2>2. ASSUME NEW k \in 1..Len(q), k > n + 1 PROVE q[k].attr # a
    <3>1. k - 1 \in 1..Len(r) /\ k - 1 > n /\ q[k] = r[k - 1] BY <1>1, <2>2
    <3> QED BY <1>2, <3>1 DEF LastOf
  <2>3. LastOf(q, a, n + 1) BY <2>1, <2>2 DEF LastOf
  <2>4. q[n + 1].value = v \/ Later(q, n + 1) BY <1>1, <2>3 DEF Said
  <2> QED BY <1>1, <1>l, <2>4
<1>3. Said(r, a, v) BY <1>2 DEF Said
<1> QED BY <1>3 DEF r

\* An attribute that only the first message was about has its value from it.
LEMMA TailMentions ==
  ASSUME NEW q \in Seq(Message), q # <<>>, NEW a, NEW v, Said(q, a, v),
         Mentions(q, a), ~ Mentions(Tail(q), a)
  PROVE q[1].attr = a /\ (q[1].value = v \/ Later(Tail(q), 0))
<1> DEFINE r == Tail(q)
<1>1. /\ Len(r) = Len(q) - 1 /\ Len(q) \in Nat /\ Len(q) > 0
      /\ \A i \in 1..Len(q) : i > 1 => i - 1 \in 1..Len(r) /\ q[i] = r[i - 1]
  BY TailOf
<1>l. Later(q, 0 + 1) => Later(r, 0) BY TailLater
<1> HIDE DEF r
<1>2. \A k \in 1..Len(q) : k > 1 => q[k].attr # a
  <2> SUFFICES ASSUME NEW k \in 1..Len(q), k > 1 PROVE q[k].attr # a OBVIOUS
  <2>1. k - 1 \in 1..Len(r) /\ q[k] = r[k - 1] BY <1>1
  <2> QED BY <2>1 DEF Mentions, r
<1>3. q[1].attr = a
  <2>1. PICK n \in 1..Len(q) : q[n].attr = a BY DEF Mentions
  <2> QED BY <1>2, <2>1
<1>4. LastOf(q, a, 1) BY <1>2, <1>3 DEF LastOf
<1>5. q[1].value = v \/ Later(q, 1) BY <1>1, <1>4 DEF Said
<1> QED BY <1>3, <1>5, <1>l DEF r

\* The last message about reachability says how the device is.
LEMMA LastReach ==
  ASSUME NEW q \in Seq(Message), q # <<>>, q[1].reach # "none", NEW last,
         NEW now \in BOOLEAN, ~ now => LossHeard(q, last), now => ReturnHeard(q),
         \A n \in 1..Len(Tail(q)) : Tail(q)[n].reach = "none"
  PROVE (q[1].reach = "up") = now
<1> DEFINE r == Tail(q)
<1>1. /\ Len(r) = Len(q) - 1 /\ Len(q) \in Nat /\ Len(q) > 0 /\ 1 \in 1..Len(q)
      /\ \A i \in 1..Len(q) : i > 1 => i - 1 \in 1..Len(r) /\ q[i] = r[i - 1]
      /\ q[1] \in Message
  BY TailOf
<1>2. \A i \in 1..Len(q) : i > 1 => q[i].reach = "none" BY <1>1
<1>3. q[1].reach \in {"up", "down"} BY <1>1 DEF Message
<1>4. CASE now
  <2>1. q[1].reach # "down" BY <1>1, <1>2, <1>4 DEF ReturnHeard
  <2> QED BY <1>3, <1>4, <2>1
<1>5. CASE ~ now
  <2>1. LossHeard(q, last) BY <1>5
  <2>2. PICK n \in 1..Len(q) : q[n].reach = "down"
    BY <1>1, <2>1 DEF LossHeard
  <2>3. n = 1 BY <1>2, <2>2
  <2> QED BY <1>5, <2>2, <2>3
<1> QED BY <1>4, <1>5


\* A list with one more message.
LEMMA AppendOf ==
  ASSUME NEW S, NEW q \in Seq(S), NEW m \in S
  PROVE LET r == Append(q, m) IN
        /\ r \in Seq(S) /\ Len(r) = Len(q) + 1 /\ Len(q) \in Nat /\ r[Len(r)] = m
        /\ \A n \in 1..Len(q) : r[n] = q[n] /\ n \in 1..Len(r) /\ n < Len(r)
        /\ \A n \in 1..Len(r) : n = Len(r) \/ n \in 1..Len(q)
        /\ Len(r) \in 1..Len(r)
  OBVIOUS

LEMMA AppendLater ==
  ASSUME NEW q \in Seq(Message), NEW m \in Message, NEW n, Later(q, n)
  PROVE Later(Append(q, m), n)
<1> DEFINE r == Append(q, m)
<1>1. \A i \in 1..Len(q) : r[i] = q[i] /\ i \in 1..Len(r) BY AppendOf
<1> HIDE DEF r
<1>2. PICK j, k \in 1..Len(q) :
          n < j /\ j < k /\ q[j].reach = "down" /\ q[k].reach = "up"
  BY DEF Later
<1>3. Later(r, n) BY <1>1, <1>2 DEF Later
<1> QED BY <1>3 DEF r

LEMMA AppendDue ==
  ASSUME NEW q \in Seq(Message), NEW m \in Message, NEW last, Due(q, last)
  PROVE Due(Append(q, m), last)
<1> DEFINE r == Append(q, m)
<1>1. \A i \in 1..Len(q) : r[i] = q[i] /\ i \in 1..Len(r) BY AppendOf
<1>2. Later(q, 0) => Later(r, 0) BY AppendLater
<1> HIDE DEF r
<1>3. Due(r, last) BY <1>1, <1>2 DEF Due
<1> QED BY <1>3 DEF r

LEMMA AppendMentions ==
  ASSUME NEW q \in Seq(Message), NEW m \in Message, NEW a,
         Mentions(q, a) \/ m.attr = a
  PROVE Mentions(Append(q, m), a)
<1> DEFINE r == Append(q, m)
<1>1. /\ \A i \in 1..Len(q) : r[i] = q[i] /\ i \in 1..Len(r)
      /\ Len(r) \in 1..Len(r) /\ r[Len(r)] = m
  BY AppendOf
<1> HIDE DEF r
<1>3. Mentions(r, a) BY <1>1 DEF Mentions
<1> QED BY <1>3 DEF r

\* A message about a is the last word on it; any other one says nothing of it.
LEMMA AppendSaid ==
  ASSUME NEW q \in Seq(Message), NEW m \in Message, NEW a, NEW v,
         IF m.attr = a THEN m.value = v ELSE Said(q, a, v)
  PROVE Said(Append(q, m), a, v)
<1> DEFINE r == Append(q, m)
<1>1. /\ \A i \in 1..Len(q) : r[i] = q[i] /\ i \in 1..Len(r) /\ i < Len(r)
      /\ Len(r) \in 1..Len(r) /\ r[Len(r)] = m
      /\ \A i \in 1..Len(r) : i = Len(r) \/ i \in 1..Len(q)
  BY AppendOf
<1>l. \A i : Later(q, i) => Later(r, i) BY AppendLater
<1> HIDE DEF r
<1>2. ASSUME NEW n \in 1..Len(r), LastOf(r, a, n)
      PROVE r[n].value = v \/ Later(r, n)
  <2>1. CASE n = Len(r) BY <1>1, <1>2, <2>1 DEF LastOf
  <2>2. CASE n \in 1..Len(q)
    <3>1. m.attr # a /\ q[n].attr = a BY <1>1, <1>2, <2>2 DEF LastOf
    <3>2. \A k \in 1..Len(q) : k > n => q[k].attr # a
      BY <1>1, <1>2 DEF LastOf
    <3>3. LastOf(q, a, n) BY <3>1, <3>2 DEF LastOf
    <3>4. q[n].value = v \/ Later(q, n) BY <2>2, <3>1, <3>3 DEF Said
    <3> QED BY <1>1, <1>l, <2>2, <3>4
  <2> QED BY <1>1, <2>1, <2>2
<1>3. Said(r, a, v) BY <1>2 DEF Said
<1> QED BY <1>3 DEF r

LEMMA AppendReturn ==
  ASSUME NEW q \in Seq(Message), NEW m \in Message,
         m.reach = "up" \/ (m.reach = "none" /\ ReturnHeard(q))
  PROVE ReturnHeard(Append(q, m))
<1> DEFINE r == Append(q, m)
<1>1. /\ \A i \in 1..Len(q) : r[i] = q[i] /\ i \in 1..Len(r) /\ i < Len(r)
      /\ Len(r) \in 1..Len(r) /\ r[Len(r)] = m
      /\ \A i \in 1..Len(r) : i = Len(r) \/ i \in 1..Len(q)
  BY AppendOf
<1> HIDE DEF r
<1>2. ASSUME NEW n \in 1..Len(r), r[n].reach = "down"
      PROVE \E k \in 1..Len(r) : k > n /\ r[k].reach = "up"
  <2>1. n \in 1..Len(q) /\ q[n].reach = "down" BY <1>1, <1>2
  <2>2. CASE m.reach = "up" BY <1>1, <2>1, <2>2
  <2>3. CASE ReturnHeard(q)
    <3>1. PICK k \in 1..Len(q) : k > n /\ q[k].reach = "up"
      BY <2>1, <2>3 DEF ReturnHeard
    <3> QED BY <1>1, <3>1
  <2> QED BY <2>2, <2>3
<1>3. ReturnHeard(r) BY <1>2 DEF ReturnHeard
<1> QED BY <1>3 DEF r

\* The device goes away.
LEMMA AppendLoss ==
  ASSUME NEW q \in Seq(Message), NEW m \in Message, m.reach = "down", m.attr = None,
         NEW last
  PROVE LossHeard(Append(q, m), last)
<1> DEFINE r == Append(q, m)
<1>1. /\ \A i \in 1..Len(q) : r[i] = q[i] /\ i \in 1..Len(r) /\ i < Len(r)
      /\ Len(r) \in 1..Len(r) /\ r[Len(r)] = m /\ Len(r) \in Nat
      /\ \A i \in 1..Len(r) : i = Len(r) \/ i \in 1..Len(q)
  BY AppendOf
<1> HIDE DEF r
<1>2. \A n \in 1..Len(r) :
          r[n].attr # None => \E k \in 1..Len(r) : k > n /\ r[k].reach = "down"
  BY <1>1
<1>3. /\ r[Len(r)].reach = "down"
      /\ \A k \in 1..Len(r) : k > Len(r) => r[k].reach = "none"
  BY <1>1
<1>4. LossHeard(r, last) BY <1>1, <1>2, <1>3 DEF LossHeard
<1> QED BY <1>4 DEF r

\* The device comes back: it is fetched, after whatever was said before it left.
LEMMA AppendBack ==
  ASSUME NEW q \in Seq(Message), NEW m \in Message, m.reach = "up", m.attr = None,
         NEW last, LossHeard(q, last), NEW a, a # None, NEW v
  PROVE Due(Append(q, m), last) /\ Said(Append(q, m), a, v)
<1> DEFINE r == Append(q, m)
<1>1. /\ \A i \in 1..Len(q) : r[i] = q[i] /\ i \in 1..Len(r) /\ i < Len(r)
      /\ Len(r) \in 1..Len(r) /\ r[Len(r)] = m /\ Len(r) \in Nat
      /\ \A i \in 1..Len(r) : i = Len(r) \/ i \in 1..Len(q)
  BY AppendOf
<1> HIDE DEF r
<1>2. ASSUME NEW n \in 1..Len(r), LastOf(r, a, n) PROVE Later(r, n)
  <2>1. n \in 1..Len(q) /\ q[n].attr = a BY <1>1, <1>2 DEF LastOf
  <2>2. PICK k \in 1..Len(q) : k > n /\ q[k].reach = "down"
    BY <2>1 DEF LossHeard
  <2> QED BY <1>1, <2>2 DEF Later
<1>3. Said(r, a, v) BY <1>2 DEF Said
<1>4. Due(r, last)
  <2>1. CASE last # TRUE BY <1>1, <2>1 DEF Due
  <2>2. CASE ~ (last # TRUE)
    <3>1. PICK n \in 1..Len(q) : q[n].reach = "down" BY <2>2 DEF LossHeard
    <3>2. Later(r, 0) BY <1>1, <3>1 DEF Later
    <3> QED BY <3>2 DEF Due
  <2> QED BY <2>1, <2>2
<1> QED BY <1>3, <1>4 DEF r


LEMMA ConsOf ==
  ASSUME NEW S, NEW m \in S, NEW w \in Seq(S)
  PROVE LET q == <<m>> \o w IN
        /\ q \in Seq(S) /\ q # <<>> /\ q[1] = m /\ Tail(q) = w
        /\ \A x \in S : Append(q, x) = <<m>> \o Append(w, x)
<1> DEFINE q == <<m>> \o w
<1>1. <<m>> \in Seq(S) /\ Len(<<m>>) = 1 /\ <<m>>[1] = m OBVIOUS
<1>2. /\ q \in Seq(S) /\ Len(q) = Len(w) + 1 /\ q[1] = m
      /\ \A k \in 1..Len(w) : q[k + 1] = w[k]
      /\ Len(w) \in Nat
  <2>1. /\ <<m>> \o w \in Seq(S) /\ Len(<<m>> \o w) = Len(<<m>>) + Len(w)
        /\ \A k \in 1..(Len(<<m>>) + Len(w)) :
              (<<m>> \o w)[k] = IF k <= Len(<<m>>) THEN <<m>>[k] ELSE w[k - Len(<<m>>)]
    BY <1>1, ConcatProperties
  <2> DEFINE one == <<m>>
  <2>2. one[1] = m /\ Len(one) = 1 BY <1>1
  <2> HIDE DEF one, q
  <2>3. /\ q \in Seq(S) /\ Len(q) = 1 + Len(w) /\ Len(w) \in Nat
        /\ \A k \in 1..(1 + Len(w)) : q[k] = IF k <= 1 THEN one[k] ELSE w[k - 1]
    BY <2>1, <2>2 DEF one, q
  <2>4. q[1] = m BY <2>2, <2>3
  <2>5. \A k \in 1..Len(w) : q[k + 1] = w[k] BY <2>3
  <2> QED BY <2>3, <2>4, <2>5
<1> HIDE DEF q
<1>3. q # <<>> BY <1>2
<1>4. Tail(q) = w
  <2>1. /\ Tail(q) \in Seq(S) /\ Len(Tail(q)) = Len(w)
        /\ \A k \in 1..Len(w) : Tail(q)[k] = w[k]
    BY <1>2, <1>3
  <2> QED BY <2>1, SeqEqual
<1>5. ASSUME NEW x \in S PROVE Append(q, x) = <<m>> \o Append(w, x)
  <2>1. <<x>> \in Seq(S) OBVIOUS
  <2>2. Append(q, x) = q \o <<x>> /\ Append(w, x) = w \o <<x>>
    BY <1>2, AppendIsConcat
  <2>3. q \o <<x>> = <<m>> \o (w \o <<x>>)
    BY <1>1, <2>1, ConcatAssociative DEF q
  <2> QED BY <2>2, <2>3
<1> QED BY <1>2, <1>3, <1>4, <1>5 DEF q

LEMMA HeadAndTail ==
  ASSUME NEW S, NEW w \in Seq(S), w # <<>>
  PROVE <<Head(w)>> \o Tail(w) = w /\ Head(w) \in S /\ Tail(w) \in Seq(S)
<1>1. Len(w) \in 1..Len(w) /\ w \in Seq(S) OBVIOUS
<1>2. w = SubSeq(w, 1, Len(w)) BY SubSeqFull
<1>3. 1 \in 1..Len(w) OBVIOUS
<1>4. SubSeq(w, 1, Len(w)) = <<w[1]>> \o SubSeq(w, 1 + 1, Len(w))
  BY <1>1, <1>3, SubSeqRecursiveFirst
<1>5. Tail(w) = SubSeq(w, 2, Len(w)) BY TailIsSubSeq
<1>6. Head(w) = w[1] /\ Head(w) \in S /\ Tail(w) \in Seq(S) OBVIOUS
<1> QED BY <1>2, <1>4, <1>5, <1>6


-----------------------------------------------------------------------------
(* Calm is accurate: the pieces of the invariant *)

Told ==
    /\ ~reach => LossHeard(Coming, lastReachable)
    /\ ~link => \A n \in 1..Len(wire) : wire[n].reach # "down"
    /\ Watching => /\ reach => ReturnHeard(Coming)
                   /\ \A a \in DOMAIN value : Said(Coming, a, value[a])
Brought == Watching => ReachKept /\ \A a \in DOMAIN value : Kept(a)
AllMarked ==
    /\ pc["ws"] = "marking" => mark.size = Len(entities)
    /\ Watching => \A e \in Range(entities) : Marks(e)
Showing ==
    /\ InFlight => \A a \in DOMAIN out[Doing] : out[Doing][a] = cache[a]
    /\ \A a \in Mapped : kind.entityOf[a] \in Range(entities) => Shows(a)
Sound == QuietStartup /\ Told /\ Brought /\ AllMarked /\ Showing

LEMMA SoundIsCalmInv == CalmInv <=> (~blind => Sound)
  BY DEF CalmInv, Sound, Told, Brought, AllMarked, Showing

\* The types that the steps below need.
LEMMA CalmTypes ==
  ASSUME TypeInv
  PROVE /\ Typed /\ TypeOK /\ kind \in Kinds /\ reach \in BOOLEAN
        /\ cache \in [DOMAIN kind.entityOf -> Cached] /\ None \notin Range(entities)
        /\ pc \in [Tasks -> MainPc \union WsPc] /\ pc["main"] \in MainPc
        /\ pc["ws"] \in WsPc /\ wire \in Seq(Message) /\ msg \in Message /\ About(msg)
        /\ Coming \in Seq(Message) /\ "ws" \in Tasks /\ "main" \in Tasks
        /\ DOMAIN value = Range(kind.attributes) /\ DOMAIN value \subseteq DOMAIN kind.entityOf
        /\ "isReachable" \in DOMAIN kind.entityOf /\ "isReachable" \notin DOMAIN value
        /\ None \notin DOMAIN value /\ Doing \in Tasks
        /\ \A t \in Tasks : ForThisDevice(items[t]) /\ (pc[t] # "publishing" => items[t] = <<>>)
<1>1. Typed /\ TypeOK /\ None \notin Range(entities)
  BY TypedIsTypeInv, NoneIsNoEntity DEF TypeInv
<1>2. /\ kind \in Kinds /\ wire \in Seq(Message) /\ DOMAIN value = Range(kind.attributes)
      /\ reach \in BOOLEAN
  BY <1>1 DEF Typed, HubTyped
<1>3. /\ cache \in [DOMAIN kind.entityOf -> Cached]
      /\ pc \in [Tasks -> MainPc \union WsPc] /\ pc["main"] \in MainPc /\ pc["ws"] \in WsPc
      /\ \A t \in Tasks :
            ForThisDevice(items[t]) /\ (pc[t] # "publishing" => items[t] = <<>>)
  BY <1>1 DEF Typed, WorkTyped
<1>4. msg \in Message /\ About(msg) BY <1>1 DEF Typed, HandlerTyped
<1>5. Coming \in Seq(Message) BY <1>2, <1>4, ConsOf DEF Coming
<1>6. None \notin Range(kind.attributes)
  BY <1>2, AttributesAreMapped, DeviceSyncAssumption DEF Reported
<1> QED BY <1>1, <1>2, <1>3, <1>4, <1>5, <1>6, AttributesAreMapped DEF Tasks, Doing

\* Who is doing something: after startup it is the connection loop.
LEMMA DoingIs ==
  ASSUME TypeInv, QuietStartup
  PROVE /\ Doing = "main" => /\ pc["main"] # "waiting" /\ wire = <<>> /\ ~Busy
                             /\ pc["ws"] \in {"connecting", "listening"}
                             /\ items["ws"] = <<>>
        /\ pc["ws"] \notin {"connecting", "listening"} \/ wire # <<>> =>
              pc["main"] = "waiting" /\ Doing = "ws"
        /\ pc["main"] = "waiting" <=> Doing = "ws"
        /\ \A t \in Tasks :
              pc[t] \in {"fetching", "registering", "setting", "publishing"} => t = Doing
<1>1. \A t \in Tasks : pc[t] # "publishing" => items[t] = <<>> BY CalmTypes
<1> QED BY <1>1 DEF QuietStartup, Doing, Busy, Tasks

\* A run of Process, by the task that is at work.
LEMMA ProcessCalm ==
  ASSUME TypeInv, QuietStartup, NEW t \in Tasks, t = Doing,
         NEW c \in [DOMAIN kind.entityOf -> Cached],
         NEW its, ForThisDevice(its), NEW label \in {"publishing", "reporting"},
         Process(t, c, its, entities, label), UNCHANGED <<kind, entities>>,
         \A a \in Mapped : kind.entityOf[a] \in Range(entities) =>
            a \in missed' \/ shown'[a] = c[a] \/ Forced(its, a)
  PROVE /\ Showing'
        /\ Pending' = CacheAfter(c, its, Len(its))
        /\ ~Registering' /\ pc'[Doing'] # "fetching"
        /\ \A u \in Tasks : u # t => pc'[u] = pc[u]
        /\ pc'[t] \in {label, Ended(t)}
        /\ (\E n \in 1..Len(its) : Publishes(c, its, n, entities)) => pc'[t] = label
<1>t. TypeOK /\ None \notin Range(entities) /\ pc \in [Tasks -> MainPc \union WsPc]
  BY CalmTypes
<1>i. items \in [Tasks -> Seq(Item)] /\ DOMAIN out = Tasks BY <1>t DEF TypeOK
<1>1. /\ pc' = [pc EXCEPT ![t] = pc'[t]]
      /\ items' = [items EXCEPT ![t] = items'[t]]
      /\ out' = [out EXCEPT ![t] = out'[t]]
      /\ DOMAIN out'[t] \subseteq Mapped
      /\ \A a \in DOMAIN out'[t] : out'[t][a] = cache'[a]
      /\ \/ pc'[t] = label
         \/ pc'[t] = Ended(t) /\ items'[t] = <<>> /\ DOMAIN out'[t] = {}
      /\ (\E n \in 1..Len(its) : Publishes(c, its, n, entities)) => pc'[t] = label
      /\ CacheAfter(cache', items'[t], Len(items'[t])) = CacheAfter(c, its, Len(its))
      /\ \A a \in DOMAIN kind.entityOf :
            kind.entityOf[a] \in Range(entities) =>
                /\ cache'[a] = c[a] \/ a \in DOMAIN out'[t]
                /\ Forced(its, a) => a \in DOMAIN out'[t] \/ Forced(items'[t], a)
  BY <1>t, ProcessEffect
<1>2. \A u \in Tasks : u # t => pc'[u] = pc[u] /\ items'[u] = items[u]
  BY <1>t, <1>i, <1>1
<1>s. \A a \in Mapped : kind.entityOf[a] \in Range(entities) =>
          a \in missed' \/ shown'[a] = cache'[a] \/ a \in DOMAIN out'[t]
             \/ Forced(items'[t], a)
  BY <1>1 DEF Mapped
<1>3. CASE t = "main" /\ pc'[t] = Ended(t)
  <2>0. items'[t] = <<>> /\ DOMAIN out'[t] = {}
    BY <1>1, <1>3 DEF Ended
  <2>1. /\ Doing' = "ws" /\ items'["ws"] = <<>>
        /\ pc'["ws"] \in {"connecting", "listening"}
    BY <1>2, <1>3, DoingIs DEF Doing, Ended, Tasks
  <2>2. ~Registering' /\ ~InFlight' /\ pc'[Doing'] # "fetching"
    BY <2>1 DEF Registering, InFlight
  <2>3. Pending' = CacheAfter(c, its, Len(its)) BY <1>1, <2>0, <2>1 DEF Pending
  <2>4. \A a : ~ Forced(<<>>, a) BY DEF Forced
  <2>5. Showing'
    BY <1>s, <2>0, <2>2, <2>4 DEF Showing, Shows, Mapped
  <2> QED BY <1>1, <1>2, <2>2, <2>3, <2>5
<1>4. CASE ~ (t = "main" /\ pc'[t] = Ended(t))
  <2>0. t = "main" => pc[t] # "waiting" BY DoingIs
  <2>1. Doing' = t
    BY <1>1, <1>2, <1>4, <2>0, DoingIs DEF Doing, Ended, Tasks
  <2>2. ~Registering' /\ pc'[Doing'] # "fetching" /\ (InFlight' <=> pc'[t] = label)
    BY <1>1, <2>1 DEF Registering, InFlight, Ended
  <2>3. Pending' = CacheAfter(c, its, Len(its)) BY <1>1, <2>1 DEF Pending
  <2>5. Showing'
    BY <1>1, <1>s, <2>1, <2>2 DEF Showing, Shows, Mapped
  <2> QED BY <1>1, <1>2, <2>2, <2>3, <2>5
<1> QED BY <1>3, <1>4


\* As long as no message is taken, and none comes, what is on its way stays.
LEMMA NothingHeard ==
  ASSUME Told, UNCHANGED <<kind, value, reach, link, wire, lastReachable>>,
         Coming' = Coming, pc'["ws"] = "connecting" => pc["ws"] = "connecting"
  PROVE Told'
  BY DEF Told, Watching

LEMMA ComingKept ==
  ASSUME UNCHANGED <<wire, msg>>, Busy' = Busy
  PROVE Coming' = Coming /\ ReachComing' = ReachComing
  BY DEF Coming, ReachComing

\* A step of the discovery that goes on with dev, which is as the device is, or as
\* it was before what is on its way.
LEMMA NextEntityCalm ==
  ASSUME TypeInv, Sound, NEW t \in Tasks,
         pc[t] \in {"fetching", "registering", "setting"},
         NEW rest \in Seq(Entities), Range(rest) \subseteq Range(kind.entities),
         NEW dev \in Device, NextEntity(t, rest, entities, dev),
         UNCHANGED <<hub, book, handler, shown>>,
         Watching => dev.reach = reach \/ ReachComing,
         Watching => \A a \in DOMAIN value :
            dev.value[a] = value[a] \/ Mentions(Coming, a) \/ Due(Coming, lastReachable),
         Watching => \A e \in Range(entities) :
            e \in missed' \/ avail'[e] = reach \/ ReachComing \/ e \in Range(rest)
  PROVE Sound'
<1>0. /\ kind \in Kinds /\ cache \in [DOMAIN kind.entityOf -> Cached]
      /\ pc \in [Tasks -> MainPc \union WsPc] /\ DOMAIN value = Range(kind.attributes)
      /\ t = Doing /\ QuietStartup
  BY CalmTypes, DoingIs DEF Sound
<1>u. UNCHANGED <<kind, value, reach, link, wire, entities, lastReachable, msg, mark>>
  BY DEF hub, book, handler
<1>w. t # "ws" => pc["ws"] \in {"connecting", "listening"} /\ pc'["ws"] = pc["ws"]
  <2>1. t # "ws" => pc["ws"] \in {"connecting", "listening"}
    BY <1>0, DoingIs DEF Tasks
  <2>2. t # "ws" => pc'["ws"] = pc["ws"]
    BY <1>0 DEF NextEntity, Process, Goto, Tasks
  <2> QED BY <2>1, <2>2
<1>1. CASE rest = <<>>
  <2> DEFINE its == DeviceItems(dev)
             d == CacheAfter(cache, its, Len(its))
  <2>1. Process(t, cache, its, entities, "publishing") BY <1>1 DEF NextEntity
  <2>2. /\ ForThisDevice(its)
        /\ \A a \in DOMAIN kind.entityOf : Forced(its, a)
        /\ d["isReachable"] = dev.reach
        /\ \A a \in Range(kind.attributes) : d[a] = dev.value[a]
    BY <1>0, DeviceItemsEffect
  <2> HIDE DEF its, d
  <2>3. /\ Showing' /\ Pending' = d
        /\ ~Registering' /\ pc'[Doing'] # "fetching"
        /\ pc'[t] \in {"publishing", Ended(t)}
    <3>1. \A a \in Mapped : kind.entityOf[a] \in Range(entities) =>
              a \in missed' \/ shown'[a] = cache[a] \/ Forced(its, a)
      BY <2>2 DEF Mapped
    <3>2. UNCHANGED <<kind, entities>> BY <1>u
    <3> QED BY <1>0, <2>1, <2>2, <3>1, <3>2, ProcessCalm DEF d
  <2>4. /\ Busy' = FALSE /\ Busy = FALSE /\ pc'["ws"] # "marking"
        /\ (pc'["ws"] = "connecting" => pc["ws"] = "connecting")
    BY <1>w, <2>3 DEF Busy, Ended, Tasks
  <2>5. Coming' = Coming /\ ReachComing' = ReachComing BY <1>u, <2>4, ComingKept
  <2>6. Told' BY <1>u, <2>4, <2>5, NothingHeard DEF Sound
  <2>7. Watching' => Watching BY <1>u, <2>4 DEF Watching
  <2>8. Brought'
    BY <1>0, <1>u, <2>2, <2>3, <2>5, <2>7 DEF Brought, ReachKept, Kept
  <2>9. AllMarked'
    <3>1. Range(<<>>) = {} BY DEF Range
    <3> QED BY <1>u, <1>1, <2>4, <2>5, <2>7, <3>1 DEF AllMarked, Marks
  <2>10. QuietStartup'
    <3>1. pc'["main"] # "waiting" => t = "main"
      BY <1>0, <2>1, <2>3, DoingIs DEF Tasks, Process, Goto
    <3> QED BY <1>u, <1>w, <3>1, DoingIs, <1>0 DEF QuietStartup
  <2> QED BY <2>3, <2>6, <2>8, <2>9, <2>10 DEF Sound
<1>2. CASE rest # <<>>
  <2>1. /\ todo' = [todo EXCEPT ![t] = rest] /\ snap' = [snap EXCEPT ![t] = dev]
        /\ pc'[t] \in {"setting", "registering"}
        /\ \A u \in Tasks : u # t => pc'[u] = pc[u]
        /\ UNCHANGED <<cache, items, out>>
    BY <1>0, <1>2 DEF NextEntity, Goto
  <2>2. Doing' = t /\ Registering' /\ ~InFlight' /\ snap'[t] = dev /\ todo'[t] = rest
    BY <1>0, <2>1, DoingIs, CalmTypes
    DEF Doing, Registering, InFlight, Tasks, TypeOK
  <2>4. /\ Busy' = FALSE /\ Busy = FALSE /\ pc'["ws"] # "marking"
        /\ (pc'["ws"] = "connecting" => pc["ws"] = "connecting")
    BY <1>w, <2>1 DEF Busy, Tasks
  <2>5. Coming' = Coming /\ ReachComing' = ReachComing BY <1>u, <2>4, ComingKept
  <2>6. Told' BY <1>u, <2>4, <2>5, NothingHeard DEF Sound
  <2>7. Watching' => Watching BY <1>u, <2>4 DEF Watching
  <2>8. Brought' BY <1>u, <2>2, <2>5, <2>7 DEF Brought, ReachKept, Kept
  <2>9. AllMarked' BY <1>u, <2>2, <2>4, <2>5, <2>7 DEF AllMarked, Marks
  <2>10. Showing' BY <2>2 DEF Showing, Shows
  <2>11. QuietStartup'
    <3>1. pc'["main"] # "waiting" => t = "main"
      BY <1>0, <2>1, DoingIs DEF Tasks
    <3> QED BY <1>u, <1>w, <3>1, DoingIs, <1>0 DEF QuietStartup
  <2> QED BY <2>6, <2>8, <2>9, <2>10, <2>11 DEF Sound
<1> QED BY <1>1, <1>2


\* Discovery.
LEMMA RangeOfTail ==
  ASSUME NEW S, NEW q \in Seq(S), q # <<>>
  PROVE Range(q) = {Head(q)} \union Range(Tail(q))
<1>1. /\ Head(q) = q[1] /\ 1 \in DOMAIN q /\ DOMAIN q = 1..Len(q)
      /\ DOMAIN Tail(q) = 1..Len(Tail(q))
      /\ \A n \in 1..Len(Tail(q)) : Tail(q)[n] = q[n + 1] /\ n + 1 \in 1..Len(q)
      /\ \A n \in 1..Len(q) : n > 1 => n - 1 \in 1..Len(Tail(q)) /\ q[n] = Tail(q)[n - 1]
      /\ \A n \in 1..Len(q) : n = 1 \/ n > 1
  <2>1. Tail(q) \in Seq(S) /\ Len(q) \in Nat /\ Len(q) > 0 BY TailOf
  <2> QED BY <2>1, TailOf
<1> DEFINE r == Tail(q)
<1> HIDE DEF r
<1>2. /\ DOMAIN r = 1..Len(r) /\ \A n \in 1..Len(r) : r[n] = q[n + 1] /\ n + 1 \in 1..Len(q)
      /\ \A n \in 1..Len(q) : n > 1 => n - 1 \in 1..Len(r) /\ q[n] = r[n - 1]
  BY <1>1 DEF r
<1>3. ASSUME NEW x \in Range(q) PROVE x = Head(q) \/ x \in Range(r)
  <2>1. PICK n \in 1..Len(q) : q[n] = x BY <1>1 DEF Range
  <2>2. n = 1 \/ (n - 1 \in DOMAIN r /\ x = r[n - 1]) BY <1>1, <1>2, <2>1
  <2> QED BY <1>1, <2>1, <2>2 DEF Range
<1>4. Head(q) \in Range(q) BY <1>1 DEF Range
<1>5. ASSUME NEW x \in Range(r) PROVE x \in Range(q)
  <2>1. PICK n \in 1..Len(r) : r[n] = x BY <1>2 DEF Range
  <2>2. n + 1 \in DOMAIN q /\ q[n + 1] = x BY <1>1, <1>2, <2>1
  <2> QED BY <2>2 DEF Range
<1> QED BY <1>3, <1>4, <1>5 DEF r

LEMMA FetchedCalm == ASSUME TypeInv, Sound, NEW t \in Tasks, Fetched(t) PROVE Sound'
<1>1. /\ ThisDevice \in Device /\ ThisDevice.reach = reach /\ ThisDevice.value = value
      /\ Range(entities) \subseteq Range(kind.entities) /\ kind \in Kinds
  BY CalmTypes, TypedIsTypeInv DEF TypeOK, ThisDevice, TableTyped, Typed
<1>2. kind.entities \in Seq(Entities) BY <1>1, DeviceSyncAssumption
<1>3. /\ pc[t] = "fetching" /\ NextEntity(t, kind.entities, entities, ThisDevice)
      /\ UNCHANGED <<hub, book, handler, shown>>
  BY DEF Fetched, ha
<1>4. \A a \in DOMAIN value : ThisDevice.value[a] = value[a] BY <1>1
<1>5. \A e \in Range(entities) : e \in Range(kind.entities) BY <1>1
<1> QED BY <1>1, <1>2, <1>3, <1>4, <1>5, NextEntityCalm

\* While it registers, what a task has fetched is what the hub had when what is on
\* its way was not yet said.
LEMMA SnapshotIsAccurate ==
  ASSUME TypeInv, Sound, NEW t \in Tasks, pc[t] \in {"registering", "setting"}
  PROVE /\ Watching => snap[t].reach = reach \/ ReachComing
        /\ Watching => \A a \in DOMAIN value :
              \/ snap[t].value[a] = value[a]
              \/ Mentions(Coming, a) \/ Due(Coming, lastReachable)
        /\ Watching => \A e \in Range(entities) :
              e \in missed \/ avail[e] = reach \/ ReachComing \/ e \in Range(todo[t])
        /\ todo[t] # <<>> /\ snap[t] \in Device
        /\ Tail(todo[t]) \in Seq(Entities)
        /\ Range(Tail(todo[t])) \subseteq Range(kind.entities)
        /\ Range(todo[t]) = {Head(todo[t])} \union Range(Tail(todo[t]))
<1>1. t = Doing /\ pc["ws"] \notin {"marking", "refreshing"} /\ Registering
      /\ pc[Doing] # "fetching"
  BY DoingIs DEF Sound, Registering, Tasks
<1>2. Typed /\ todo[t] # <<>> /\ snap[t] \in Device /\ todo[t] \in Seq(Entities)
  BY CalmTypes DEF Typed, LoopTyped
<1>3. /\ Tail(todo[t]) \in Seq(Entities)
      /\ Range(Tail(todo[t])) \subseteq Range(kind.entities)
      /\ Range(todo[t]) = {Head(todo[t])} \union Range(Tail(todo[t]))
  BY <1>2, TailOfTodo, RangeOfTail
<1>4. Watching => snap[t].reach = reach \/ ReachComing
  BY <1>1 DEF Sound, Brought, ReachKept
<1>5. Watching => \A a \in DOMAIN value :
          \/ snap[t].value[a] = value[a]
          \/ Mentions(Coming, a) \/ Due(Coming, lastReachable)
  BY <1>1 DEF Sound, Brought, Kept
<1>6. Watching => \A e \in Range(entities) :
          e \in missed \/ avail[e] = reach \/ ReachComing \/ e \in Range(todo[t])
  BY <1>1 DEF Sound, AllMarked, Marks
<1> QED BY <1>2, <1>3, <1>4, <1>5, <1>6

LEMMA RegisterFailsCalm ==
  ASSUME TypeInv, Sound, NEW t \in Tasks, RegisterFails(t) PROVE Sound'
<1>1. /\ pc[t] = "registering" /\ NextEntity(t, Tail(todo[t]), entities, snap[t])
      /\ UNCHANGED <<hub, book, handler, shown>> /\ avail' = avail
      /\ missed \subseteq missed' /\ Head(todo[t]) \in missed'
  BY DEF RegisterFails
<1>2. Watching => \A e \in Range(entities) :
          e \in missed' \/ avail'[e] = reach \/ ReachComing \/ e \in Range(Tail(todo[t]))
  BY <1>1, SnapshotIsAccurate
<1> QED BY <1>1, <1>2, SnapshotIsAccurate, NextEntityCalm

LEMMA InitialAvailabilityCalm ==
  ASSUME TypeInv, Sound, NEW t \in Tasks, InitialAvailability(t) PROVE Sound'
<1> DEFINE h == Head(todo[t])
<1>1. /\ pc[t] = "setting" /\ NextEntity(t, Tail(todo[t]), entities, snap[t])
      /\ UNCHANGED <<hub, book, handler, shown>>
      /\ AvailabilityPublish(h, snap[t].reach)
  BY DEF InitialAvailability
<1>2. /\ \A e : e # h /\ e \in missed => e \in missed'
      /\ h \in missed' \/ (avail' = [avail EXCEPT ![h] = snap[t].reach])
      /\ \A e : e # h => avail'[e] = avail[e]
  <2>1. \A e : e # h => [avail EXCEPT ![h] = snap[t].reach][e] = avail[e]
    BY CalmTypes DEF TypeOK
  <2> QED BY <1>1, <2>1 DEF AvailabilityPublish
<1>3. \A e \in Range(entities) : e \in DOMAIN avail
  BY CalmTypes DEF TypeOK, TypeInv, InLoop
<1>4. Watching => \A e \in Range(entities) :
          e \in missed' \/ avail'[e] = reach \/ ReachComing \/ e \in Range(Tail(todo[t]))
  BY <1>1, <1>2, <1>3, SnapshotIsAccurate
<1> QED BY <1>1, <1>4, SnapshotIsAccurate, NextEntityCalm

LEMMA RegisteredCalm ==
  ASSUME TypeInv, Sound, NEW t \in Tasks, Registered(t) PROVE Sound'
<1>0. /\ pc \in [Tasks -> MainPc \union WsPc] /\ t = Doing
      /\ pc["ws"] # "marking" /\ pc["ws"] \notin {"reporting", "refreshing"}
  BY CalmTypes, DoingIs DEF Registered, Sound, Tasks
<1>1. /\ pc[t] = "registering" /\ pc'[t] = "setting"
      /\ \A u \in Tasks : u # t => pc'[u] = pc[u]
      /\ entities' = Append(entities, Head(todo[t]))
      /\ UNCHANGED <<kind, value, reach, link, wire, cache, lastReachable, avail, shown,
                     missed, todo, snap, items, out, msg, mark>>
  BY <1>0 DEF Registered, Goto, hub, ha, task, handler
<1>2. Doing' = t /\ Registering' /\ Registering /\ ~InFlight'
  BY <1>0, <1>1, DoingIs DEF Doing, Registering, InFlight, Tasks, Sound
<1>3. Busy' = FALSE /\ Busy = FALSE /\ pc'["ws"] # "marking" /\ Watching' = Watching
  BY <1>0, <1>1 DEF Busy, Tasks, Watching
<1>4. Coming' = Coming /\ ReachComing' = ReachComing BY <1>1, <1>3, ComingKept
<1>5. Told'
  BY <1>0, <1>1, <1>4, NothingHeard DEF Sound, Tasks
<1>6. Brought' BY <1>0, <1>1, <1>2, <1>3, <1>4 DEF Brought, ReachKept, Kept, Sound
<1>7. \A e \in Range(entities') : e \in Range(entities) \/ e \in Range(todo[t])
  <2>1. entities \in Seq(Entities) /\ todo[t] \in Seq(Entities) /\ todo[t] # <<>>
    BY <1>1, CalmTypes DEF TypeOK, TypeInv, InLoop
  <2>2. Range(todo[t]) = {Head(todo[t])} \union Range(Tail(todo[t]))
    BY <2>1, RangeOfTail
  <2>3. Head(todo[t]) \in Entities BY <2>1
  <2>4. \A n \in DOMAIN entities' :
            entities'[n] = Head(todo[t]) \/ (n \in DOMAIN entities /\ entities'[n] = entities[n])
    BY <1>1, <2>1, <2>3, AppendOf
  <2> QED BY <2>2, <2>4 DEF Range
<1>8. AllMarked'
  BY <1>0, <1>1, <1>2, <1>3, <1>4, <1>7 DEF AllMarked, Marks, Sound
<1>9. Showing' BY <1>2 DEF Showing, Shows
<1>10. QuietStartup' BY <1>0, <1>1, DoingIs DEF QuietStartup, Sound, Tasks
<1> QED BY <1>5, <1>6, <1>8, <1>9, <1>10 DEF Sound

LEMMA PublishedShown ==
  ASSUME TypeInv, Sound, InFlight, NEW t \in Tasks, t = Doing, StatePublish(t)
  PROVE \A a \in Mapped : kind.entityOf[a] \in Range(entities) =>
            a \in missed' \/ shown'[a] = cache[a] \/ Forced(items[t], a)
<1> SUFFICES ASSUME NEW a \in Mapped, kind.entityOf[a] \in Range(entities)
             PROVE a \in missed' \/ shown'[a] = cache[a] \/ Forced(items[t], a)
  OBVIOUS
<1>1. /\ \A b \in DOMAIN out[t] : out[t][b] = cache[b]
      /\ a \in missed \/ shown[a] = cache[a] \/ a \in DOMAIN out[t] \/ Forced(items[t], a)
      /\ ~Registering
  BY DEF Sound, Showing, Shows, InFlight, Registering
<1>2. a \in DOMAIN shown BY CalmTypes DEF TypeOK, Mapped
<1>3. CASE a \in DOMAIN out[t]
  BY <1>1, <1>2, <1>3 DEF StatePublish
<1>4. CASE a \notin DOMAIN out[t]
  BY <1>1, <1>2, <1>4 DEF StatePublish
<1> QED BY <1>3, <1>4

\* A state publish is about attributes and leaves what is missed of entities alone.
LEMMA MissedEntities ==
  ASSUME TypeInv, NEW t \in Tasks, StatePublish(t)
  PROVE \A e \in Range(entities) : e \in missed => e \in missed'
<1>1. DOMAIN out[t] \subseteq Mapped /\ Range(entities) \subseteq Entities
  BY CalmTypes DEF TypeOK, Range
<1>2. Mapped \subseteq Reported
  BY CalmTypes, AttributesAreMapped DEF Mapped, Reported
<1>3. \A e \in Range(entities) : e \notin DOMAIN out[t]
  BY <1>1, <1>2, DeviceSyncAssumption
<1> QED BY <1>3 DEF StatePublish

LEMMA PublishedCalm ==
  ASSUME TypeInv, Sound, NEW t \in Tasks, Published(t) PROVE Sound'
<1>0. /\ pc \in [Tasks -> MainPc \union WsPc] /\ t = Doing /\ InFlight /\ ~Registering
      /\ cache \in [DOMAIN kind.entityOf -> Cached] /\ ForThisDevice(items[t])
      /\ t # "ws" => pc["ws"] \in {"connecting", "listening"}
      /\ pc[t] = "publishing" /\ QuietStartup
  BY CalmTypes, DoingIs DEF Published, Sound, Tasks, InFlight, Registering
<1>1. /\ StatePublish(t) /\ Process(t, cache, items[t], entities, "publishing")
      /\ UNCHANGED <<kind, value, reach, link, wire, entities, lastReachable, avail, todo,
                     snap, msg, mark>>
  BY DEF Published, hub, book, handler
<1>2. /\ Showing' /\ Pending' = Pending
      /\ ~Registering' /\ pc'[Doing'] # "fetching"
      /\ \A u \in Tasks : u # t => pc'[u] = pc[u]
      /\ pc'[t] \in {"publishing", Ended(t)}
  <2>1. \A a \in Mapped : kind.entityOf[a] \in Range(entities) =>
            a \in missed' \/ shown'[a] = cache[a] \/ Forced(items[t], a)
    BY <1>0, <1>1, PublishedShown
  <2>2. UNCHANGED <<kind, entities>> BY <1>1
  <2> QED BY <1>0, <1>1, <2>1, <2>2, ProcessCalm DEF Pending
<1>3. /\ Busy' = FALSE /\ Busy = FALSE /\ pc'["ws"] # "marking"
      /\ (pc'["ws"] = "connecting" => pc["ws"] = "connecting")
      /\ pc["ws"] \notin {"marking", "refreshing"} /\ pc[Doing] # "fetching"
  BY <1>0, <1>2 DEF Busy, Ended, Tasks
<1>4. Coming' = Coming /\ ReachComing' = ReachComing BY <1>1, <1>3, ComingKept
<1>5. Told' BY <1>1, <1>3, <1>4, NothingHeard DEF Sound
<1>6. Watching' => Watching BY <1>1, <1>3 DEF Watching
<1>7. Brought'
  BY <1>0, <1>1, <1>2, <1>3, <1>4, <1>6 DEF Brought, ReachKept, Kept, Sound
<1>8. AllMarked'
  <2>1. \A e \in Range(entities) : e \in missed => e \in missed'
    BY <1>1, MissedEntities
  <2> QED BY <1>0, <1>1, <1>3, <1>4, <1>6, <2>1 DEF AllMarked, Marks, Sound
<1>9. QuietStartup'
  <2>1. pc'["main"] # "waiting" => t = "main"
    BY <1>0, <1>2, DoingIs DEF Tasks, Sound
  <2> QED BY <1>0, <1>1, <1>2, <2>1, DoingIs DEF QuietStartup, Tasks
<1> QED BY <1>2, <1>5, <1>7, <1>8, <1>9 DEF Sound


\* Messages.
LEMMA NoItems ==
  ASSUME TypeInv, Doing = "ws", pc["ws"] # "publishing"
  PROVE /\ items["ws"] = <<>>
        /\ \A a \in DOMAIN kind.entityOf : Pending[a] = cache[a]
<1>1. items["ws"] = <<>> /\ cache \in [DOMAIN kind.entityOf -> Cached]
  BY CalmTypes
<1>2. \A a \in DOMAIN kind.entityOf : CacheAfter(cache, <<>>, 0)[a] = cache[a]
  BY <1>1 DEF CacheAfter
<1> QED BY <1>1, <1>2 DEF Pending

\* The first message has been dealt with.
LEMMA FirstHeard ==
  ASSUME Told, Coming \in Seq(Message), Coming # <<>>, Coming' = Tail(Coming),
         UNCHANGED <<kind, value, reach, link>>, wire \in Seq(Message),
         wire' = wire \/ (wire # <<>> /\ wire' = Tail(wire)),
         Coming[1].reach = "up" \/ Heard(Coming, lastReachable, lastReachable'),
         pc["ws"] # "connecting", pc'["ws"] # "connecting"
  PROVE Told'
<1>1. ~reach' => LossHeard(Coming', lastReachable') BY TailLoss DEF Told
<1>2. ~link' => \A n \in 1..Len(wire') : wire'[n].reach # "down"
  <2>1. wire # <<>> => \A n \in 1..Len(Tail(wire)) :
                          Tail(wire)[n] = wire[n + 1] /\ n + 1 \in 1..Len(wire)
    BY TailOf
  <2> QED BY <2>1 DEF Told
<1>3. Watching' => Watching BY DEF Watching
<1>4. Watching' => /\ reach' => ReturnHeard(Coming')
                   /\ \A a \in DOMAIN value' : Said(Coming', a, value'[a])
  BY <1>3, TailReturn, TailSaid DEF Told
<1> QED BY <1>1, <1>2, <1>4 DEF Told

\* What the bridge has when the first message, m, has been processed from cache c.
LEMMA KeptAfter ==
  ASSUME TypeInv, Sound, Watching, Coming # <<>>, NEW m \in Message, Coming[1] = m,
         About(m), Doing = "ws", pc["ws"] \in {"listening", "marking", "reporting"},
         NEW now, Heard(Coming, lastReachable, now),
         NEW c \in [DOMAIN kind.entityOf -> Cached],
         NEW a \in DOMAIN value, c[a] = cache[a]
  PROVE \/ Mentions(Tail(Coming), a) \/ Due(Tail(Coming), now)
        \/ CacheAfter(c, MessageItems(m), Len(MessageItems(m)))[a] = value[a]
<1>1. /\ Coming \in Seq(Message) /\ a \in Range(kind.attributes) /\ kind \in Kinds
      /\ a \in DOMAIN kind.entityOf
  BY CalmTypes
<1>2. /\ Mentions(Coming, a) \/ Due(Coming, lastReachable) \/ Pending[a] = value[a]
      /\ Said(Coming, a, value[a])
  BY DEF Sound, Brought, Kept, Told, Registering
<1>3. CacheAfter(c, MessageItems(m), Len(MessageItems(m)))[a]
          = IF m.attr = a THEN m.value ELSE c[a]
  BY <1>1, MessageIsForDevice, MessageItemsEffect
<1>4. CASE Due(Coming, lastReachable) BY <1>1, <1>4, TailDue
<1>5. CASE Mentions(Coming, a) /\ ~ Mentions(Tail(Coming), a)
  <2>1. m.attr = a /\ (m.value = value[a] \/ Later(Tail(Coming), 0))
    BY <1>1, <1>2, <1>5, TailMentions
  <2> QED BY <1>3, <2>1 DEF Due
<1>6. CASE ~ Mentions(Coming, a) /\ Pending[a] = value[a]
  <2>1. m.attr # a
    <3>1. 1 \in 1..Len(Coming) BY <1>1
    <3> QED BY <1>6, <3>1 DEF Mentions
  <2> QED BY <1>1, <1>3, <1>6, <2>1, NoItems
<1> QED BY <1>2, <1>4, <1>5, <1>6

\* The end of a reachability handler, from cache c.
LEMMA EdgeCalm ==
  ASSUME TypeInv, Sound, pc["ws"] \in {"listening", "marking", "reporting"},
         Doing = "ws", NEW m \in Message, About(m), m.reach # "none",
         wire' \in Seq(Message), Coming = <<m>> \o wire',
         wire' = wire \/ (wire # <<>> /\ wire' = Tail(wire)),
         NEW c \in [DOMAIN kind.entityOf -> Cached],
         \A a \in DOMAIN value : c[a] = cache[a],
         Watching => c["isReachable"] = reach \/ ReachComing',
         Edge(m, c), UNCHANGED <<kind, value, reach, link, entities, todo, snap>>,
         \A a \in Mapped : kind.entityOf[a] \in Range(entities) =>
            a \in missed' \/ shown'[a] = c[a],
         Watching => \A e \in Range(entities) :
            e \in missed' \/ avail'[e] = reach \/ ReachComing'
  PROVE Sound'
<1>0. /\ pc \in [Tasks -> MainPc \union WsPc] /\ pc["main"] = "waiting"
      /\ Coming \in Seq(Message) /\ wire \in Seq(Message) /\ kind \in Kinds
      /\ DOMAIN value = Range(kind.attributes) /\ DOMAIN value \subseteq DOMAIN kind.entityOf
      /\ "isReachable" \in DOMAIN kind.entityOf /\ "ws" \in Tasks /\ QuietStartup
      /\ None \notin DOMAIN value /\ items["ws"] = <<>>
  BY CalmTypes, DoingIs, NoItems DEF Sound
<1>q. Coming # <<>> /\ Coming[1] = m /\ Tail(Coming) = wire' BY ConsOf
<1>1. CASE m.reach = "up" /\ lastReachable # TRUE
  <2>1. /\ pc'["ws"] = "refreshing" /\ pc'["main"] = "waiting" /\ cache' = c /\ msg' = m
        /\ UNCHANGED <<items, out>> /\ lastReachable' = TRUE
    BY <1>0, <1>1 DEF Edge, Goto, Tasks
  <2>2. Doing' = "ws" /\ ~InFlight' /\ ~Registering'
    BY <2>1 DEF Doing, InFlight, Registering
  <2>3. Coming' = Coming BY <2>1 DEF Coming, Busy
  <2>4. Watching' => Watching BY <2>1 DEF Watching
  <2>5. Told'
    <3>1. ~reach => LossHeard(Coming, lastReachable')
      <4>1. 1 \in 1..Len(Coming) /\ Coming[1].reach # "none" BY <1>0, <1>q
      <4> QED BY <4>1 DEF Sound, Told, LossHeard
    <3>2. ~link' => \A n \in 1..Len(wire') : wire'[n].reach # "down"
      <4>1. wire # <<>> => \A n \in 1..Len(Tail(wire)) :
                              Tail(wire)[n] = wire[n + 1] /\ n + 1 \in 1..Len(wire)
        BY <1>0, TailOf
      <4>2. ~link => \A n \in 1..Len(wire) : wire[n].reach # "down"
        BY DEF Sound, Told
      <4>3. link' = link /\ (wire' = wire \/ (wire # <<>> /\ wire' = Tail(wire)))
        OBVIOUS
      <4>4. Len(wire) \in Nat /\ (wire # <<>> => Len(Tail(wire)) = Len(wire) - 1)
        BY <1>0
      <4>5. CASE wire' = wire
        BY <4>2, <4>3, <4>5
      <4>6. CASE wire # <<>> /\ wire' = Tail(wire)
        BY <4>1, <4>2, <4>3, <4>6
      <4> QED BY <4>3, <4>5, <4>6
    <3> QED BY <2>3, <2>4, <3>1, <3>2 DEF Sound, Told
  <2>6. Brought'
    <3>1. CacheAfter(c, <<>>, 0)["isReachable"] = c["isReachable"]
      BY <1>0 DEF CacheAfter
    <3>2. Pending'["isReachable"] = c["isReachable"]
      BY <1>0, <2>1, <2>2, <3>1 DEF Pending
    <3> QED BY <2>1, <2>2, <2>4, <3>2 DEF Brought, ReachKept, Kept
  <2>7. AllMarked' BY <2>1, <2>4 DEF AllMarked, Marks
  <2>8. Showing' BY <2>1, <2>2 DEF Showing, Shows, Mapped
  <2>9. QuietStartup' BY <2>1 DEF QuietStartup
  <2> QED BY <2>5, <2>6, <2>7, <2>8, <2>9 DEF Sound
<1>2. CASE ~ (m.reach = "up" /\ lastReachable # TRUE)
  <2> DEFINE its == MessageItems(m)
             d == CacheAfter(c, its, Len(its))
  <2>1. /\ Process("ws", c, its, entities, "publishing")
        /\ msg' = NoMessage /\ lastReachable' = (m.reach = "up")
    BY <1>2 DEF Edge
  <2>i. /\ ForThisDevice(its) /\ d["isReachable"] = c["isReachable"]
    BY <1>0, MessageIsForDevice, MessageItemsEffect
  <2>2. /\ Showing' /\ Pending' = d /\ ~Registering' /\ pc'[Doing'] # "fetching"
        /\ pc'["main"] = "waiting" /\ pc'["ws"] \in {"publishing", "listening"}
    <3>1. \A a \in Mapped : kind.entityOf[a] \in Range(entities) =>
              a \in missed' \/ shown'[a] = c[a] \/ Forced(its, a)
      OBVIOUS
    <3>2. UNCHANGED <<kind, entities>> OBVIOUS
    <3>3. /\ Showing' /\ Pending' = d /\ ~Registering' /\ pc'[Doing'] # "fetching"
          /\ \A u \in Tasks : u # "ws" => pc'[u] = pc[u]
          /\ pc'["ws"] \in {"publishing", Ended("ws")}
      BY <1>0, <2>1, <2>i, <3>1, <3>2, ProcessCalm, ZenonT(40)
    <3> QED BY <1>0, <3>3 DEF Ended, Tasks
  <2>3. Coming' = Tail(Coming) BY <1>q, <2>2 DEF Coming, Busy
  <2>4. Watching' => Watching BY <2>2 DEF Watching
  <2>5. Heard(Coming, lastReachable, lastReachable') BY <1>2, <1>q, <2>1 DEF Heard
  <2>6. Told' BY <1>0, <1>q, <2>2, <2>3, <2>5, FirstHeard DEF Sound
  <2>7. \A a \in DOMAIN value : Watching =>
            \/ Mentions(Tail(Coming), a) \/ Due(Tail(Coming), lastReachable')
            \/ d[a] = value[a]
    BY <1>q, <2>5, KeptAfter
  <2> HIDE DEF its, d
  <2>8. Brought'
    BY <2>2, <2>i, <2>3, <2>4, <2>7 DEF Brought, ReachKept, Kept
  <2>9. AllMarked' BY <2>2, <2>4 DEF AllMarked, Marks
  <2>10. QuietStartup' BY <2>2 DEF QuietStartup
  <2> QED BY <2>2, <2>6, <2>8, <2>9, <2>10 DEF Sound
<1> QED BY <1>1, <1>2


\* A message that is only taken is still to be dealt with.
LEMMA MessageTaken ==
  ASSUME TypeInv, Told, UNCHANGED <<kind, value, reach, link, lastReachable>>,
         wire' = wire \/ (wire # <<>> /\ wire' = Tail(wire)),
         Coming' = Coming, pc'["ws"] # "connecting"
  PROVE Told'
<1>1. ~link' => \A n \in 1..Len(wire') : wire'[n].reach # "down"
  <2>1. wire \in Seq(Message) BY CalmTypes
  <2>2. wire # <<>> => \A n \in 1..Len(Tail(wire)) :
                          Tail(wire)[n] = wire[n + 1] /\ n + 1 \in 1..Len(wire)
    BY <2>1, TailOf
  <2> QED BY <2>2 DEF Told
<1> QED BY <1>1 DEF Told, Watching

\* If the first message is about reachability and no later one is, it is right.
LEMMA ReachHeard ==
  ASSUME TypeInv, Sound, Watching, NEW m \in Message, m.reach # "none",
         NEW w \in Seq(Message), Coming = <<m>> \o w
  PROVE (m.reach = "up") = reach \/ \E n \in 1..Len(w) : w[n].reach # "none"
<1>1. Coming \in Seq(Message) /\ reach \in BOOLEAN BY CalmTypes
<1>2. Coming # <<>> /\ Coming[1] = m /\ Tail(Coming) = w BY ConsOf
<1>3. /\ ~reach => LossHeard(Coming, lastReachable)
      /\ reach => ReturnHeard(Coming)
  BY DEF Sound, Told
<1>4. CASE \A n \in 1..Len(w) : w[n].reach = "none"
  <2>1. Coming[1].reach # "none" BY <1>2
  <2>2. \A n \in 1..Len(Tail(Coming)) : Tail(Coming)[n].reach = "none" BY <1>2, <1>4
  <2>3. (Coming[1].reach = "up") = reach
    BY <1>1, <1>2, <1>3, <2>1, <2>2, LastReach
  <2> QED BY <1>2, <2>3
<1> QED BY <1>4

\* Nothing is in flight while the handler listens, marks or refreshes.
LEMMA ShownIsCached ==
  ASSUME TypeInv, Sound, Doing = "ws", pc["ws"] \in {"listening", "marking", "refreshing"}
  PROVE \A a \in Mapped : kind.entityOf[a] \in Range(entities) =>
            a \in missed \/ shown[a] = cache[a]
<1>1. items["ws"] = <<>> BY NoItems
<1>2. \A a : ~Forced(<<>>, a) BY DEF Forced
<1> QED BY <1>1, <1>2 DEF Sound, Showing, Shows, InFlight, Registering

LEMMA ReportCalm ==
  ASSUME TypeInv, Sound, pc["ws"] \in {"listening", "marking"},
         Doing = "ws", NEW m \in Message, About(m), m.reach # "none",
         wire' \in Seq(Message), Coming = <<m>> \o wire',
         wire' = wire \/ (wire # <<>> /\ wire' = Tail(wire)),
         Report(m), UNCHANGED <<kind, value, reach, link, entities, todo, snap, shown>>,
         \A a \in Mapped : a \in missed => a \in missed',
         Watching => \A e \in Range(entities) :
            e \in missed' \/ avail'[e] = reach \/ ReachComing'
  PROVE Sound'
<1> DEFINE its == <<ReachItem(m)>>
           c == CacheAfter(cache, its, 1)
<1>0. /\ pc \in [Tasks -> MainPc \union WsPc] /\ pc["main"] = "waiting"
      /\ Coming \in Seq(Message) /\ kind \in Kinds
      /\ DOMAIN value = Range(kind.attributes) /\ DOMAIN value \subseteq DOMAIN kind.entityOf
      /\ "isReachable" \in DOMAIN kind.entityOf /\ "isReachable" \notin DOMAIN value
      /\ "ws" \in Tasks /\ QuietStartup /\ cache \in [DOMAIN kind.entityOf -> Cached]
  BY CalmTypes, DoingIs DEF Sound
<1>1. /\ ForThisDevice(its) /\ Len(its) = 1
      /\ c \in [DOMAIN kind.entityOf -> Cached]
      /\ c["isReachable"] = (m.reach = "up")
      /\ \A a \in DOMAIN kind.entityOf : a # "isReachable" => c[a] = cache[a]
  BY <1>0, ReachItemTyped
<1>2. IF Publishes(cache, its, 1, entities)
      THEN /\ Process("ws", cache, its, entities, "reporting")
           /\ msg' = m /\ UNCHANGED lastReachable
      ELSE Edge(m, c)
  BY DEF Report, ReachItem
<1>3. \A a \in DOMAIN value : c[a] = cache[a] BY <1>0, <1>1
<1>4. Watching => c["isReachable"] = reach \/ ReachComing'
  BY <1>1, ReachHeard DEF ReachComing
<1>5. \A a \in Mapped : kind.entityOf[a] \in Range(entities) =>
          a \in missed' \/ shown'[a] = cache[a]
  BY ShownIsCached
<1>p. ASSUME ~Publishes(cache, its, 1, entities)
      PROVE \A a \in Mapped : kind.entityOf[a] \in Range(entities) => c[a] = cache[a]
  <2> SUFFICES ASSUME NEW a \in Mapped, kind.entityOf[a] \in Range(entities)
               PROVE c[a] = cache[a]
    OBVIOUS
  <2>1. a \in DOMAIN cache /\ 1 \in Nat /\ \A k \in 1..1 : k = 1 BY <1>0 DEF Mapped
  <2>2. \A k \in 1..1 : ~Publishes(cache, its, k, entities) BY <1>p, <2>1
  <2> HIDE DEF its
  <2> QED BY <2>1, <2>2, CacheQuiet
<1> HIDE DEF its, c
<1>6. CASE Publishes(cache, its, 1, entities)
  <2>1. /\ Process("ws", cache, its, entities, "reporting")
        /\ msg' = m /\ UNCHANGED lastReachable
    BY <1>2, <1>6
  <2>2. /\ Showing' /\ Pending' = c /\ ~Registering' /\ pc'[Doing'] # "fetching"
        /\ pc'["main"] = "waiting" /\ pc'["ws"] = "reporting"
    <3>1. \A a \in Mapped : kind.entityOf[a] \in Range(entities) =>
              a \in missed' \/ shown'[a] = cache[a] \/ Forced(its, a)
      BY <1>5
    <3>2. UNCHANGED <<kind, entities>> OBVIOUS
    <3>3. \E n \in 1..Len(its) : Publishes(cache, its, n, entities) BY <1>1, <1>6
    <3>4. /\ Showing' /\ Pending' = CacheAfter(cache, its, Len(its))
          /\ ~Registering' /\ pc'[Doing'] # "fetching"
          /\ \A u \in Tasks : u # "ws" => pc'[u] = pc[u]
          /\ pc'["ws"] = "reporting"
      BY <1>0, <1>1, <2>1, <3>1, <3>2, <3>3, ProcessCalm
    <3> QED BY <1>0, <1>1, <3>4 DEF Tasks, c
  <2>3. Coming' = Coming BY <2>1, <2>2 DEF Coming, Busy
  <2>4. Watching' => Watching BY <2>2 DEF Watching
  <2>5. Told' BY <2>1, <2>2, <2>3, MessageTaken DEF Sound
  <2>6. \A a \in DOMAIN value : Pending[a] = cache[a] BY <1>0, NoItems
  <2>7. Brought'
    BY <1>3, <1>4, <2>1, <2>2, <2>3, <2>4, <2>6
    DEF Sound, Brought, ReachKept, Kept, Registering
  <2>8. AllMarked' BY <2>2, <2>4 DEF AllMarked, Marks
  <2>9. QuietStartup' BY <2>2 DEF QuietStartup
  <2> QED BY <2>2, <2>5, <2>7, <2>8, <2>9 DEF Sound
<1>7. CASE ~ Publishes(cache, its, 1, entities)
  <2>1. Edge(m, c) BY <1>2, <1>7
  <2>2. \A a \in Mapped : kind.entityOf[a] \in Range(entities) =>
            a \in missed' \/ shown'[a] = c[a]
    BY <1>5, <1>7, <1>p
  <2> QED BY <1>1, <1>3, <1>4, <2>1, <2>2, EdgeCalm
<1> QED BY <1>6, <1>7

LEMMA TakeMessageCalm == ASSUME TypeInv, Sound, TakeMessage PROVE Sound'
<1> DEFINE m == Head(wire)
<1>0. /\ pc \in [Tasks -> MainPc \union WsPc] /\ pc["main"] = "waiting" /\ Doing = "ws"
      /\ wire \in Seq(Message) /\ wire # <<>> /\ wire' = Tail(wire) /\ pc["ws"] = "listening"
      /\ kind \in Kinds /\ cache \in [DOMAIN kind.entityOf -> Cached] /\ QuietStartup
      /\ DOMAIN value \subseteq DOMAIN kind.entityOf /\ "ws" \in Tasks
      /\ "isReachable" \in DOMAIN kind.entityOf
  BY CalmTypes, DoingIs DEF TakeMessage, Sound
<1>1. UNCHANGED <<kind, value, reach, link, entities, avail, shown, missed, todo, snap>>
  BY DEF TakeMessage, ha
<1>2. /\ Coming = wire /\ m \in Message /\ wire' \in Seq(Message)
      /\ Coming = <<m>> \o wire' /\ Coming # <<>> /\ Coming[1] = m /\ Tail(Coming) = wire'
  <2>1. Coming = wire BY <1>0 DEF Coming, Busy
  <2> QED BY <1>0, <2>1, HeadAndTail
<1>3. About(m) BY <1>0, CalmTypes, TakenMessage DEF Typed
<1>r. m.reach = "none" => (ReachComing => ReachComing')
  <2>1. \A n \in 1..Len(wire) : n > 1 => n - 1 \in 1..Len(wire') /\ wire[n] = wire'[n - 1]
    BY <1>0, TailOf
  <2>2. \A n \in 1..Len(wire) : n = 1 \/ n > 1 BY <1>0
  <2> QED BY <1>2, <2>1, <2>2 DEF ReachComing
<1> HIDE DEF m
<1>4. CASE m.reach = "none"
           /\ Process("ws", cache, MessageItems(m), entities, "publishing")
           /\ UNCHANGED <<lastReachable, handler>>
  <2> DEFINE its == MessageItems(m)
             d == CacheAfter(cache, its, Len(its))
  <2>1. /\ Process("ws", cache, its, entities, "publishing")
        /\ UNCHANGED <<lastReachable, msg, mark>>
    BY <1>4 DEF handler
  <2>i. /\ ForThisDevice(its) /\ d["isReachable"] = cache["isReachable"]
    BY <1>0, <1>2, <1>3, MessageIsForDevice, MessageItemsEffect
  <2>2. /\ Showing' /\ Pending' = d /\ ~Registering' /\ pc'[Doing'] # "fetching"
        /\ pc'["main"] = "waiting" /\ pc'["ws"] \in {"publishing", "listening"}
    <3>1. \A a \in Mapped : kind.entityOf[a] \in Range(entities) =>
              a \in missed' \/ shown'[a] = cache[a] \/ Forced(its, a)
      BY <1>0, <1>1, ShownIsCached
    <3>2. UNCHANGED <<kind, entities>> BY <1>1
    <3>3. /\ Showing' /\ Pending' = d /\ ~Registering' /\ pc'[Doing'] # "fetching"
          /\ \A u \in Tasks : u # "ws" => pc'[u] = pc[u]
          /\ pc'["ws"] \in {"publishing", Ended("ws")}
      BY <1>0, <2>1, <2>i, <3>1, <3>2, ProcessCalm
    <3> QED BY <1>0, <3>3 DEF Ended, Tasks
  <2>3. Coming' = Tail(Coming) BY <1>2, <2>2 DEF Coming, Busy
  <2>4. Watching' => Watching BY <1>1, <2>2 DEF Watching
  <2>5. Heard(Coming, lastReachable, lastReachable') BY <1>2, <1>4, <2>1 DEF Heard
  <2>6. Told' BY <1>0, <1>1, <1>2, <2>2, <2>3, <2>5, CalmTypes, FirstHeard DEF Sound
  <2>7. \A a \in DOMAIN value : Watching =>
            \/ Mentions(Tail(Coming), a) \/ Due(Tail(Coming), lastReachable')
            \/ d[a] = value[a]
    BY <1>0, <1>2, <1>3, <2>5, KeptAfter
  <2>r. Watching => ReachComing' \/ cache["isReachable"] = reach
    BY <1>0, <1>4, <1>r, NoItems DEF Sound, Brought, ReachKept, Registering
  <2> HIDE DEF its, d
  <2>8. Brought'
    BY <1>1, <2>2, <2>i, <2>3, <2>4, <2>7, <2>r DEF Brought, ReachKept, Kept
  <2>9. AllMarked'
    <3>1. Watching => \A e \in Range(entities) :
              e \in missed \/ avail[e] = reach \/ ReachComing'
      BY <1>0, <1>4, <1>r DEF Sound, AllMarked, Marks, Registering
    <3> QED BY <1>1, <2>2, <2>4, <3>1 DEF AllMarked, Marks
  <2>10. QuietStartup' BY <2>2 DEF QuietStartup
  <2> QED BY <2>2, <2>6, <2>8, <2>9, <2>10 DEF Sound
<1>5. CASE m.reach # "none" /\ entities = <<>> /\ Report(m) /\ UNCHANGED mark
  <2>1. Range(entities) = {} BY <1>5 DEF Range
  <2> QED BY <1>0, <1>1, <1>2, <1>3, <1>5, <2>1, ReportCalm
<1>6. CASE /\ m.reach # "none" /\ entities # <<>>
           /\ msg' = m /\ mark' = [next |-> 1, size |-> Len(entities)]
           /\ Goto("ws", "marking")
           /\ UNCHANGED <<lastReachable, cache, items, out>>
  <2>1. pc'["ws"] = "marking" /\ pc'["main"] = "waiting"
    BY <1>0, <1>6 DEF Goto, Tasks
  <2>2. Doing' = "ws" /\ ~InFlight' /\ ~Registering' /\ ~InFlight /\ ~Registering
    BY <1>0, <2>1 DEF Doing, InFlight, Registering
  <2>3. Coming' = Coming BY <1>2, <1>6, <2>1 DEF Coming, Busy
  <2>4. Watching' => Watching BY <1>1, <2>1 DEF Watching
  <2>5. Told' BY <1>0, <1>1, <1>6, <2>1, <2>3, MessageTaken DEF Sound
  <2>6. Brought'
    BY <1>0, <1>1, <1>6, <2>1, <2>2, <2>3, <2>4
    DEF Sound, Brought, ReachKept, Kept, Pending
  <2>7. AllMarked'
    <3>1. entities \in Seq(Entities) BY CalmTypes DEF TypeOK
    <3>2. \A e \in Range(entities) : \E n \in 1..Len(entities) : entities[n] = e
      BY <3>1 DEF Range
    <3> QED BY <1>1, <1>6, <2>1, <2>4, <3>2 DEF AllMarked, Marks
  <2>8. Showing'
    BY <1>0, <1>1, <1>6, <2>2 DEF Sound, Showing, Shows, Mapped
  <2>9. QuietStartup' BY <2>1 DEF QuietStartup
  <2> QED BY <2>5, <2>6, <2>7, <2>8, <2>9 DEF Sound
<1> QED BY <1>4, <1>5, <1>6 DEF TakeMessage, m


LEMMA MarkedCalm == ASSUME TypeInv, Sound, Marked PROVE Sound'
<1> DEFINE x == entities[mark.next]
<1>0. /\ pc \in [Tasks -> MainPc \union WsPc] /\ pc["main"] = "waiting" /\ Doing = "ws"
      /\ wire \in Seq(Message) /\ pc["ws"] = "marking" /\ msg \in Message /\ About(msg)
      /\ cache \in [DOMAIN kind.entityOf -> Cached] /\ QuietStartup /\ kind \in Kinds
      /\ Coming = <<msg>> \o wire
  BY CalmTypes, DoingIs DEF Marked, Sound, Coming, Busy
<1>1. /\ UNCHANGED <<kind, value, reach, link, wire, entities, shown, todo, snap>>
      /\ AvailabilityPublish(x, msg.reach = "up")
  BY DEF Marked, hub
<1>2. /\ msg.reach # "none" /\ mark.next \in Nat /\ mark.next > 0 /\ mark.next <= mark.size
      /\ mark.size = Len(entities) /\ entities \in Seq(Entities)
      /\ mark \in [next : Nat, size : Nat]
  BY <1>0, CalmTypes DEF Sound, AllMarked, Typed, HandlerTyped, TypeOK
<1>3. mark.next \in DOMAIN entities /\ x \in Range(entities) /\ x \in DOMAIN avail
  <2>1. mark.next \in DOMAIN entities BY <1>2
  <2>2. x \in Range(entities) BY <2>1 DEF Range
  <2> QED BY <2>1, <2>2, CalmTypes DEF TypeOK, TypeInv, InLoop
<1>4. Watching => (msg.reach = "up") = reach \/ ReachComing
  BY <1>0, <1>2, ReachHeard DEF ReachComing
<1>c. ReachComing' = ReachComing BY <1>1 DEF ReachComing
<1>5. /\ \A e : e # x /\ e \in missed => e \in missed'
      /\ x \in missed' \/ avail'[x] = (msg.reach = "up")
      /\ \A e : e # x => avail'[e] = avail[e]
  <2>1. \A e : e # x => [avail EXCEPT ![x] = (msg.reach = "up")][e] = avail[e]
    BY CalmTypes DEF TypeOK
  <2> QED BY <1>1, <1>3, <2>1 DEF AvailabilityPublish
<1>6. Watching => \A e \in Range(entities) :
          \/ e \in missed' \/ avail'[e] = reach \/ ReachComing
          \/ \E n \in (mark.next + 1)..Len(entities) : entities[n] = e
  <2> SUFFICES ASSUME Watching, NEW e \in Range(entities)
               PROVE \/ e \in missed' \/ avail'[e] = reach \/ ReachComing
                     \/ \E n \in (mark.next + 1)..Len(entities) : entities[n] = e
    OBVIOUS
  <2>1. CASE e = x BY <1>4, <1>5, <2>1
  <2>2. CASE e # x
    <3>1. \/ e \in missed \/ avail[e] = reach \/ ReachComing
          \/ \E n \in mark.next..Len(entities) : entities[n] = e
      BY <1>0 DEF Sound, AllMarked, Marks, Registering
    <3>2. \A n \in mark.next..Len(entities) :
              n = mark.next \/ n \in (mark.next + 1)..Len(entities)
      BY <1>2
    <3> QED BY <1>5, <2>2, <3>1, <3>2
  <2> QED BY <2>1, <2>2
<1>a. \A a \in Mapped : a \in missed => a \in missed'
  <2>1. x \in Entities /\ Mapped \subseteq Reported
    BY <1>0, <1>2, <1>3, AttributesAreMapped DEF Mapped, Reported
  <2> QED BY <1>5, <2>1, DeviceSyncAssumption
<1> HIDE DEF x
<1>7. CASE /\ Len(entities) = mark.size /\ mark.next = mark.size
           /\ Report(msg) /\ mark' = NoLoop
  <2>1. Watching => \A e \in Range(entities) :
            e \in missed' \/ avail'[e] = reach \/ ReachComing'
    BY <1>2, <1>6, <1>7, <1>c
  <2> QED BY <1>0, <1>1, <1>2, <1>7, <1>a, <2>1, ReportCalm
<1>8. CASE /\ mark.next < mark.size /\ mark' = [mark EXCEPT !.next = @ + 1]
           /\ UNCHANGED <<lastReachable, cache, pc, items, out, msg>>
  <2>1. mark'.next = mark.next + 1 /\ mark'.size = mark.size BY <1>2, <1>8
  <2>2. /\ Doing' = Doing /\ Pending' = Pending /\ Coming' = Coming
        /\ Watching' = Watching /\ ~InFlight' /\ ~Registering' /\ ~Registering
    BY <1>0, <1>1, <1>8
    DEF Doing, Pending, Coming, Busy, Watching, InFlight, Registering
  <2>3. Told' BY <1>1, <1>8, <2>2, NothingHeard DEF Sound
  <2>4. Brought' BY <1>0, <1>1, <1>8, <2>2 DEF Sound, Brought, ReachKept, Kept
  <2>5. AllMarked'
    BY <1>0, <1>1, <1>2, <1>6, <1>8, <1>c, <2>1, <2>2 DEF AllMarked, Marks
  <2>6. Showing'
    <3>1. \A a \in Mapped : kind.entityOf[a] \in Range(entities) =>
              a \in missed \/ shown[a] = cache[a]
      BY <1>0, ShownIsCached
    <3> QED BY <1>1, <1>8, <1>a, <2>2, <3>1 DEF Showing, Shows, Mapped
  <2>7. QuietStartup' BY <1>0, <1>8 DEF QuietStartup
  <2> QED BY <2>3, <2>4, <2>5, <2>6, <2>7 DEF Sound
<1> QED BY <1>2, <1>7, <1>8 DEF Marked

LEMMA ReportedReachCalm == ASSUME TypeInv, Sound, ReportedReach PROVE Sound'
<1>0. /\ pc["main"] = "waiting" /\ Doing = "ws" /\ "ws" \in Tasks
      /\ wire \in Seq(Message) /\ pc["ws"] = "reporting" /\ msg \in Message /\ About(msg)
      /\ cache \in [DOMAIN kind.entityOf -> Cached]
      /\ Coming = <<msg>> \o wire /\ InFlight /\ ~Registering
      /\ "isReachable" \in DOMAIN kind.entityOf /\ DOMAIN value \subseteq DOMAIN kind.entityOf
  BY CalmTypes, DoingIs
  DEF ReportedReach, Sound, Coming, Busy, InFlight, Registering
<1>1. /\ UNCHANGED <<kind, value, reach, link, wire, entities, avail, todo, snap>>
      /\ StatePublish("ws") /\ Edge(msg, cache)
  BY DEF ReportedReach, hub
<1>2. msg.reach # "none" BY <1>0, CalmTypes DEF Typed, HandlerTyped
<1>3. \A a \in Mapped : kind.entityOf[a] \in Range(entities) =>
          a \in missed' \/ shown'[a] = cache[a]
  <2>1. items["ws"] = <<>> BY <1>0, NoItems
  <2>2. \A a : ~Forced(<<>>, a) BY DEF Forced
  <2> QED BY <1>0, <1>1, <2>1, <2>2, PublishedShown
<1>c. ReachComing' = ReachComing BY <1>1 DEF ReachComing
<1>4. Watching => cache["isReachable"] = reach \/ ReachComing'
  BY <1>0, <1>c, NoItems DEF Sound, Brought, ReachKept
<1>5. Watching => \A e \in Range(entities) :
          e \in missed' \/ avail'[e] = reach \/ ReachComing'
  <2>1. \A e \in Range(entities) : e \in missed => e \in missed'
    BY <1>0, <1>1, MissedEntities
  <2> QED BY <1>0, <1>1, <1>c, <2>1 DEF Sound, AllMarked, Marks
<1>6. \A a \in DOMAIN value : cache[a] = cache[a] OBVIOUS
<1> QED BY <1>0, <1>1, <1>2, <1>3, <1>4, <1>5, <1>6, EdgeCalm

LEMMA RefreshedCalm == ASSUME TypeInv, Sound, Refreshed PROVE Sound'
<1> DEFINE its == AttributeItems(ThisDevice) \o MessageItems(msg)
           d == CacheAfter(cache, its, Len(its))
<1>0. /\ pc \in [Tasks -> MainPc \union WsPc] /\ pc["main"] = "waiting" /\ Doing = "ws"
      /\ wire \in Seq(Message) /\ pc["ws"] = "refreshing" /\ msg \in Message /\ About(msg)
      /\ cache \in [DOMAIN kind.entityOf -> Cached] /\ QuietStartup /\ kind \in Kinds
      /\ Coming = <<msg>> \o wire /\ "ws" \in Tasks /\ ~Registering
      /\ "isReachable" \in DOMAIN kind.entityOf /\ DOMAIN value = Range(kind.attributes)
      /\ ThisDevice \in Device /\ Coming \in Seq(Message)
  BY CalmTypes, DoingIs, DeviceIsTyped
  DEF Refreshed, Sound, Coming, Busy, Registering
<1>1. /\ UNCHANGED <<kind, value, reach, link, wire, entities, lastReachable, avail, shown,
                     missed, todo, snap>>
      /\ Process("ws", cache, its, entities, "publishing")
      /\ msg' = NoMessage
  BY DEF Refreshed, hub, book, ha
<1>2. /\ Coming # <<>> /\ Coming[1] = msg /\ Tail(Coming) = wire /\ Coming[1].reach = "up"
  <2>1. msg.reach = "up" BY <1>0, CalmTypes DEF Typed, HandlerTyped
  <2> QED BY <1>0, <2>1, ConsOf
<1>3. /\ ForThisDevice(its) /\ d["isReachable"] = cache["isReachable"]
      /\ \A a \in DOMAIN value : d[a] = IF msg.attr = a THEN msg.value ELSE value[a]
  <2>1. msg.attr = None \/ (msg.attr \in Range(kind.attributes) /\ msg.value \in Values)
    BY <1>0, MessageIsForDevice
  <2>2. ThisDevice.value = value BY DEF ThisDevice
  <2> QED BY <1>0, <2>1, <2>2, RefreshItemsEffect
<1>d. d = CacheAfter(cache, its, Len(its)) OBVIOUS
<1> HIDE DEF its, d
<1>4. /\ Showing' /\ Pending' = d /\ ~Registering' /\ pc'[Doing'] # "fetching"
      /\ pc'["main"] = "waiting" /\ pc'["ws"] \in {"publishing", "listening"}
  <2>1. \A a \in Mapped : kind.entityOf[a] \in Range(entities) =>
            a \in missed' \/ shown'[a] = cache[a] \/ Forced(its, a)
    BY <1>0, <1>1, ShownIsCached
  <2>2. UNCHANGED <<kind, entities>> BY <1>1
  <2>3. /\ Showing' /\ Pending' = d /\ ~Registering' /\ pc'[Doing'] # "fetching"
        /\ \A u \in Tasks : u # "ws" => pc'[u] = pc[u]
        /\ pc'["ws"] \in {"publishing", Ended("ws")}
    <3>1. /\ QuietStartup /\ Doing = "ws" /\ "ws" \in Tasks /\ ForThisDevice(its)
          /\ cache \in [DOMAIN kind.entityOf -> Cached]
          /\ Process("ws", cache, its, entities, "publishing")
      BY <1>0, <1>1, <1>3
    <3> QED BY <1>d, <2>1, <2>2, <3>1, ProcessCalm
  <2> QED BY <1>0, <2>3 DEF Ended, Tasks
<1>5. Coming' = Tail(Coming) /\ ReachComing' = ReachComing
  BY <1>1, <1>2, <1>4 DEF Coming, Busy, ReachComing
<1>6. Watching' => Watching BY <1>1, <1>4 DEF Watching
<1>7. Told' BY <1>0, <1>1, <1>2, <1>4, <1>5, FirstHeard DEF Sound
<1>8. ASSUME Watching, NEW a \in DOMAIN value
      PROVE \/ Mentions(Tail(Coming), a) \/ Due(Tail(Coming), lastReachable')
            \/ d[a] = value[a]
  <2>1. CASE msg.attr = a /\ ~Mentions(Tail(Coming), a)
    <3>1. Mentions(Coming, a)
      <4>1. 1 \in 1..Len(Coming) BY <1>0, <1>2
      <4> QED BY <1>2, <2>1, <4>1 DEF Mentions
    <3>2. Said(Coming, a, value[a]) BY <1>8 DEF Sound, Told
    <3>3. msg.value = value[a] \/ Later(Tail(Coming), 0)
      BY <1>0, <1>2, <2>1, <3>1, <3>2, TailMentions, ZenonT(40)
    <3> QED BY <1>3, <2>1, <3>3 DEF Due
  <2>2. CASE msg.attr # a BY <1>3, <2>2
  <2> QED BY <2>1, <2>2
<1>r. Watching => ReachComing \/ cache["isReachable"] = reach
  BY <1>0, NoItems DEF Sound, Brought, ReachKept
<1>9. Brought'
  BY <1>1, <1>3, <1>4, <1>5, <1>6, <1>8, <1>r DEF Brought, ReachKept, Kept
<1>10. AllMarked'
  BY <1>0, <1>1, <1>4, <1>5, <1>6 DEF Sound, AllMarked, Marks
<1>11. QuietStartup' BY <1>4 DEF QuietStartup
<1> QED BY <1>4, <1>7, <1>9, <1>10, <1>11 DEF Sound

\* Connection and outage.
LEMMA OpenedCalm == ASSUME TypeInv, Sound, Opened PROVE Sound'
<1>0. /\ pc \in [Tasks -> MainPc \union WsPc] /\ Typed /\ QuietStartup
      /\ wire = <<>> /\ ~link /\ ~Busy /\ items["ws"] = <<>>
  BY CalmTypes DEF Opened, Sound, Typed, Solo, Busy
<1>1. /\ pc["ws"] \in {"connecting", "opening"} /\ link' = TRUE
      /\ pc'["ws"] = IF pc["ws"] = "opening" THEN "fetching" ELSE "listening"
      /\ pc'["main"] = pc["main"]
      /\ UNCHANGED <<kind, value, reach, wire, cache, entities, lastReachable, avail, shown,
                     missed, todo, snap, items, out, msg, mark>>
  BY <1>0 DEF Opened, Goto, Tasks, book, ha, task, handler
<1>2. /\ Doing' = Doing /\ Coming' = Coming /\ Coming = <<>> /\ Pending' = Pending
      /\ ReachComing' = ReachComing
  BY <1>0, <1>1 DEF Doing, Coming, Busy, Pending, ReachComing
<1>3. Registering' = Registering /\ InFlight' = InFlight
  BY <1>0, <1>1 DEF Registering, InFlight, Doing
<1>l. Len(<<>>) = 0 OBVIOUS
<1>4. Told'
  BY <1>0, <1>1, <1>2, <1>l DEF Sound, Told, ReturnHeard, Said
<1>5. Brought' /\ AllMarked'
  <2>1. CASE pc["ws"] = "connecting"
    <3>1. Watching BY <2>1 DEF Watching
    <3>2. pc'[Doing] = pc[Doing] \/ (Doing = "ws" /\ pc'[Doing] = "listening")
      BY <1>1, <2>1 DEF Doing
    <3> QED BY <1>0, <1>1, <1>2, <1>3, <2>1, <3>1, <3>2
        DEF Sound, Brought, ReachKept, Kept, AllMarked, Marks
  <2>2. CASE pc["ws"] = "opening"
    <3>1. pc["main"] = "waiting" BY <1>0, <2>2 DEF Typed, Solo
    <3>2. Doing' = "ws" /\ pc'[Doing'] = "fetching" BY <1>1, <2>2, <3>1 DEF Doing
    <3> QED BY <3>2 DEF Brought, ReachKept, Kept, AllMarked, Marks, Doing
  <2> QED BY <1>1, <2>1, <2>2
<1>6. Showing' BY <1>1, <1>2, <1>3 DEF Sound, Showing, Shows, Mapped
<1>7. QuietStartup' BY <1>0, <1>1 DEF QuietStartup
<1> QED BY <1>4, <1>5, <1>6, <1>7 DEF Sound

LEMMA ListenEndsCalm == ASSUME TypeInv, Sound, ListenEnds PROVE Sound'
<1>0. /\ pc \in [Tasks -> MainPc \union WsPc] /\ QuietStartup /\ wire \in Seq(Message)
      /\ ~link /\ pc["ws"] = "listening" /\ pc["main"] = "waiting"
  BY CalmTypes, DoingIs DEF ListenEnds, Sound, QuietStartup
<1>1. /\ pc'["ws"] \in {"opening", "darkening"} /\ pc'["main"] = pc["main"] /\ wire' = <<>>
      /\ UNCHANGED <<kind, value, reach, link, cache, entities, lastReachable, avail, shown,
                     missed, snap, items, out, msg, mark>>
  BY <1>0 DEF ListenEnds, Goto, Tasks, book, ha, handler
<1>2. Coming = wire /\ Coming' = <<>> /\ ~Watching'
  BY <1>0, <1>1 DEF Coming, Busy, Watching
<1>3. ~InFlight /\ ~InFlight' /\ ~Registering /\ Doing' = Doing
  BY <1>0, <1>1 DEF InFlight, Registering, Doing
<1>4. Told'
  <2>1. ~reach => lastReachable # TRUE
    BY <1>0, <1>2 DEF Sound, Told, LossHeard
  <2>3. \A n \in 1..Len(<<>>) : FALSE OBVIOUS
  <2>4. lastReachable' = lastReachable /\ reach' = reach BY <1>1
  <2>2. ~reach' => LossHeard(<<>>, lastReachable')
    BY <2>1, <2>3, <2>4 DEF LossHeard
  <2> QED BY <1>1, <1>2, <2>2, <2>3 DEF Told
<1>5. Brought' /\ AllMarked' BY <1>1, <1>2 DEF Brought, AllMarked
<1>6. Showing' BY <1>1, <1>3 DEF Sound, Showing, Shows, Mapped
<1>7. QuietStartup' BY <1>0, <1>1 DEF QuietStartup
<1> QED BY <1>4, <1>5, <1>6, <1>7 DEF Sound

LEMMA DarkenedCalm == ASSUME TypeInv, Sound, Darkened PROVE Sound'
<1>0. /\ pc \in [Tasks -> MainPc \union WsPc] /\ Typed
      /\ ~link /\ pc["ws"] = "darkening" /\ pc["main"] = "waiting" /\ todo["ws"] # <<>>
  BY CalmTypes DEF Darkened, Typed, Solo, LoopTyped
<1>1. /\ pc'["ws"] \in {"opening", "darkening"} /\ pc'["main"] = pc["main"]
      /\ UNCHANGED <<kind, value, reach, link, wire, cache, entities, lastReachable, shown,
                     snap, items, out, msg, mark>>
      /\ AvailabilityPublish(Head(todo["ws"]), FALSE)
  BY <1>0 DEF Darkened, Goto, Tasks, hub, book, handler
<1>2. Coming = Coming' /\ ~Watching'
  BY <1>0, <1>1 DEF Coming, Busy, Watching
<1>3. ~InFlight /\ ~InFlight' /\ ~Registering /\ Doing' = Doing
  BY <1>0, <1>1 DEF InFlight, Registering, Doing
<1>4. Told' BY <1>0, <1>1, <1>2, NothingHeard DEF Sound
<1>5. Brought' /\ AllMarked' BY <1>1, <1>2 DEF Brought, AllMarked
<1>a. \A a \in Mapped : a \in missed => a \in missed'
  <2>1. Head(todo["ws"]) \in Entities /\ Mapped \subseteq Reported
    BY <1>0, CalmTypes, TailOfTodo, AttributesAreMapped DEF Mapped, Reported
  <2> QED BY <1>1, <2>1, DeviceSyncAssumption DEF AvailabilityPublish
<1>6. Showing' BY <1>1, <1>3, <1>a DEF Sound, Showing, Shows, Mapped
<1>7. QuietStartup' BY <1>0, <1>1 DEF QuietStartup
<1> QED BY <1>4, <1>5, <1>6, <1>7 DEF Sound

\* The hub.
LEMMA Sent ==
  ASSUME TypeInv, NEW m \in Message, wire' = Append(wire, m), UNCHANGED <<pc, msg>>
  PROVE /\ Coming' = Append(Coming, m)
        /\ ReachComing => ReachComing'
        /\ m.reach # "none" => ReachComing'
<1>0. wire \in Seq(Message) /\ msg \in Message BY CalmTypes
<1>1. Busy' = Busy BY DEF Busy
<1>2. Coming' = Append(Coming, m) BY <1>0, <1>1, ConsOf DEF Coming
<1>3. /\ \A n \in 1..Len(wire) : wire'[n] = wire[n] /\ n \in 1..Len(wire')
      /\ Len(wire') \in 1..Len(wire') /\ wire'[Len(wire')] = m
  BY <1>0, AppendOf
<1> QED BY <1>2, <1>3 DEF ReachComing

\* A step of the hub is either not heard, or the message of it is on its way.
LEMMA HubCalm ==
  ASSUME TypeInv, Sound, UNCHANGED <<kind, cache, book, ha, pc, task, handler>>,
         DOMAIN value' = DOMAIN value, Told', ~Starting,
         \/ ~link'
         \/ link /\ \E m \in Message :
               /\ wire' = Append(wire, m)
               /\ m.reach # "none" \/ reach' = reach
               /\ \A a \in DOMAIN value :
                     \/ value'[a] = value[a] \/ m.attr = a
                     \/ Due(Append(Coming, m), lastReachable)
  PROVE Sound'
<1>1. UNCHANGED <<kind, cache, entities, lastReachable, avail, shown, missed, pc, todo,
                  snap, items, out, msg, mark>>
  BY DEF book, ha, task, handler
<1>2. pc["main"] = "waiting" /\ pc["ws"] # "connecting" BY DEF Starting
<1>3. /\ Doing' = Doing /\ Pending' = Pending /\ Registering' = Registering
      /\ InFlight' = InFlight /\ Mapped' = Mapped
  BY <1>1 DEF Doing, Pending, Registering, InFlight, Mapped
<1>4. QuietStartup' BY <1>1, <1>2 DEF QuietStartup
<1>5. Showing' BY <1>1, <1>3 DEF Sound, Showing, Shows
<1>6. CASE ~link'
  <2>1. ~Watching' BY <1>1, <1>2, <1>6 DEF Watching
  <2>2. Brought' BY <2>1 DEF Brought
  <2>3. AllMarked' BY <1>1, <2>1 DEF Sound, AllMarked
  <2> QED BY <1>4, <1>5, <2>2, <2>3 DEF Sound
<1>7. ASSUME link, NEW m \in Message, wire' = Append(wire, m),
             m.reach # "none" \/ reach' = reach,
             \A a \in DOMAIN value :
                \/ value'[a] = value[a] \/ m.attr = a
                \/ Due(Append(Coming, m), lastReachable)
      PROVE Sound'
  <2>0. /\ Watching /\ Coming \in Seq(Message)
        /\ ReachKept /\ (\A a \in DOMAIN value : Kept(a))
        /\ \A e \in Range(entities) : Marks(e)
    BY <1>7, CalmTypes DEF Sound, Brought, AllMarked, Watching
  <2>1. /\ Coming' = Append(Coming, m) /\ (ReachComing => ReachComing')
        /\ m.reach # "none" => ReachComing'
    BY <1>1, <1>7, Sent
  <2>2. ReachKept' BY <1>1, <1>3, <1>7, <2>0, <2>1 DEF ReachKept
  <2>3. ASSUME NEW a \in DOMAIN value PROVE Kept(a)'
    <3>1. /\ Mentions(Coming, a) => Mentions(Coming', a)
          /\ Due(Coming, lastReachable) => Due(Coming', lastReachable')
          /\ m.attr = a => Mentions(Coming', a)
      BY <1>1, <2>0, <2>1, AppendMentions, AppendDue
    <3>2. \/ value'[a] = value[a] \/ m.attr = a
          \/ Due(Coming', lastReachable')
      BY <1>1, <1>7, <2>1
    <3> QED BY <1>1, <1>3, <2>0, <3>1, <3>2 DEF Kept
  <2>4. Brought' BY <2>2, <2>3 DEF Brought
  <2>5. \A e \in Range(entities) : Marks(e)'
    BY <1>1, <1>3, <1>7, <2>0, <2>1 DEF Marks
  <2>6. AllMarked' BY <1>1, <2>5 DEF Sound, AllMarked
  <2> QED BY <1>4, <1>5, <2>4, <2>6 DEF Sound
<1> QED BY <1>6, <1>7

\* A step of the hub that the bridge can learn of comes after startup.
LEMMA HubStepIs ==
  ASSUME HubStep, ~blind'
  PROVE /\ UNCHANGED <<kind, link, cache, book, ha, pc, task, handler>> /\ ~Starting
        /\ ~blind /\ (Watching' <=> link) /\ (Watching => link) /\ link' = link
        /\ lastReachable' = lastReachable /\ msg' = msg /\ Busy' = Busy
  BY DEF HubStep, Starting, Watching, book, handler, Busy

LEMMA HubChangesCalm ==
  ASSUME TypeInv, Sound, ~blind', NEW a \in Attributes, NEW v \in Values,
         HubChanges(a, v)
  PROVE Sound'
<1>0. HubStep /\ reach /\ reach' BY DEF HubChanges
<1>1. /\ UNCHANGED <<kind, link, cache, book, ha, pc, task, handler>> /\ ~Starting
      /\ (Watching' <=> link) /\ (Watching => link) /\ link' = link
      /\ lastReachable' = lastReachable /\ msg' = msg /\ Busy' = Busy
  BY <1>0, HubStepIs
<1>2. /\ a \in DOMAIN value /\ value' = [value EXCEPT ![a] = v]
      /\ reach' = reach /\ DOMAIN value' = DOMAIN value
  BY DEF HubChanges
<1>3. PICK r \in {"up", "none"} : Send(r, a, v) BY DEF HubChanges
<1>4. TypeInv /\ Coming \in Seq(Message) BY CalmTypes
<1>5. CASE link
  <2> DEFINE m == [reach |-> r, attr |-> a, value |-> v]
  <2>1. m \in Message /\ m.attr = a /\ m.value = v /\ m.reach \in {"up", "none"}
    BY DEF Message
  <2>2. wire' = Append(wire, m) BY <1>3, <1>5 DEF Send
  <2> HIDE DEF m
  <2>3. Coming' = Append(Coming, m) BY <1>1, <2>1, <2>2, Sent
  <2>4. ReturnHeard(Coming) /\ \A b \in DOMAIN value : Said(Coming, b, value[b])
    BY <1>0, <1>5 DEF Sound, Told, Watching
  <2>5. ReturnHeard(Coming') BY <1>4, <2>1, <2>3, <2>4, AppendReturn
  <2>6. \A b \in DOMAIN value' : Said(Coming', b, value'[b])
    <3> SUFFICES ASSUME NEW b \in DOMAIN value PROVE Said(Append(Coming, m), b, value'[b])
      BY <1>2, <2>3
    <3>1. value'[b] = IF b = a THEN v ELSE value[b] BY <1>2
    <3>2. IF m.attr = b THEN m.value = value'[b] ELSE Said(Coming, b, value'[b])
      BY <2>1, <2>4, <3>1
    <3> QED BY <1>4, <2>1, <3>2, AppendSaid
  <2>7. Told' BY <1>0, <1>1, <1>5, <2>5, <2>6 DEF Told
  <2>8. \A b \in DOMAIN value : value'[b] = value[b] \/ m.attr = b
    BY <1>2, <2>1
  <2> QED BY <1>1, <1>2, <1>5, <2>1, <2>2, <2>7, <2>8, HubCalm
<1>6. CASE ~link
  <2>1. wire' = wire BY <1>3, <1>6 DEF Send
  <2>2. Told' BY <1>0, <1>1, <1>6, <2>1 DEF Sound, Told
  <2> QED BY <1>1, <1>2, <1>6, <2>2, HubCalm
<1> QED BY <1>5, <1>6

LEMMA HubLosesCalm ==
  ASSUME TypeInv, Sound, ~blind', "silent_loss" \notin Faults, HubLoses PROVE Sound'
<1>0. /\ HubStep /\ reach /\ ~reach' /\ link /\ value' = value
      /\ Send("down", None, None)
  BY DEF HubLoses
<1>1. /\ UNCHANGED <<kind, link, cache, book, ha, pc, task, handler>> /\ ~Starting
      /\ link' = link /\ lastReachable' = lastReachable /\ msg' = msg /\ Busy' = Busy
  BY <1>0, HubStepIs
<1>4. Coming \in Seq(Message) /\ None \notin DOMAIN value BY CalmTypes
<1> DEFINE m == [reach |-> "down", attr |-> None, value |-> None]
<1>5. m \in Message /\ m.attr = None /\ m.reach = "down" BY DEF Message
<1>6. wire' = Append(wire, m) BY <1>0 DEF Send
<1> HIDE DEF m
<1>7. Coming' = Append(Coming, m) BY <1>1, <1>5, <1>6, Sent
<1>8. LossHeard(Coming', lastReachable') BY <1>4, <1>5, <1>7, AppendLoss
<1>9. \A b \in DOMAIN value : Said(Coming', b, value[b])
  <2>1. \A b \in DOMAIN value : Said(Coming, b, value[b])
    BY <1>0 DEF Sound, Told, Watching
  <2> QED BY <1>4, <1>5, <1>7, <2>1, AppendSaid
<1>10. Told' BY <1>0, <1>1, <1>8, <1>9 DEF Told
<1> QED BY <1>0, <1>1, <1>5, <1>6, <1>10, HubCalm

LEMMA HubReturnsCalm ==
  ASSUME TypeInv, Sound, ~blind', NEW now \in [DOMAIN value -> Values], HubReturns(now)
  PROVE Sound'
<1>0. /\ HubStep /\ ~reach /\ reach' = TRUE /\ value' = now
      /\ DOMAIN value' = DOMAIN value /\ Send("up", None, None)
  BY DEF HubReturns
<1>1. /\ UNCHANGED <<kind, link, cache, book, ha, pc, task, handler>> /\ ~Starting
      /\ (Watching' <=> link) /\ link' = link
      /\ lastReachable' = lastReachable /\ msg' = msg /\ Busy' = Busy
  BY <1>0, HubStepIs
<1>4. Coming \in Seq(Message) /\ None \notin DOMAIN value BY CalmTypes
<1>5. CASE link
  <2> DEFINE m == [reach |-> "up", attr |-> None, value |-> None]
  <2>1. m \in Message /\ m.attr = None /\ m.reach = "up" BY DEF Message
  <2>2. wire' = Append(wire, m) BY <1>0, <1>5 DEF Send
  <2> HIDE DEF m
  <2>3. Coming' = Append(Coming, m) BY <1>1, <2>1, <2>2, Sent
  <2>4. ReturnHeard(Coming') BY <1>4, <2>1, <2>3, AppendReturn
  <2>5. LossHeard(Coming, lastReachable) BY <1>0 DEF Sound, Told
  <2>6. \A b \in DOMAIN value' : Said(Coming', b, value'[b])
    BY <1>0, <1>4, <2>1, <2>3, <2>5, AppendBack
  <2>7. Told' BY <1>0, <1>1, <1>5, <2>4, <2>6 DEF Told
  <2>8. \A b \in DOMAIN value : Due(Append(Coming, m), lastReachable)
    BY <1>4, <2>1, <2>5, AppendBack
  <2> QED BY <1>0, <1>1, <1>5, <2>1, <2>2, <2>7, <2>8, HubCalm
<1>6. CASE ~link
  <2>1. wire' = wire BY <1>0, <1>6 DEF Send
  <2>2. Told' BY <1>0, <1>1, <1>6, <2>1 DEF Sound, Told
  <2> QED BY <1>0, <1>1, <1>6, <2>2, HubCalm
<1> QED BY <1>5, <1>6

LEMMA HubDropsCalm ==
  ASSUME TypeInv, Sound, "silent_loss" \notin Faults, HubDrops PROVE Sound'
<1>0. /\ UNCHANGED <<kind, value, reach, wire, cache, book, ha, pc, task, handler>>
      /\ ~Starting /\ ~link' /\ \A n \in DOMAIN wire : wire[n].reach # "down"
  BY DEF HubDrops
<1>1. /\ lastReachable' = lastReachable /\ Coming' = Coming /\ ~Watching'
      /\ UNCHANGED <<value, reach, wire>>
  BY <1>0 DEF book, handler, Coming, Busy, Watching, Starting
<1>2. DOMAIN wire = 1..Len(wire) BY CalmTypes
<1>3. Told' BY <1>0, <1>1, <1>2 DEF Sound, Told
<1> QED BY <1>0, <1>1, <1>3, HubCalm

-----------------------------------------------------------------------------
(***************************************************************************)
(* CalmIsAccurate                                                          *)
(***************************************************************************)

LEMMA CalmStart == ASSUME Init PROVE Sound
<1>0. /\ pc = [t \in Tasks |-> IF t = "main" THEN "fetching" ELSE "connecting"]
      /\ wire = <<>> /\ entities = <<>> /\ lastReachable = None
      /\ items = [t \in Tasks |-> <<>>]
  BY DEF Init
<1>1. pc["main"] = "fetching" /\ pc["ws"] = "connecting" /\ Doing = "main"
  BY <1>0 DEF Tasks, Doing
<1>2. Coming = <<>> /\ \A n \in 1..Len(<<>>) : FALSE
  BY <1>0, <1>1 DEF Coming, Busy
<1>3. QuietStartup BY <1>0, <1>1 DEF QuietStartup
<1>4. LossHeard(<<>>, lastReachable)
  BY <1>0, <1>2, DeviceSyncAssumption DEF LossHeard
<1>5. ReturnHeard(<<>>) /\ \A a, v : Said(<<>>, a, v)
  BY <1>2 DEF ReturnHeard, Said
<1>6. Told BY <1>0, <1>2, <1>4, <1>5 DEF Told
<1>7. Brought BY <1>1 DEF Brought, ReachKept, Kept
<1>8. AllMarked BY <1>1 DEF AllMarked, Marks
<1>9. Range(entities) = {} BY <1>0 DEF Range
<1>10. Showing BY <1>1, <1>9 DEF Showing, InFlight
<1> QED BY <1>3, <1>6, <1>7, <1>8, <1>10 DEF Sound

LEMMA CalmStutters == ASSUME Sound, UNCHANGED vars PROVE Sound'
<1>1. UNCHANGED <<hub, cache, book, ha, pc, task, handler>> BY DEF vars
<1>2. UNCHANGED <<kind, value, reach, link, wire, cache, entities, lastReachable, avail,
                  shown, missed, pc, todo, snap, items, out, msg, mark>>
  BY <1>1 DEF hub, book, ha, task, handler
<1>3. /\ Doing' = Doing /\ Coming' = Coming /\ Pending' = Pending /\ Mapped' = Mapped
      /\ Registering' = Registering /\ InFlight' = InFlight
      /\ ReachComing' = ReachComing /\ Watching' = Watching
  BY <1>2 DEF Doing, Coming, Busy, Pending, Mapped, Registering, InFlight, ReachComing,
              Watching
<1>4. QuietStartup' BY <1>2 DEF Sound, QuietStartup
<1>5. Told' BY <1>2, <1>3 DEF Sound, Told
<1>6. Brought' BY <1>2, <1>3 DEF Sound, Brought, ReachKept, Kept
<1>7. AllMarked' BY <1>2, <1>3 DEF Sound, AllMarked, Marks
<1>8. Showing' BY <1>2, <1>3 DEF Sound, Showing, Shows
<1> QED BY <1>4, <1>5, <1>6, <1>7, <1>8 DEF Sound

\* Every step the bridge is not blind after.
LEMMA CalmStep ==
  ASSUME TypeInv, CalmInv, [Next]_vars, "silent_loss" \notin Faults PROVE CalmInv'
<1>0. CalmInv' <=> (~blind' => Sound')
  BY DEF CalmInv, Sound, Told, Brought, AllMarked, Showing
<1> SUFFICES ASSUME ~blind' PROVE Sound' BY <1>0
<1>1. ASSUME NEW t \in Tasks, Discovery(t) PROVE Sound'
  <2>1. ~blind BY <1>1 DEF Discovery, Fetched, Registered, RegisterFails,
                           InitialAvailability, Published
  <2>2. Sound BY <2>1, SoundIsCalmInv
  <2> QED BY <1>1, <2>2, FetchedCalm, RegisteredCalm, RegisterFailsCalm,
             InitialAvailabilityCalm, PublishedCalm DEF Discovery
<1>2. CASE FetchFails BY <1>2 DEF FetchFails
<1>3. CASE RefreshFails BY <1>3 DEF RefreshFails
<1>4. CASE TakeMessage \/ Marked \/ ReportedReach \/ Refreshed
  <2>1. ~blind BY <1>4 DEF TakeMessage, Marked, ReportedReach, Refreshed
  <2>2. Sound BY <2>1, SoundIsCalmInv
  <2> QED BY <1>4, <2>2, TakeMessageCalm, MarkedCalm, ReportedReachCalm, RefreshedCalm
<1>5. CASE Opened \/ ListenEnds \/ Darkened
  <2>1. ~blind BY <1>5 DEF Opened, ListenEnds, Darkened
  <2>2. Sound BY <2>1, SoundIsCalmInv
  <2> QED BY <1>5, <2>2, OpenedCalm, ListenEndsCalm, DarkenedCalm
<1>6. CASE Hub
  <2>1. ~blind BY <1>6 DEF Hub, HubChanges, HubLoses, HubReturns, HubDrops, HubStep
  <2>2. Sound BY <2>1, SoundIsCalmInv
  <2> QED BY <1>6, <2>2, HubChangesCalm, HubLosesCalm, HubReturnsCalm, HubDropsCalm DEF Hub
<1>7. CASE UNCHANGED vars
  <2>1. ~blind BY <1>7 DEF vars
  <2>2. Sound BY <2>1, SoundIsCalmInv
  <2> QED BY <1>7, <2>2, CalmStutters
<1> QED BY <1>1, <1>2, <1>3, <1>4, <1>5, <1>6, <1>7 DEF Next, Main, Ws, Poll, Tasks

\* When nothing is on its way and no task is at work, what is kept is there.
LEMMA CalmAccurate == ASSUME TypeInv, CalmInv PROVE CalmIsAccurate
<1> SUFFICES ASSUME Calm, ~blind PROVE Accurate BY DEF CalmIsAccurate
<1>1. /\ Sound /\ pc["ws"] = "listening" /\ Doing = "ws" /\ Watching
      /\ Coming = <<>> /\ wire = <<>>
  BY SoundIsCalmInv DEF Calm, Doing, Watching, Coming, Busy
<1>2. /\ ~Registering /\ ~InFlight /\ pc[Doing] = "listening" /\ items["ws"] = <<>>
      /\ \A a \in DOMAIN kind.entityOf : Pending[a] = cache[a]
  BY <1>1, NoItems DEF Registering, InFlight
<1>3. \A n \in 1..Len(<<>>) : FALSE OBVIOUS
<1>4. ~ReachComing BY <1>1, <1>3 DEF ReachComing
<1>5. /\ ~Due(<<>>, lastReachable) /\ \A a : ~Mentions(<<>>, a)
      /\ \A a : ~Forced(<<>>, a)
  BY <1>3 DEF Due, Later, Mentions, Forced
<1>6. \A e \in Range(entities) \ missed : avail[e] = reach
  BY <1>1, <1>2, <1>4 DEF Sound, AllMarked, Marks
<1>7. /\ cache["isReachable"] = reach
      /\ \A a \in DOMAIN value : cache[a] = value[a]
  BY <1>1, <1>2, <1>4, <1>5, CalmTypes DEF Sound, Brought, ReachKept, Kept
<1>8. ASSUME NEW a \in DOMAIN shown \ missed, kind.entityOf[a] \in Range(entities)
      PROVE shown[a] = IF a = "isReachable" THEN reach ELSE value[a]
  <2>1. /\ TypeOK /\ kind \in Kinds /\ None \notin Range(entities)
        /\ DOMAIN value = Range(kind.attributes)
    BY CalmTypes
  <2>2. a \in DOMAIN kind.entityOf BY <2>1 DEF TypeOK
  <2>3. a \in Mapped BY <1>8, <2>1, <2>2 DEF Mapped
  <2>4. shown[a] = cache[a] BY <1>1, <1>2, <1>5, <1>8, <2>3 DEF Sound, Showing, Shows
  <2>5. a = "isReachable" \/ a \in DOMAIN value
    BY <2>1, <2>2, DeviceSyncAssumption
  <2> QED BY <1>7, <2>4, <2>5
<1> QED BY <1>6, <1>8 DEF Accurate

\* When all is calm every entity and attribute whose latest update did not fail is
\* shown as it is (the dedup of orchestrator.py, the refresh after a device comes
\* back, the discovery after an outage), for every kind of device, every value and
\* any number of disturbances, unless the device can be lost without a message.
THEOREM CalmCorrect ==
  ASSUME "silent_loss" \notin Faults PROVE Spec => []CalmIsAccurate
<1>1. Init => TypeInv BY TypeStart, TypedIsTypeInv
<1>2. TypeInv /\ [Next]_vars => TypeInv' BY TypeStep
<1>3. Init => CalmInv BY CalmStart, SoundIsCalmInv
<1>4. TypeInv /\ CalmInv /\ [Next]_vars => CalmInv' BY CalmStep
<1>5. TypeInv /\ CalmInv => CalmIsAccurate BY CalmAccurate
<1> QED BY <1>1, <1>2, <1>3, <1>4, <1>5, PTL DEF Spec

=============================================================================
