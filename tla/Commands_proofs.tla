---------------------------- MODULE Commands_proofs ----------------------------
(***************************************************************************)
(* Discovery and commands, for any homes and any number of commands in     *)
(* flight: nothing that is discovered lacks an entity, every entity gets a *)
(* state, all shown is the hub's when all is handled, a command that       *)
(* nothing else interfered with is applied as a whole, and Home Assistant  *)
(* ends up showing what it asked for.                                      *)
(***************************************************************************)
EXTENDS Commands, Mapping_proofs, ExtremaLemmas, SequenceTheorems

-----------------------------------------------------------------------------
(***************************************************************************)
(* Sequences                                                               *)
(***************************************************************************)

IsSeq(s) == s \in Seq(Range(s))

LEMMA SeqIs ==
    ASSUME NEW S, NEW s \in Seq(S)
    PROVE /\ IsSeq(s) /\ Range(s) \subseteq S /\ Len(s) \in Nat /\ DOMAIN s = 1..Len(s)
          /\ Range(s) = {s[n] : n \in 1..Len(s)}
<1>1. Len(s) \in Nat /\ DOMAIN s = 1..Len(s) /\ \A n \in 1..Len(s) : s[n] \in S
  OBVIOUS
<1>2. Range(s) = {s[n] : n \in 1..Len(s)}
  BY <1>1 DEF Range
<1>3. s \in Seq(Range(s))
  BY <1>1, <1>2
<1> QED BY <1>1, <1>2, <1>3 DEF IsSeq

LEMMA ConcatIs ==
    ASSUME NEW s, NEW t, IsSeq(s), IsSeq(t)
    PROVE IsSeq(s \o t) /\ Range(s \o t) = Range(s) \union Range(t)
<1> DEFINE S == Range(s) \union Range(t)
<1>1. Range(s) \subseteq S /\ Range(t) \subseteq S
  OBVIOUS
<1>2. Len(s) \in Nat /\ Len(t) \in Nat /\ Range(s) = {s[n] : n \in 1..Len(s)}
      /\ Range(t) = {t[n] : n \in 1..Len(t)}
  BY SeqIs DEF IsSeq
<1> HIDE DEF S
<1>3. s \in Seq(S) /\ t \in Seq(S)
  BY <1>1 DEF IsSeq
<1> DEFINE r == s \o t
<1>4. /\ r \in Seq(S) /\ Len(r) = Len(s) + Len(t)
      /\ \A n \in 1..Len(s) : r[n] = s[n]
      /\ \A n \in 1..Len(t) : r[Len(s) + n] = t[n]
  BY <1>3
<1> HIDE DEF r
<1>5. IsSeq(r) /\ Range(r) \subseteq S /\ Range(r) = {r[n] : n \in 1..Len(r)}
  BY <1>4, SeqIs
<1>6. \A n \in 1..Len(s) : n \in 1..Len(r)
  BY <1>2, <1>4
<1>7. \A n \in 1..Len(t) : Len(s) + n \in 1..Len(r)
  BY <1>2, <1>4
<1>8. Range(s) \subseteq Range(r) /\ Range(t) \subseteq Range(r)
  BY <1>2, <1>4, <1>5, <1>6, <1>7
<1> QED BY <1>5, <1>8 DEF S, r

LEMMA TailIs ==
    ASSUME NEW s, IsSeq(s), s # <<>>
    PROVE /\ IsSeq(Tail(s)) /\ Head(s) \in Range(s)
          /\ Range(s) = {Head(s)} \union Range(Tail(s))
<1> DEFINE S == Range(s)
           t == Tail(s)
<1>1. Len(s) \in Nat /\ S = {s[n] : n \in 1..Len(s)}
  BY SeqIs DEF IsSeq
<1>2. s \in Seq(S)
  BY DEF IsSeq
<1> HIDE DEF S
<1>3. /\ t \in Seq(S) /\ Len(t) = Len(s) - 1 /\ Len(s) > 0 /\ Head(s) = s[1]
      /\ \A n \in 1..Len(t) : t[n] = s[n + 1]
  BY <1>2
<1> HIDE DEF t
<1>4. IsSeq(t) /\ Range(t) = {t[n] : n \in 1..Len(t)}
  BY <1>3, SeqIs
<1>5. \A n \in 1..Len(t) : n + 1 \in 1..Len(s)
  BY <1>1, <1>3
<1>6. ASSUME NEW n \in 1..Len(s), n # 1 PROVE s[n] \in Range(t)
  <2>1. n - 1 \in 1..Len(t) /\ (n - 1) + 1 = n
    BY <1>1, <1>3, <1>6
  <2>2. t[n - 1] = s[n]
    BY <1>3, <2>1
  <2> QED BY <1>4, <2>1, <2>2
<1>7. 1 \in 1..Len(s)
  BY <1>1, <1>3
<1>8. Range(t) \subseteq S
  BY <1>1, <1>3, <1>4, <1>5
<1>9. S = {s[1]} \union Range(t)
  BY <1>1, <1>6, <1>7, <1>8
<1> QED BY <1>1, <1>3, <1>4, <1>7, <1>9 DEF S, t

\* SetToSeq() lists all of a finite set.
LEMMA SetToSeqIs ==
    ASSUME NEW S, IsFiniteSet(S)
    PROVE IsSeq(SetToSeq(S)) /\ Range(SetToSeq(S)) = S
<1> DEFINE n == Cardinality(S)
           D == 1..n
           s == SetToSeq(S)
<1>1. n \in Nat /\ ExistsBijection(D, S)
  BY FS_CardinalityType
<1>2. IsFiniteSet(D) /\ Cardinality(D) = n
  BY <1>1, FS_Interval
<1>3. \E f \in [D -> S] : IsInjective(f)
  BY <1>1 DEF ExistsBijection, Bijection, Injection
<1>4. s \in [D -> S] /\ IsInjective(s)
  <2>1. s = CHOOSE f \in [D -> S] : IsInjective(f)
    BY DEF SetToSeq
  <2> HIDE DEF D, s
  <2> QED BY <1>3, <2>1
<1> HIDE DEF s, D
<1>5. s \in Injection(D, S)
  BY <1>4 DEF Injection
<1>6. s \in Surjection(D, S)
  BY <1>2, <1>5, FS_Injection
<1>7. Range(s) = S
  BY <1>6 DEF Surjection, Range
<1>8. s \in Seq(S)
  BY <1>1, <1>4 DEF D
<1> QED BY <1>7, <1>8, SeqIs DEF s

LEMMA RangeIsFinite ==
    ASSUME NEW f, IsFiniteSet(DOMAIN f), f = [x \in DOMAIN f |-> f[x]]
    PROVE IsFiniteSet(Range(f))
<1>1. f \in Surjection(DOMAIN f, Range(f))
  BY DEF Surjection, Range
<1> QED BY <1>1, FS_Surjection

\* FlattenSeq() has the elements of all the sequences: its recursive function
\* exists, and is what it should be, up to the least place where it would not.
LEMMA FlattenIs ==
    ASSUME NEW S, NEW ss \in Seq(Seq(S))
    PROVE /\ FlattenSeq(ss) \in Seq(S)
          /\ Range(FlattenSeq(ss)) = UNION {Range(ss[i]) : i \in 1..Len(ss)}
<1> DEFINE N == Len(ss)
           Step(g, i) == IF i = 1 THEN ss[i] ELSE g[i - 1] \o ss[i]
<1>1. N \in Nat /\ \A i \in 1..N : ss[i] \in Seq(S)
  OBVIOUS
<1>2. CASE N = 0
  <2>1. ss = <<>> /\ FlattenSeq(ss) = ss
    BY <1>2 DEF FlattenSeq
  <2>2. 1..Len(ss) = {} /\ Range(ss) = {}
    BY <1>1, <1>2 DEF Range
  <2>3. UNION {Range(ss[i]) : i \in 1..Len(ss)} = {} /\ ss \in Seq(S)
    BY <2>1, <2>2
  <2> QED BY <2>1, <2>2, <2>3
<1>3. CASE N # 0
  <2> DEFINE Holds(g, m) == /\ g = [i \in 1..m |-> Step(g, i)]
                            /\ \A i \in 1..m : g[i] \in Seq(S)
             Exists(m) == \E g : Holds(g, m)
  <2>1. Exists(N)
    <3> DEFINE Bad == {m \in 1..N : ~ Exists(m)}
    <3> HIDE DEF Exists
    <3> SUFFICES ASSUME Bad # {} PROVE FALSE
      BY <1>1, <1>3, SMTT(30)
    <3>1. PICK m \in Bad : \A k \in Bad : m <= k
      <4>1. Bad \subseteq Nat
        BY <1>1
      <4> HIDE DEF Bad
      <4> QED BY <4>1, LeastElement
    <3>2. CASE m = 1
      <4> DEFINE g == [i \in 1..1 |-> ss[1]]
      <4>1. Holds(g, 1)
        BY <1>1, <3>1
      <4> QED BY <3>1, <3>2, <4>1 DEF Exists
    <3>3. CASE m # 1
      <4>1. m - 1 \in 1..N /\ ~ (m <= m - 1) /\ m \in 1..N
        BY <1>1, <3>1, <3>3
      <4>2. PICK h : Holds(h, m - 1)
        BY <3>1, <4>1 DEF Exists
      <4> DEFINE g == [i \in 1..m |-> IF i = m THEN h[m - 1] \o ss[m] ELSE h[i]]
      <4>3. \A i \in 1..m : i # m => /\ i \in 1..(m - 1)
                                     /\ i # 1 => i - 1 \in 1..(m - 1) /\ i - 1 \in 1..m
                                                 /\ i - 1 # m
        BY <1>1, <4>1
      <4>4. m - 1 \in 1..(m - 1) /\ m - 1 \in 1..m /\ m - 1 # m
        BY <1>1, <4>1
      <4>5. ASSUME NEW i \in 1..m PROVE g[i] \in Seq(S) /\ g[i] = Step(g, i)
        <5>1. CASE i = m
          <6>1. g[i - 1] = h[m - 1]
            BY <4>4, <5>1
          <6>2. h[m - 1] \in Seq(S) /\ ss[m] \in Seq(S)
            BY <1>1, <4>1, <4>2, <4>4
          <6>3. h[m - 1] \o ss[m] \in Seq(S)
            BY <6>2
          <6> QED BY <3>3, <5>1, <6>1, <6>3
        <5>2. CASE i # m
          <6>1. h[i] \in Seq(S) /\ h[i] = Step(h, i)
            BY <4>2, <4>3, <5>2
          <6>2. i # 1 => g[i - 1] = h[i - 1]
            BY <4>3, <5>2
          <6> QED BY <5>2, <6>1, <6>2
        <5> QED BY <5>1, <5>2
      <4>6. Holds(g, m)
        BY <4>5
      <4> HIDE DEF g
      <4> QED BY <3>1, <4>6 DEF Exists
    <3> QED BY <3>2, <3>3
  <2> DEFINE F == CHOOSE g : g = [i \in 1..N |-> Step(g, i)]
  <2>2. F = [i \in 1..N |-> Step(F, i)]
    BY <2>1
  <2>3. FlattenSeq(ss) = F[N]
    BY <1>3 DEF FlattenSeq
  <2> HIDE DEF F
  <2> DEFINE Upto(i) == UNION {Range(ss[k]) : k \in 1..i}
             Good(i) == F[i] \in Seq(S) /\ Range(F[i]) = Upto(i)
             Bad == {i \in 1..N : ~ Good(i)}
  <2>4. ASSUME Bad # {} PROVE FALSE
    <3>1. PICK m \in Bad : \A k \in Bad : m <= k
      <4>1. Bad \subseteq Nat
        BY <1>1
      <4> HIDE DEF Bad
      <4> QED BY <2>4, <4>1, LeastElement
    <3>2. m \in 1..N /\ F[m] = Step(F, m) /\ ss[m] \in Seq(S)
      BY <1>1, <2>2, <3>1
    <3>3. CASE m = 1
      <4>1. 1..1 = {1}
        OBVIOUS
      <4>2. Good(m)
        BY <3>2, <3>3, <4>1
      <4> QED BY <3>1, <4>2
    <3>4. CASE m # 1
      <4>1. m - 1 \in 1..N /\ ~ (m <= m - 1) /\ 1..m = 1..(m - 1) \union {m}
        BY <1>1, <3>2, <3>4
      <4>2. F[m - 1] \in Seq(S) /\ Range(F[m - 1]) = Upto(m - 1)
        BY <3>1, <4>1
      <4>3. Upto(m) = Upto(m - 1) \union Range(ss[m])
        BY <4>1
      <4>4. F[m] = F[m - 1] \o ss[m]
        BY <3>2, <3>4
      <4> DEFINE p == F[m - 1]
                 q == ss[m]
      <4>5. p \in Seq(S) /\ q \in Seq(S)
        BY <3>2, <4>2
      <4> HIDE DEF p, q
      <4>6. p \o q \in Seq(S) /\ Range(p \o q) = Range(p) \union Range(q)
        BY <4>5, SeqIs, ConcatIs
      <4>7. Good(m)
        BY <4>2, <4>3, <4>4, <4>6 DEF p, q
      <4> QED BY <3>1, <4>7
    <3> QED BY <3>3, <3>4
  <2>5. Good(N)
    <3>1. N \in 1..N
      BY <1>1, <1>3
    <3> HIDE DEF Good, N
    <3> QED BY <2>4, <3>1
  <2> QED BY <2>3, <2>5
<1> QED BY <1>2, <1>3

-----------------------------------------------------------------------------
(***************************************************************************)
(* Homes                                                                   *)
(***************************************************************************)

LEMMA HomeIs ==
    ASSUME home \in Homes
    PROVE /\ home \in Seq(Range(home)) /\ Len(home) \in Nat /\ DOMAIN home = 1..Len(home)
          /\ \A i \in DOMAIN home :
                /\ home[i].extra \in Seq(DOMAIN home[i].attrs)
                /\ Range(home[i].extra) = DOMAIN home[i].attrs \ DOMAIN Typed
          /\ \A i, j \in DOMAIN home : home[i].id = home[j].id => i = j
<1> DEFINE S == Range(home)
<1>1. home \in Seq(S)
  BY DeviceMappingAssumption
<1> HIDE DEF S
<1>2. Len(home) \in Nat /\ DOMAIN home = 1..Len(home)
  BY <1>1
<1>3. \A i \in DOMAIN home :
          /\ home[i].extra \in Seq(DOMAIN home[i].attrs)
          /\ Range(home[i].extra) = DOMAIN home[i].attrs \ DOMAIN Typed
  BY DeviceMappingAssumption
<1>4. \A i, j \in DOMAIN home : home[i].id = home[j].id => i = j
  BY DeviceMappingAssumption
<1> QED BY <1>1, <1>2, <1>3, <1>4 DEF S

-----------------------------------------------------------------------------
(***************************************************************************)
(* The hub                                                                 *)
(***************************************************************************)

\* The battery level among attributes is a percentage.
Level(attrs) == "batteryPercentage" \in DOMAIN attrs => attrs["batteryPercentage"] \in 0..100

\* The hub keeps the attributes it has listed of each unit.
HubInv ==
    /\ home \in Homes
    /\ hub = [u \in Units |-> hub[u]]
    /\ \A u \in Units : DOMAIN hub[u] = DOMAIN Unit(u).attrs /\ Level(hub[u])

LEMMA UnitListed ==
    ASSUME NEW u \in Units
    PROVE \E i \in DOMAIN home : home[i].id = u /\ Unit(u) = home[i]
BY DEF Units, Unit

\* HubSets() sets what it is given to, on that unit, and no more; only a battery
\* level is set on other units as well.
LEMMA HubSetsOnly ==
    ASSUME HubInv, NEW u \in Units, NEW new, Level(new), HubSets(u, new), home' = home
    PROVE /\ HubInv'
          /\ \A a \in DOMAIN new \intersect DOMAIN hub[u] : hub'[u][a] = new[a]
          /\ \A w \in Units : \A a \in DOMAIN hub[w] :
                a # "batteryPercentage" /\ (w # u \/ a \notin DOMAIN new) => hub'[w][a] = hub[w][a]
<1> DEFINE news == {a \in DOMAIN new : hub[u][a] # new[a]}
<1>1. hub' = [w \in Units |-> [a \in DOMAIN hub[w] |->
                 IF a \in news /\ w \in Reporters(u, a) THEN new[a] ELSE hub[w][a]]]
  BY DEF HubSets
<1>2. Units' = Units /\ \A w : Unit(w)' = Unit(w)
  BY DEF Units, Unit
<1>3. \A w \in Units : /\ DOMAIN hub'[w] = DOMAIN hub[w]
                       /\ \A a \in DOMAIN hub[w] : hub'[w][a] =
                             IF a \in news /\ w \in Reporters(u, a) THEN new[a] ELSE hub[w][a]
  BY <1>1
<1>4. ASSUME NEW w \in Units PROVE Level(hub'[w])
  BY <1>3, <1>4 DEF HubInv, Level
<1>5. HubInv'
  BY <1>1, <1>2, <1>3, <1>4 DEF HubInv
<1>6. ASSUME NEW a \in DOMAIN new \intersect DOMAIN hub[u] PROVE hub'[u][a] = new[a]
  <2>1. u \in Reporters(u, a)
    BY <1>6 DEF Reporters
  <2> QED BY <1>3, <1>6, <2>1
<1>7. ASSUME NEW w \in Units, NEW a \in DOMAIN hub[w], a # "batteryPercentage",
             w # u \/ a \notin DOMAIN new
      PROVE hub'[w][a] = hub[w][a]
  <2>1. Reporters(u, a) = {u}
    BY <1>7 DEF Reporters
  <2> QED BY <1>3, <1>7, <2>1
<1> QED BY <1>5, <1>6, <1>7

-----------------------------------------------------------------------------
(***************************************************************************)
(* Discovery                                                               *)
(***************************************************************************)

\* A discovery registers all that the handlers make of what it fetches.
FetchInv ==
    \/ fetched = NoCache
    \/ \A u \in Units :
          /\ "batteryPercentage" \in DOMAIN Unit(u).attrs
                => fetched[u]["batteryPercentage"] \in 0..100
          /\ "batteryPercentage" \notin DOMAIN Unit(u).attrs
                => fetched[u]["batteryPercentage"] = None
          /\ "batteryPercentage" \in DOMAIN fetched[u]
          /\ MapDevice(TypeOf(u), u, fetched[u]) \subseteq entities

LEMMA RawBattery ==
    ASSUME NEW attrs
    PROVE /\ "batteryPercentage" \in DOMAIN RawAttributes(attrs)
          /\ RawAttributes(attrs)["batteryPercentage"] =
                IF "batteryPercentage" \in DOMAIN attrs THEN attrs["batteryPercentage"] ELSE None
BY DEF RawAttributes, Typed

LEMMA DiscoverFetches ==
    ASSUME HubInv, FetchInv, Discover
    PROVE FetchInv'
<1>1. /\ fetched' = [u \in Units |-> RawAttributes(hub[u])]
      /\ entities' = entities \union
            UNION {MapDevice(TypeOf(u), u, RawAttributes(hub[u])) : u \in Units}
      /\ home' = home
  BY DEF Discover
<1>2. Units' = Units /\ \A w : Unit(w)' = Unit(w) /\ TypeOf(w)' = TypeOf(w)
  BY <1>1 DEF Units, Unit, TypeOf
<1>3. ASSUME NEW u \in Units
      PROVE /\ "batteryPercentage" \in DOMAIN Unit(u).attrs
                  => fetched'[u]["batteryPercentage"] \in 0..100
            /\ "batteryPercentage" \notin DOMAIN Unit(u).attrs
                  => fetched'[u]["batteryPercentage"] = None
            /\ "batteryPercentage" \in DOMAIN fetched'[u]
            /\ MapDevice(TypeOf(u), u, fetched'[u]) \subseteq entities'
  <2>1. fetched'[u] = RawAttributes(hub[u])
    BY <1>1
  <2>2. DOMAIN hub[u] = DOMAIN Unit(u).attrs /\ Level(hub[u])
    BY DEF HubInv
  <2>3. MapDevice(TypeOf(u), u, RawAttributes(hub[u])) \subseteq entities'
    BY <1>1
  <2> QED BY <2>1, <2>2, <2>3, RawBattery DEF Level
<1> QED BY <1>2, <1>3 DEF FetchInv

\* A unit of no known type publishes nothing.
LEMMA UnknownType ==
    ASSUME NEW type, type \notin DOMAIN Registry, NEW u, NEW a, NEW v, NEW attrs
    PROVE MapState(type, u, a, v, attrs) = None
BY TypesKnown DEF MapState

LEMMA FirstHasBattery ==
    ASSUME HubInv, NEW u \in Units, TypeOf(u) = "environmentSensor", ~ OwnsBattery(u),
           "batteryPercentage" \in DOMAIN Unit(u).attrs
    PROVE LET w == <<u[1], 1>>
          IN w \in Units /\ TypeOf(w) = "environmentSensor" /\ OwnsBattery(w)
             /\ "batteryPercentage" \in DOMAIN Unit(w).attrs
<1> DEFINE w == <<u[1], 1>>
<1>1. PICK i \in DOMAIN home : home[i].id = u /\ Unit(u) = home[i]
  BY UnitListed
<1>2. PICK j \in DOMAIN home : /\ home[j].id = w /\ home[j].type = "environmentSensor"
                               /\ "batteryPercentage" \in DOMAIN home[j].attrs
  BY <1>1, BatteryAssumption, ZenonT(40) DEF HubInv, TypeOf
<1>3. w \in Units
  BY <1>2 DEF Units
<1>4. PICK k \in DOMAIN home : home[k].id = w /\ Unit(w) = home[k]
  BY <1>3, UnitListed
<1>5. k = j
  BY <1>2, <1>4, HomeIs DEF HubInv
<1>6. OwnsBattery(w)
  BY DEF OwnsBattery
<1> QED BY <1>2, <1>3, <1>4, <1>5, <1>6 DEF TypeOf

LEMMA FetchedIsDelivered ==
    ASSUME HubInv, FetchInv PROVE Delivered
<1> SUFFICES ASSUME NEW u \in Units, NEW a \in DOMAIN fetched[u], fetched[u][a] # None,
                    MapState(TypeOf(u), u, a, fetched[u][a], fetched[u]) # None
             PROVE MapState(TypeOf(u), u, a, fetched[u][a], fetched[u]).entity \in entities
  BY DEF Delivered
<1> DEFINE type == TypeOf(u)
           entity == MapState(type, u, a, fetched[u][a], fetched[u]).entity
<1>1. fetched # NoCache
  BY DEF NoCache
<1>2. \A w \in Units :
          /\ "batteryPercentage" \in DOMAIN Unit(w).attrs
                => fetched[w]["batteryPercentage"] \in 0..100
          /\ "batteryPercentage" \notin DOMAIN Unit(w).attrs
                => fetched[w]["batteryPercentage"] = None
          /\ "batteryPercentage" \in DOMAIN fetched[w]
          /\ MapDevice(TypeOf(w), w, fetched[w]) \subseteq entities
  BY <1>1 DEF FetchInv
<1>3. type \in DOMAIN Registry
  BY UnknownType
<1>4. Given(fetched[u], a)
  BY DEF Given
<1>5. \A w \in Units : ~ Raises(TypeOf(w), w, fetched[w])
  BY <1>2 DEF Raises, HasBattery, Given
<1>6. \/ entity \in MapDevice(type, u, fetched[u])
      \/ /\ type = "environmentSensor" /\ a = "batteryPercentage"
         /\ ~ OwnsBattery(u) /\ entity = <<<<u[1], 1>>, "battery">>
  BY <1>3, <1>4, <1>5, HandlersCoverMapper
<1>7. CASE entity \in MapDevice(type, u, fetched[u])
  BY <1>2, <1>7
<1>8. CASE /\ type = "environmentSensor" /\ a = "batteryPercentage"
           /\ ~ OwnsBattery(u) /\ entity = <<<<u[1], 1>>, "battery">>
  <2> DEFINE w == <<u[1], 1>>
  <2>1. "batteryPercentage" \in DOMAIN Unit(u).attrs
    BY <1>2, <1>8
  <2>2. /\ w \in Units /\ TypeOf(w) = "environmentSensor" /\ OwnsBattery(w)
        /\ "batteryPercentage" \in DOMAIN Unit(w).attrs
    BY <1>8, <2>1, FirstHasBattery
  <2>3. Given(fetched[w], "batteryPercentage")
    BY <1>2, <2>2, NoneAssumption DEF Given
  <2>4. Made("environmentSensor", "batteryPercentage", "battery")
    BY HandlerOf DEF Made, EnvironmentSensor
  <2>5. "environmentSensor" \in DOMAIN Registry
    BY TypesKnown
  <2>6. <<w, "battery">> \in MapDevice("environmentSensor", w, fetched[w])
    BY <1>5, <2>2, <2>3, <2>4, <2>5, MadeIsMapped
  <2> QED BY <1>2, <1>8, <2>2, <2>6
<1> QED BY <1>6, <1>7, <1>8

-----------------------------------------------------------------------------
(***************************************************************************)
(* Commands                                                                *)
(***************************************************************************)

\* All that a command may set.
Settable ==
    {"isOn", "lightLevel", "colorTemperature", "colorHue", "colorSaturation",
     "currentLevel", "fanMode", "playback", "volume"}

LEMMA SettableIsFinite == IsFiniteSet(Settable)
<1>1. Settable = {"isOn"} \union {"lightLevel"} \union {"colorTemperature"}
                   \union {"colorHue"} \union {"colorSaturation"} \union {"currentLevel"}
                   \union {"fanMode"} \union {"playback"} \union {"volume"}
  BY DEF Settable
<1> QED BY <1>1, FS_Singleton, FS_Union

LEMMA LightCommandSets ==
    ASSUME NEW p, LightCommand(p) # None
    PROVE DOMAIN LightCommand(p) \subseteq Settable \ {"playback"}
<1>1. CASE p \in {Word("ON"), Word("OFF")}
  <2>1. LightCommand(p) = Power(p)
    BY <1>1 DEF LightCommand, Word, IsNumber
  <2>2. DOMAIN Power(p) = {"isOn"}
    BY DEF Power
  <2> QED BY <2>1, <2>2 DEF Settable
<1>2. CASE p \notin {Word("ON"), Word("OFF")} /\ p[1] = "object"
  <2> DEFINE fields == LightFields(p[2])
  <2>1. LightCommand(p) = IF DOMAIN fields = {} THEN None ELSE fields
    BY <1>2 DEF LightCommand, IsNumber
  <2>2. LightCommand(p) = fields
    BY <2>1
  <2>3. DOMAIN fields \subseteq {LightAttribute[k] : k \in DOMAIN LightAttribute}
    BY DEF LightFields
  <2> QED BY <2>2, <2>3 DEF LightAttribute, Settable
<1>3. CASE p \notin {Word("ON"), Word("OFF")} /\ p[1] # "object" /\ IsNumber(p, 1, 100)
  BY <1>3 DEF LightCommand, Settable
<1>4. CASE p \notin {Word("ON"), Word("OFF")} /\ p[1] # "object" /\ ~ IsNumber(p, 1, 100)
  BY <1>4 DEF LightCommand
<1> QED BY <1>1, <1>2, <1>3, <1>4

LEMMA SwitchCommandSets ==
    ASSUME NEW p, SwitchCommand(p) # None
    PROVE DOMAIN SwitchCommand(p) \subseteq Settable
BY DEF SwitchCommand, Power, Settable

LEMMA BlindCommandSets ==
    ASSUME NEW p, BlindCommand(p) # None
    PROVE DOMAIN BlindCommand(p) \subseteq Settable
BY DEF BlindCommand, Settable

LEMMA AirPurifierCommandSets ==
    ASSUME NEW p, AirPurifierCommand(p) # None
    PROVE DOMAIN AirPurifierCommand(p) \subseteq Settable
BY DEF AirPurifierCommand, Settable

LEMMA SpeakerCommandSets ==
    ASSUME NEW p, SpeakerCommand(p) # None
    PROVE DOMAIN SpeakerCommand(p) \subseteq Settable
BY DEF SpeakerCommand, Power, Settable

LEMMA CommandSets ==
    ASSUME NEW type, NEW p, MapCommand(type, p) # None
    PROVE DOMAIN MapCommand(type, p) \subseteq Settable
<1>1. CASE type = "light"
  BY <1>1, LightCommandSets DEF MapCommand
<1>2. CASE type \in {"outlet", "switch"}
  BY <1>2, SwitchCommandSets DEF MapCommand
<1>3. CASE type \in {"blind", "blinds"}
  BY <1>3, BlindCommandSets DEF MapCommand
<1>4. CASE type = "airPurifier"
  BY <1>4, AirPurifierCommandSets DEF MapCommand
<1>5. CASE type = "speaker"
  BY <1>5, SpeakerCommandSets DEF MapCommand
<1>6. CASE type \notin {"light", "outlet", "switch", "blind", "blinds", "airPurifier", "speaker"}
  BY <1>6 DEF MapCommand
<1> QED BY <1>1, <1>2, <1>3, <1>4, <1>5, <1>6

\* The hub heeds all of a PATCH of Patches.
Heeded(patch) ==
    /\ DOMAIN patch \subseteq Settable
    /\ "isOn" \in DOMAIN patch => DOMAIN patch = {"isOn"}

\* The one or two PATCHes of a command are heeded, and together are the command.
LEMMA PatchesSplit ==
    ASSUME NEW attrs, DOMAIN attrs \subseteq Settable
    PROVE LET ps == Patches(attrs)
          IN \/ /\ ps = <<attrs>> /\ Heeded(attrs)
             \/ /\ ps = <<ps[1], ps[2]>> /\ Heeded(ps[1]) /\ Heeded(ps[2])
                /\ DOMAIN ps[1] \subseteq DOMAIN attrs /\ DOMAIN ps[2] \subseteq DOMAIN attrs
                /\ DOMAIN ps[1] \intersect DOMAIN ps[2] = {}
                /\ DOMAIN attrs = DOMAIN ps[1] \union DOMAIN ps[2]
                /\ \A a \in DOMAIN ps[1] : ps[1][a] = attrs[a]
                /\ \A a \in DOMAIN ps[2] : ps[2][a] = attrs[a]
<1> DEFINE ps == Patches(attrs)
           split == "isOn" \in DOMAIN attrs /\ Cardinality(DOMAIN attrs) > 1
           first == Only(attrs, {"isOn"})
           rest == Only(attrs, DOMAIN attrs \ {"isOn"})
<1>1. CASE split
  <2>1. ps = <<first, rest>>
    BY <1>1 DEF Patches
  <2>2. /\ DOMAIN first = {"isOn"} /\ DOMAIN rest = DOMAIN attrs \ {"isOn"}
        /\ \A a \in DOMAIN first : first[a] = attrs[a]
        /\ \A a \in DOMAIN rest : rest[a] = attrs[a]
    BY <1>1 DEF Only
  <2>3. ps[1] = first /\ ps[2] = rest
    BY <2>1
  <2>4. Heeded(first) /\ Heeded(rest)
    BY <2>2 DEF Heeded, Settable
  <2> QED BY <2>1, <2>2, <2>3, <2>4, <1>1
<1>2. CASE ~ split
  <2>1. ps = <<attrs>>
    BY <1>2 DEF Patches
  <2>2. ASSUME "isOn" \in DOMAIN attrs PROVE DOMAIN attrs = {"isOn"}
    <3>2. IsFiniteSet(DOMAIN attrs)
      BY SettableIsFinite, FS_Subset
    <3>3. Cardinality(DOMAIN attrs) \in Nat /\ Cardinality(DOMAIN attrs) <= 1
      BY <1>2, <2>2, <3>2, FS_CardinalityType
    <3>4. IsFiniteSet({"isOn"}) /\ Cardinality({"isOn"}) = 1
      BY FS_Singleton
    <3> QED BY <2>2, <3>2, <3>3, <3>4, FS_Subset
  <2> QED BY <2>1, <2>2 DEF Heeded
<1> QED BY <1>1, <1>2

LEMMA PatchSequences ==
    ASSUME NEW x, NEW y
    PROVE /\ Head(<<x>>) = x /\ Len(<<x>>) = 1
          /\ Head(<<x, y>>) = x /\ Tail(<<x, y>>) = <<y>> /\ Len(<<x, y>>) = 2
  OBVIOUS

-----------------------------------------------------------------------------
(***************************************************************************)
(* Flights                                                                 *)
(***************************************************************************)
Asked(u, p) == MapCommand(TypeOf(u), p)

\* Unit u of hub h has what a PATCH sets.
Applied(h, u, patch) ==
    \A a \in DOMAIN patch :
        (a = "playback" /\ patch[a] \in Momentary) \/ h[u][a] = patch[a]

IsFlight(f) ==
    /\ f = [unit |-> f.unit, payload |-> f.payload, left |-> f.left,
            there |-> f.there, alone |-> f.alone]
    /\ f.there \in BOOLEAN /\ f.alone \in BOOLEAN

\* A command in flight has all its PATCHes left, or the second of two.
OpenFlight(f) ==
    /\ f.unit \in Units /\ f.payload \in Vocabulary[f.unit] /\ Asked(f.unit, f.payload) # None
    /\ LET ps == Patches(Asked(f.unit, f.payload))
       IN f.left = ps \/ (Len(ps) = 2 /\ f.left = Tail(ps))

FlightInv ==
    /\ flight = [s \in Slots |-> flight[s]]
    /\ \A s \in Slots : IsFlight(flight[s]) /\ (Goes(s) => OpenFlight(flight[s]))

LateInv == \A l \in late : l.unit \in Units /\ Heeded(l.attrs)

\* A command that nothing has interfered with is the only one of its unit, and
\* the hub has of it what it was sent.
AloneInv ==
    \A s \in Slots : Goes(s) /\ flight[s].alone =>
        LET f == flight[s]
            ps == Patches(Asked(f.unit, f.payload))
        IN /\ \A r \in Slots \ {s} : Goes(r) => flight[r].unit # f.unit
           /\ \A l \in late : l.unit # f.unit
           /\ f.left # ps => Applied(hub, f.unit, ps[1])
           /\ f.there => Applied(hub, f.unit, Head(f.left))

\* A command known to be done is, and nothing is under way that could undo it.
SureInv ==
    /\ sure = [u \in Units |-> sure[u]]
    /\ \A u \in Units : sure[u] # None =>
          /\ sure[u] \in Vocabulary[u] /\ Asked(u, sure[u]) # None
          /\ \A s \in Slots : Goes(s) => flight[s].unit # u
          /\ \A l \in late : l.unit # u
          /\ Applied(hub, u, Asked(u, sure[u]))

CommandInv == FlightInv /\ LateInv /\ AloneInv /\ SureInv

\* Of a unit the hub has all that a command asks of it.
LEMMA AskedIsListed ==
    ASSUME HubInv, NEW u \in Units, NEW p \in Vocabulary[u], Asked(u, p) # None
    PROVE \A a \in DOMAIN Asked(u, p) :
             (a = "playback" /\ Asked(u, p)[a] \in Momentary) \/ a \in DOMAIN hub[u]
<1>1. PICK i \in DOMAIN home : home[i].id = u /\ Unit(u) = home[i]
  BY UnitListed
<1>2. Asked(u, p) = MapCommand(home[i].type, p) /\ DOMAIN hub[u] = DOMAIN home[i].attrs
  BY <1>1 DEF Asked, TypeOf, HubInv
<1> QED BY <1>1, <1>2, VocabularyAssumption DEF HubInv

\* The stages of a command: one PATCH, the first of two, the second of two.
LEMMA Stages ==
    ASSUME HubInv, NEW f, OpenFlight(f)
    PROVE LET attrs == Asked(f.unit, f.payload)
              ps == Patches(attrs)
          IN /\ DOMAIN attrs \subseteq Settable
             /\ Heeded(Head(f.left))
             /\ \A a \in DOMAIN Head(f.left) :
                   a \in DOMAIN attrs /\ Head(f.left)[a] = attrs[a]
             /\ \/ f.left = ps /\ Len(f.left) = 1 /\ Head(f.left) = attrs
                \/ /\ f.left = ps /\ Len(f.left) = 2 /\ Len(Tail(f.left)) = 1
                   /\ Head(f.left) = ps[1] /\ Tail(f.left) = Tail(ps) /\ Tail(f.left) # ps
                   /\ Len(ps) = 2
                \/ /\ f.left # ps /\ f.left = Tail(ps) /\ Len(f.left) = 1 /\ Len(ps) = 2
                   /\ DOMAIN attrs = DOMAIN ps[1] \union DOMAIN Head(f.left)
                   /\ DOMAIN ps[1] \intersect DOMAIN Head(f.left) = {}
                   /\ \A a \in DOMAIN ps[1] : ps[1][a] = attrs[a]
<1> DEFINE attrs == Asked(f.unit, f.payload)
           ps == Patches(attrs)
<1>1. DOMAIN attrs \subseteq Settable
  BY CommandSets DEF OpenFlight, Asked
<1>2. f.left = ps \/ (Len(ps) = 2 /\ f.left = Tail(ps))
  BY DEF OpenFlight
<1>3. CASE ps = <<attrs>> /\ Heeded(attrs)
  <2>1. Len(ps) = 1 /\ Head(ps) = attrs
    BY <1>3, PatchSequences
  <2>2. f.left = ps
    BY <1>2, <2>1
  <2> QED BY <1>1, <1>3, <2>1, <2>2
<1>4. CASE /\ ps = <<ps[1], ps[2]>> /\ Heeded(ps[1]) /\ Heeded(ps[2])
           /\ DOMAIN ps[1] \subseteq DOMAIN attrs /\ DOMAIN ps[2] \subseteq DOMAIN attrs
           /\ DOMAIN ps[1] \intersect DOMAIN ps[2] = {}
           /\ DOMAIN attrs = DOMAIN ps[1] \union DOMAIN ps[2]
           /\ \A a \in DOMAIN ps[1] : ps[1][a] = attrs[a]
           /\ \A a \in DOMAIN ps[2] : ps[2][a] = attrs[a]
  <2>1. /\ Len(ps) = 2 /\ Head(ps) = ps[1] /\ Tail(ps) = <<ps[2]>>
        /\ Len(<<ps[2]>>) = 1 /\ Head(<<ps[2]>>) = ps[2]
    <3>1. PICK x, y : x = ps[1] /\ y = ps[2] /\ ps = <<x, y>>
      BY <1>4
    <3> HIDE DEF ps
    <3> QED BY <3>1, PatchSequences
  <2>2. Tail(ps) # ps
    BY <2>1
  <2>3. CASE f.left = ps
    BY <1>1, <1>4, <2>1, <2>2, <2>3
  <2>4. CASE f.left = Tail(ps)
    BY <1>1, <1>4, <2>1, <2>2, <2>4
  <2> QED BY <1>2, <2>3, <2>4
<1>5. \/ /\ ps = <<attrs>> /\ Heeded(attrs)
      \/ /\ ps = <<ps[1], ps[2]>> /\ Heeded(ps[1]) /\ Heeded(ps[2])
         /\ DOMAIN ps[1] \subseteq DOMAIN attrs /\ DOMAIN ps[2] \subseteq DOMAIN attrs
         /\ DOMAIN ps[1] \intersect DOMAIN ps[2] = {}
         /\ DOMAIN attrs = DOMAIN ps[1] \union DOMAIN ps[2]
         /\ \A a \in DOMAIN ps[1] : ps[1][a] = attrs[a]
         /\ \A a \in DOMAIN ps[2] : ps[2][a] = attrs[a]
  <2> HIDE DEF attrs
  <2> QED BY <1>1, PatchesSplit
<1> QED BY <1>3, <1>4, <1>5

LEMMA HomeKept ==
    ASSUME home' = home
    PROVE /\ Units' = Units
          /\ \A u, p : Asked(u, p)' = Asked(u, p)
          /\ \A f : OpenFlight(f)' <=> OpenFlight(f)
<1>1. Units' = Units /\ \A u, p : Asked(u, p)' = Asked(u, p)
  BY DEF Units, Asked, TypeOf, Unit
<1> QED BY <1>1 DEF OpenFlight

\* What is applied stays, unless the hub changes it.
LEMMA AppliedStays ==
    ASSUME HubInv, NEW u \in Units, NEW p \in Vocabulary[u], Asked(u, p) # None,
           NEW patch, \A a \in DOMAIN patch : a \in DOMAIN Asked(u, p) /\ patch[a] = Asked(u, p)[a],
           Applied(hub, u, patch),
           \A a \in DOMAIN patch \intersect DOMAIN hub[u] : hub'[u][a] = hub[u][a]
    PROVE Applied(hub', u, patch)
BY AskedIsListed DEF Applied

LEMMA DisturbedSlots ==
    ASSUME FlightInv, NEW u
    PROVE LET g == Disturbed(flight, u)
          IN /\ g = [s \in Slots |-> g[s]]
             /\ \A s \in Slots :
                   /\ IsFlight(g[s])
                   /\ g[s] # Idle => Goes(s)
                   /\ g[s].unit = flight[s].unit /\ g[s].payload = flight[s].payload
                   /\ g[s].left = flight[s].left /\ g[s].there = flight[s].there
                   /\ g[s].alone => flight[s].alone /\ flight[s].unit # u
<1> DEFINE g == Disturbed(flight, u)
<1>1. g = [s \in Slots |-> IF flight[s].unit = u THEN [flight[s] EXCEPT !.alone = FALSE] ELSE flight[s]]
  BY DEF Disturbed
<1>2. ASSUME NEW s \in Slots
      PROVE /\ IsFlight(g[s])
            /\ g[s] # Idle => Goes(s)
            /\ g[s].unit = flight[s].unit /\ g[s].payload = flight[s].payload
            /\ g[s].left = flight[s].left /\ g[s].there = flight[s].there
            /\ g[s].alone => flight[s].alone /\ flight[s].unit # u
  <2> DEFINE f == flight[s]
  <2>1. IsFlight(f)
    BY DEF FlightInv
  <2>2. CASE f.unit = u
    <3>1. g[s] = [unit |-> f.unit, payload |-> f.payload, left |-> f.left,
                  there |-> f.there, alone |-> FALSE]
      BY <1>1, <2>1, <2>2 DEF IsFlight
    <3>2. f = Idle => g[s] = Idle
      BY <3>1 DEF Idle
    <3> QED BY <2>1, <3>1, <3>2 DEF IsFlight, Goes
  <2>3. CASE f.unit # u
    <3>1. g[s] = f
      BY <1>1, <2>3
    <3> QED BY <2>1, <2>3, <3>1 DEF Goes
  <2> QED BY <2>2, <2>3
<1> QED BY <1>1, <1>2

\* A step that starts no command and sends no PATCH on: commands may end or be
\* disturbed, PATCHes may be left behind, and what is known to be done may be
\* forgotten.  It must not change what the hub has of a unit that stays undisturbed.
Dwindles ==
    /\ home' = home
    /\ flight' = [s \in Slots |-> flight'[s]]
    /\ \A s \in Slots :
          /\ IsFlight(flight'[s])
          /\ flight'[s] # Idle =>
                /\ Goes(s) /\ flight'[s].unit = flight[s].unit
                /\ flight'[s].payload = flight[s].payload /\ flight'[s].left = flight[s].left
                /\ flight'[s].there = flight[s].there
                /\ flight'[s].alone => flight[s].alone
    /\ sure' = [u \in Units |-> sure'[u]]
    /\ \A u \in Units : sure'[u] # None => sure'[u] = sure[u]
    /\ \A l \in late' \ late :
          /\ l.unit \in Units /\ Heeded(l.attrs) /\ sure'[l.unit] = None
          /\ \A s \in Slots : flight'[s] # Idle /\ flight'[s].alone => flight'[s].unit # l.unit
    /\ \A u \in Units :
          \/ sure'[u] # None
          \/ \E s \in Slots : flight'[s] # Idle /\ flight'[s].alone /\ flight'[s].unit = u
          => \A a \in Settable \intersect DOMAIN hub[u] : hub'[u][a] = hub[u][a]

LEMMA DwindlesKeeps ==
    ASSUME HubInv, CommandInv, Dwindles
    PROVE CommandInv'
<1>1. /\ Units' = Units
      /\ \A u, p : Asked(u, p)' = Asked(u, p)
      /\ \A f : OpenFlight(f)' <=> OpenFlight(f)
  BY HomeKept DEF Dwindles
<1>2. FlightInv'
  <2>1. ASSUME NEW s \in Slots, flight'[s] # Idle PROVE OpenFlight(flight'[s])
    <3>1. OpenFlight(flight[s])
      BY <2>1 DEF Dwindles, CommandInv, FlightInv
    <3> QED BY <2>1, <3>1 DEF Dwindles, OpenFlight
  <2>2. \A s \in Slots : Goes(s)' <=> flight'[s] # Idle
    BY DEF Goes, Idle
  <2> QED BY <1>1, <2>1, <2>2 DEF Dwindles, FlightInv
<1>3. LateInv'
  BY <1>1 DEF Dwindles, CommandInv, LateInv, Heeded, Settable
<1>4. AloneInv'
  <2>1. ASSUME NEW s \in Slots, flight'[s] # Idle, flight'[s].alone,
               NEW f, f = flight'[s], NEW ps, ps = Patches(Asked(f.unit, f.payload))
        PROVE /\ \A r \in Slots \ {s} : flight'[r] # Idle => flight'[r].unit # f.unit
              /\ \A l \in late' : l.unit # f.unit
              /\ f.left # ps => Applied(hub', f.unit, ps[1])
              /\ f.there => Applied(hub', f.unit, Head(f.left))
    <3>1. /\ Goes(s) /\ flight[s].alone /\ flight[s].unit = f.unit
          /\ flight[s].payload = f.payload /\ flight[s].left = f.left /\ flight[s].there = f.there
      BY <2>1 DEF Dwindles
    <3>2. /\ \A r \in Slots \ {s} : Goes(r) => flight[r].unit # f.unit
          /\ \A l \in late : l.unit # f.unit
          /\ f.left # ps => Applied(hub, f.unit, ps[1])
          /\ f.there => Applied(hub, f.unit, Head(f.left))
      BY <2>1, <3>1 DEF CommandInv, AloneInv
    <3>3. \A r \in Slots \ {s} : flight'[r] # Idle => flight'[r].unit # f.unit
      BY <3>2 DEF Dwindles
    <3>4. \A l \in late' : l.unit # f.unit
      BY <2>1, <3>2 DEF Dwindles
    <3>5. OpenFlight(f)
      BY <3>1 DEF CommandInv, FlightInv, OpenFlight
    <3>6. /\ f.unit \in Units /\ f.payload \in Vocabulary[f.unit] /\ Asked(f.unit, f.payload) # None
      BY <3>5 DEF OpenFlight
    <3>7. \A a \in Settable \intersect DOMAIN hub[f.unit] : hub'[f.unit][a] = hub[f.unit][a]
      BY <2>1, <3>6 DEF Dwindles
    <3>8. ASSUME f.left # ps PROVE Applied(hub', f.unit, ps[1])
      <4>1. /\ \A a \in DOMAIN ps[1] : /\ a \in DOMAIN Asked(f.unit, f.payload)
                                       /\ ps[1][a] = Asked(f.unit, f.payload)[a]
            /\ DOMAIN ps[1] \subseteq Settable
        <5> DEFINE attrs == Asked(f.unit, f.payload)
        <5>1. /\ DOMAIN attrs \subseteq Settable
              /\ DOMAIN attrs = DOMAIN ps[1] \union DOMAIN Head(f.left)
              /\ \A a \in DOMAIN ps[1] : ps[1][a] = attrs[a]
          BY <2>1, <3>5, <3>8, Stages
        <5> QED BY <5>1
      <4> QED BY <3>2, <3>6, <3>7, <3>8, <4>1, AppliedStays
    <3>9. ASSUME f.there PROVE Applied(hub', f.unit, Head(f.left))
      <4>1. /\ \A a \in DOMAIN Head(f.left) : /\ a \in DOMAIN Asked(f.unit, f.payload)
                                              /\ Head(f.left)[a] = Asked(f.unit, f.payload)[a]
            /\ DOMAIN Head(f.left) \subseteq Settable
        BY <2>1, <3>5, Stages DEF Heeded
      <4> QED BY <3>2, <3>6, <3>7, <3>9, <4>1, AppliedStays
    <3> QED BY <3>3, <3>4, <3>8, <3>9
  <2>2. \A s \in Slots : Goes(s)' <=> flight'[s] # Idle
    BY DEF Goes, Idle
  <2> QED BY <1>1, <2>1, <2>2 DEF AloneInv
<1>5. SureInv'
  <2>1. ASSUME NEW u \in Units, sure'[u] # None
        PROVE /\ sure'[u] \in Vocabulary[u] /\ Asked(u, sure'[u]) # None
              /\ \A s \in Slots : flight'[s] # Idle => flight'[s].unit # u
              /\ \A l \in late' : l.unit # u
              /\ Applied(hub', u, Asked(u, sure'[u]))
    <3>1. sure'[u] = sure[u]
      BY <2>1 DEF Dwindles
    <3>2. /\ sure[u] \in Vocabulary[u] /\ Asked(u, sure[u]) # None
          /\ \A s \in Slots : Goes(s) => flight[s].unit # u
          /\ \A l \in late : l.unit # u
          /\ Applied(hub, u, Asked(u, sure[u]))
      BY <2>1, <3>1 DEF CommandInv, SureInv
    <3>3. \A a \in Settable \intersect DOMAIN hub[u] : hub'[u][a] = hub[u][a]
      BY <2>1 DEF Dwindles
    <3>4. DOMAIN Asked(u, sure[u]) \subseteq Settable
      BY <3>2, CommandSets DEF Asked
    <3>5. Applied(hub', u, Asked(u, sure[u]))
      BY <3>2, <3>3, <3>4, AppliedStays
    <3> QED BY <2>1, <3>1, <3>2, <3>5 DEF Dwindles
  <2>2. \A s \in Slots : Goes(s)' <=> flight'[s] # Idle
    BY DEF Goes, Idle
  <2>3. sure' = [u \in Units |-> sure'[u]]
    BY DEF Dwindles
  <2> QED BY <1>1, <2>1, <2>2, <2>3 DEF SureInv, Applied, Momentary
<1> QED BY <1>2, <1>3, <1>4, <1>5 DEF CommandInv

-----------------------------------------------------------------------------
(***************************************************************************)
(* Steps                                                                   *)
(***************************************************************************)

\* A step of the bridge or of nobody.
LEMMA OtherStep ==
    ASSUME HubInv, CommandInv, UNCHANGED <<home, hub, flight, late, sure>>
    PROVE CommandInv'
<1>1. Dwindles
  BY DEF Dwindles, CommandInv, FlightInv, SureInv, Goes
<1> QED BY <1>1, DwindlesKeeps

\* What is late or new on the way to the hub does there what it says.
LEMMA PatchHeeded ==
    ASSUME HubInv, NEW u \in Units, NEW patch, Heeded(patch), HubPatches(u, patch)
    PROVE /\ HubInv' /\ UNCHANGED <<home, fetched, entities>>
          /\ \A w \in Units : \A a \in Settable \intersect DOMAIN hub[w] :
                w # u \/ a \notin DOMAIN patch => hub'[w][a] = hub[w][a]
          /\ (\A a \in DOMAIN patch :
                 (a = "playback" /\ patch[a] \in Momentary) \/ a \in DOMAIN hub[u])
                => Applied(hub', u, patch)
<1> DEFINE heeded == IF "isOn" \in DOMAIN patch THEN Only(patch, {"isOn"}) ELSE patch
           lasting == {a \in DOMAIN heeded : a = "playback" => heeded[a] \notin Momentary}
           new == Only(heeded, lasting)
<1>1. HubSets(u, new) /\ UNCHANGED <<home, fetched, entities>>
  BY DEF HubPatches
<1>2. DOMAIN heeded = DOMAIN patch /\ \A a \in DOMAIN patch : heeded[a] = patch[a]
  BY DEF Heeded, Only
<1> HIDE DEF heeded
<1>3. /\ DOMAIN new = {a \in DOMAIN patch : a = "playback" => patch[a] \notin Momentary}
      /\ \A a \in DOMAIN new : new[a] = patch[a]
  BY <1>2 DEF Only
<1> HIDE DEF new
<1>4. Level(new)
  BY <1>3 DEF Level, Heeded, Settable
<1>5. /\ HubInv'
      /\ \A a \in DOMAIN new \intersect DOMAIN hub[u] : hub'[u][a] = new[a]
      /\ \A w \in Units : \A a \in DOMAIN hub[w] :
            a # "batteryPercentage" /\ (w # u \/ a \notin DOMAIN new) => hub'[w][a] = hub[w][a]
  BY <1>1, <1>4, HubSetsOnly
<1>6. "batteryPercentage" \notin Settable
  BY DEF Settable
<1>7. ASSUME \A a \in DOMAIN patch :
                 (a = "playback" /\ patch[a] \in Momentary) \/ a \in DOMAIN hub[u]
      PROVE Applied(hub', u, patch)
  BY <1>3, <1>5, <1>7 DEF Applied
<1> QED BY <1>1, <1>3, <1>5, <1>6, <1>7

LEMMA PatchFailsStep ==
    ASSUME HubInv, CommandInv, NEW s \in Slots, PatchFails(s)
    PROVE CommandInv'
<1>1. flight' = [flight EXCEPT ![s] = Idle] /\ UNCHANGED <<home, hub, late, sure>>
  BY DEF PatchFails, devices
<1>2. IsFlight(Idle)
  BY DEF IsFlight, Idle
<1>3. Dwindles
  BY <1>1, <1>2 DEF Dwindles, CommandInv, FlightInv, SureInv, Goes
<1> QED BY <1>3, DwindlesKeeps

LEMMA PatchTimesOutStep ==
    ASSUME HubInv, CommandInv, NEW s \in Slots, PatchTimesOut(s)
    PROVE CommandInv'
<1> DEFINE u == flight[s].unit
           g == Disturbed(flight, u)
           l == [unit |-> u, attrs |-> Head(flight[s].left)]
<1>1. /\ flight' = [g EXCEPT ![s] = Idle] /\ late' = late \union {l}
      /\ Goes(s) /\ UNCHANGED <<home, hub, sure>>
  BY DEF PatchTimesOut, devices
<1>2. IsFlight(Idle)
  BY DEF IsFlight, Idle
<1>3. OpenFlight(flight[s]) /\ FlightInv
  BY <1>1 DEF CommandInv, FlightInv
<1>4. u \in Units /\ Heeded(Head(flight[s].left))
  BY <1>3, Stages DEF OpenFlight
<1>5. sure[u] = None
  BY <1>1, <1>4 DEF CommandInv, SureInv
<1>6. /\ g = [r \in Slots |-> g[r]]
      /\ \A r \in Slots :
            /\ IsFlight(g[r])
            /\ g[r] # Idle => Goes(r)
            /\ g[r].unit = flight[r].unit /\ g[r].payload = flight[r].payload
            /\ g[r].left = flight[r].left /\ g[r].there = flight[r].there
            /\ g[r].alone => flight[r].alone /\ flight[r].unit # u
  BY <1>3, DisturbedSlots
<1> HIDE DEF g
<1>7. flight' = [r \in Slots |-> IF r = s THEN Idle ELSE g[r]]
  BY <1>1, <1>6
<1>8. \A k \in late' \ late : k.unit = u /\ k.attrs = Head(flight[s].left)
  BY <1>1
<1>9. Dwindles
  BY <1>1, <1>2, <1>4, <1>5, <1>6, <1>7, <1>8 DEF Dwindles, CommandInv, SureInv
<1> QED BY <1>9, DwindlesKeeps

LEMMA PatchLateStep ==
    ASSUME HubInv, CommandInv, NEW l \in late, PatchLate(l)
    PROVE CommandInv' /\ HubInv' /\ UNCHANGED <<home, fetched, entities>>
<1> DEFINE u == l.unit
           g == Disturbed(flight, u)
<1>1. /\ flight' = g /\ late' = late \ {l} /\ sure' = [sure EXCEPT ![u] = None]
      /\ HubPatches(u, l.attrs)
  BY DEF PatchLate
<1>2. u \in Units /\ Heeded(l.attrs)
  BY DEF CommandInv, LateInv
<1>3. /\ HubInv' /\ UNCHANGED <<home, fetched, entities>>
      /\ \A w \in Units : \A a \in Settable \intersect DOMAIN hub[w] :
            w # u \/ a \notin DOMAIN l.attrs => hub'[w][a] = hub[w][a]
  BY <1>1, <1>2, PatchHeeded
<1>4. /\ g = [r \in Slots |-> g[r]]
      /\ \A r \in Slots :
            /\ IsFlight(g[r])
            /\ g[r] # Idle => Goes(r)
            /\ g[r].unit = flight[r].unit /\ g[r].payload = flight[r].payload
            /\ g[r].left = flight[r].left /\ g[r].there = flight[r].there
            /\ g[r].alone => flight[r].alone /\ flight[r].unit # u
  BY DisturbedSlots DEF CommandInv
<1> HIDE DEF g
<1>5. sure' = [w \in Units |-> IF w = u THEN None ELSE sure[w]]
  BY <1>1 DEF CommandInv, SureInv
<1>6. \A s \in Slots : g[s].alone => g[s].unit # u
  BY <1>4
<1>7. ASSUME NEW w \in Units,
             \/ sure'[w] # None
             \/ \E s \in Slots : flight'[s] # Idle /\ flight'[s].alone /\ flight'[s].unit = w
      PROVE \A a \in Settable \intersect DOMAIN hub[w] : hub'[w][a] = hub[w][a]
  <2>1. w # u
    BY <1>1, <1>5, <1>6, <1>7
  <2> QED BY <1>3, <2>1
<1>8. late' \ late = {}
  BY <1>1
<1>9. Dwindles
  BY <1>1, <1>3, <1>4, <1>5, <1>7, <1>8 DEF Dwindles
<1> QED BY <1>3, <1>9, DwindlesKeeps

LEMMA ByHandStep ==
    ASSUME HubInv, CommandInv, NEW u \in Units, ByHand(u)
    PROVE CommandInv' /\ HubInv' /\ UNCHANGED <<home, fetched, entities>>
<1> DEFINE g == Disturbed(flight, u)
<1>1. PICK a \in DOMAIN Values : HubChanges(u, a)
  BY DEF ByHand
<1>2. /\ flight' = g /\ late' = late /\ sure' = [sure EXCEPT ![u] = None]
      /\ UNCHANGED <<home, fetched, entities>>
  BY <1>1 DEF ByHand, HubChanges
<1>3. PICK v \in Values[a] : HubSets(u, [b \in {a} |-> v])
  BY <1>1 DEF HubChanges
<1>4. Level([b \in {a} |-> v])
  BY <1>3, BatteryAssumption DEF Level
<1>5. /\ HubInv'
      /\ \A w \in Units : \A b \in DOMAIN hub[w] :
            b # "batteryPercentage" /\ w # u => hub'[w][b] = hub[w][b]
  BY <1>2, <1>3, <1>4, HubSetsOnly
<1>6. "batteryPercentage" \notin Settable
  BY DEF Settable
<1>7. /\ g = [r \in Slots |-> g[r]]
      /\ \A r \in Slots :
            /\ IsFlight(g[r])
            /\ g[r] # Idle => Goes(r)
            /\ g[r].unit = flight[r].unit /\ g[r].payload = flight[r].payload
            /\ g[r].left = flight[r].left /\ g[r].there = flight[r].there
            /\ g[r].alone => flight[r].alone /\ flight[r].unit # u
  BY DisturbedSlots DEF CommandInv
<1> HIDE DEF g
<1>8. sure' = [w \in Units |-> IF w = u THEN None ELSE sure[w]]
  BY <1>2 DEF CommandInv, SureInv
<1>9. \A s \in Slots : g[s].alone => g[s].unit # u
  BY <1>7
<1>10. ASSUME NEW w \in Units,
              \/ sure'[w] # None
              \/ \E s \in Slots : flight'[s] # Idle /\ flight'[s].alone /\ flight'[s].unit = w
       PROVE \A b \in Settable \intersect DOMAIN hub[w] : hub'[w][b] = hub[w][b]
  <2>1. w # u
    BY <1>2, <1>8, <1>9, <1>10
  <2> QED BY <1>5, <1>6, <2>1
<1>11. Dwindles
  BY <1>2, <1>7, <1>8, <1>10 DEF Dwindles
<1> QED BY <1>2, <1>5, <1>11, DwindlesKeeps

\* CommandInv of the next state, in terms of the units of this one.
AloneNext(s) ==
    flight'[s] # Idle /\ flight'[s].alone =>
        LET f == flight'[s]
            ps == Patches(Asked(f.unit, f.payload))
        IN /\ \A r \in Slots \ {s} : flight'[r] # Idle => flight'[r].unit # f.unit
           /\ \A l \in late' : l.unit # f.unit
           /\ f.left # ps => Applied(hub', f.unit, ps[1])
           /\ f.there => Applied(hub', f.unit, Head(f.left))

SureNext(u) ==
    sure'[u] # None =>
        /\ sure'[u] \in Vocabulary[u] /\ Asked(u, sure'[u]) # None
        /\ \A s \in Slots : flight'[s] # Idle => flight'[s].unit # u
        /\ \A l \in late' : l.unit # u
        /\ Applied(hub', u, Asked(u, sure'[u]))

LEMMA CommandInvNext ==
    ASSUME home' = home,
           flight' = [s \in Slots |-> flight'[s]],
           \A s \in Slots : IsFlight(flight'[s]) /\ (flight'[s] # Idle => OpenFlight(flight'[s])),
           \A l \in late' : l.unit \in Units /\ Heeded(l.attrs),
           \A s \in Slots : AloneNext(s),
           sure' = [u \in Units |-> sure'[u]],
           \A u \in Units : SureNext(u)
    PROVE CommandInv'
<1>1. /\ Units' = Units
      /\ \A u, p : Asked(u, p)' = Asked(u, p)
      /\ \A f : OpenFlight(f)' <=> OpenFlight(f)
  BY HomeKept
<1>2. \A s \in Slots : Goes(s)' <=> flight'[s] # Idle
  BY DEF Goes, Idle
<1>3. FlightInv'
  BY <1>1, <1>2 DEF FlightInv
<1>4. LateInv'
  BY <1>1 DEF LateInv, Heeded, Settable
<1>5. AloneInv'
  BY <1>1, <1>2 DEF AloneInv, AloneNext, Applied, Momentary
<1>6. SureInv'
  BY <1>1, <1>2 DEF SureInv, SureNext, Applied, Momentary
<1> QED BY <1>3, <1>4, <1>5, <1>6 DEF CommandInv

LEMMA CommandStep ==
    ASSUME HubInv, CommandInv, NEW s \in Slots, NEW u \in Units, NEW p \in Vocabulary[u],
           Command(s, u, p)
    PROVE CommandInv'
<1> DEFINE attrs == MapCommand(TypeOf(u), p)
           others == {r \in Slots : flight[r].unit = u} \union {l \in late : l.unit = u}
           g == Disturbed(flight, u)
           new == [unit |-> u, payload |-> p, left |-> Patches(attrs),
                   there |-> FALSE, alone |-> others = {}]
<1>1. UNCHANGED <<home, hub, late>>
  BY DEF Command, devices
<1>2. CASE attrs = None
  BY <1>1, <1>2, OtherStep DEF Command
<1>3. CASE attrs # None
  <2>1. flight' = [g EXCEPT ![s] = new] /\ sure' = [sure EXCEPT ![u] = None] /\ attrs = Asked(u, p)
    BY <1>3 DEF Command, Asked
  <2>2. /\ g = [r \in Slots |-> g[r]]
        /\ \A r \in Slots :
              /\ IsFlight(g[r])
              /\ g[r] # Idle => Goes(r)
              /\ g[r].unit = flight[r].unit /\ g[r].payload = flight[r].payload
              /\ g[r].left = flight[r].left /\ g[r].there = flight[r].there
              /\ g[r].alone => flight[r].alone /\ flight[r].unit # u
    BY DisturbedSlots DEF CommandInv
  <2> HIDE DEF g
  <2>3. flight' = [r \in Slots |-> IF r = s THEN new ELSE g[r]]
    BY <2>1, <2>2
  <2>4. sure' = [w \in Units |-> IF w = u THEN None ELSE sure[w]]
    BY <2>1 DEF CommandInv, SureInv
  <2>5. /\ new.unit = u /\ new.payload = p /\ new.left = Patches(Asked(u, p)) /\ new.there = FALSE
        /\ new.alone = (others = {}) /\ IsFlight(new)
    BY <2>1 DEF IsFlight
  <2>6. others = {} => (\A r \in Slots : flight[r].unit # u) /\ (\A l \in late : l.unit # u)
    OBVIOUS
  <2> HIDE DEF new, others, attrs
  <2>7. OpenFlight(new)
    BY <1>3, <2>1, <2>5 DEF OpenFlight
  <2>8. ASSUME NEW r \in Slots, g[r] # Idle PROVE OpenFlight(g[r])
    BY <2>2, <2>8 DEF CommandInv, FlightInv, OpenFlight
  <2>9. \A r \in Slots : IsFlight(flight'[r]) /\ (flight'[r] # Idle => OpenFlight(flight'[r]))
    BY <2>2, <2>3, <2>5, <2>7, <2>8
  <2>10. ASSUME NEW r \in Slots PROVE AloneNext(r)
    <3>1. CASE r = s
      BY <1>1, <2>2, <2>3, <2>5, <2>6, <3>1, ZenonT(40) DEF AloneNext
    <3>2. CASE r # s
      <4>1. flight'[r] = g[r] /\ flight'[s] = new
        BY <2>3, <3>2
      <4> SUFFICES ASSUME g[r] # Idle, g[r].alone PROVE AloneNext(r)
        BY <4>1 DEF AloneNext
      <4>2. /\ Goes(r) /\ flight[r].alone /\ flight[r].unit # u
            /\ g[r].unit = flight[r].unit /\ g[r].payload = flight[r].payload
            /\ g[r].left = flight[r].left /\ g[r].there = flight[r].there
        BY <2>2
      <4>3. \A q \in Slots \ {r} : flight'[q] # Idle => flight'[q].unit # flight[r].unit
        <5>1. \A q \in Slots \ {r} : Goes(q) => flight[q].unit # flight[r].unit
          BY <4>2 DEF CommandInv, AloneInv
        <5> QED BY <2>2, <2>3, <2>5, <4>2, <5>1
      <4>4. /\ \A l \in late : l.unit # flight[r].unit
            /\ flight[r].left # Patches(Asked(flight[r].unit, flight[r].payload))
                  => Applied(hub, flight[r].unit, Patches(Asked(flight[r].unit, flight[r].payload))[1])
            /\ flight[r].there => Applied(hub, flight[r].unit, Head(flight[r].left))
        BY <4>2 DEF CommandInv, AloneInv
      <4> QED BY <1>1, <4>1, <4>2, <4>3, <4>4 DEF AloneNext
    <3> QED BY <3>1, <3>2
  <2>11. ASSUME NEW w \in Units PROVE SureNext(w)
    <3>1. CASE w = u
      BY <2>4, <3>1 DEF SureNext
    <3>2. CASE w # u
      <4>1. sure'[w] = sure[w]
        BY <2>4, <3>2
      <4>2. ASSUME NEW r \in Slots, flight'[r] # Idle, sure[w] # None PROVE flight'[r].unit # w
        BY <2>2, <2>3, <2>5, <3>2, <4>2 DEF CommandInv, SureInv
      <4> QED BY <1>1, <4>1, <4>2 DEF SureNext, CommandInv, SureInv
    <3> QED BY <3>1, <3>2
  <2>12. flight' = [r \in Slots |-> flight'[r]]
    BY <2>3
  <2>13. sure' = [w \in Units |-> sure'[w]]
    BY <2>4
  <2> QED BY <1>1, <2>9, <2>10, <2>11, <2>12, <2>13, CommandInvNext DEF CommandInv, LateInv
<1> QED BY <1>2, <1>3

LEMMA PatchArrivesStep ==
    ASSUME HubInv, CommandInv, NEW s \in Slots, PatchArrives(s)
    PROVE CommandInv' /\ HubInv' /\ UNCHANGED <<home, fetched, entities>>
<1>1. PICK f : f = flight[s]
  OBVIOUS
<1>2. PICK u, patch, attrs, ps :
          u = f.unit /\ patch = Head(f.left) /\ attrs = Asked(u, f.payload) /\ ps = Patches(attrs)
  OBVIOUS
<1>3. /\ Goes(s) /\ HubPatches(u, patch) /\ UNCHANGED <<late, sure>>
      /\ flight' = [flight EXCEPT ![s].there = TRUE]
  BY <1>1, <1>2 DEF PatchArrives
<1>4. OpenFlight(f) /\ IsFlight(f)
  BY <1>1, <1>3 DEF CommandInv, FlightInv
<1>5. u \in Units /\ f.payload \in Vocabulary[u] /\ attrs # None
  BY <1>2, <1>4 DEF OpenFlight
<1>6. /\ DOMAIN attrs \subseteq Settable /\ Heeded(patch)
      /\ \A a \in DOMAIN patch : a \in DOMAIN attrs /\ patch[a] = attrs[a]
      /\ f.left # ps => /\ DOMAIN attrs = DOMAIN ps[1] \union DOMAIN patch
                        /\ DOMAIN ps[1] \intersect DOMAIN patch = {}
                        /\ \A a \in DOMAIN ps[1] : ps[1][a] = attrs[a]
  BY <1>2, <1>4, Stages
<1>7. \A a \in DOMAIN patch : (a = "playback" /\ patch[a] \in Momentary) \/ a \in DOMAIN hub[u]
  BY <1>2, <1>5, <1>6, AskedIsListed
<1>8. /\ HubInv' /\ UNCHANGED <<home, fetched, entities>>
      /\ \A w \in Units : \A a \in Settable \intersect DOMAIN hub[w] :
            w # u \/ a \notin DOMAIN patch => hub'[w][a] = hub[w][a]
      /\ Applied(hub', u, patch)
  BY <1>3, <1>5, <1>6, <1>7, PatchHeeded
<1>9. PICK new : new = [f EXCEPT !.there = TRUE]
  OBVIOUS
<1>10. /\ new.unit = u /\ new.payload = f.payload /\ new.left = f.left /\ new.alone = f.alone
       /\ IsFlight(new)
  BY <1>2, <1>4, <1>9 DEF IsFlight
<1>11. flight' = [r \in Slots |-> IF r = s THEN new ELSE flight[r]]
  BY <1>1, <1>3, <1>9 DEF CommandInv, FlightInv
<1>12. OpenFlight(new)
  BY <1>2, <1>4, <1>10 DEF OpenFlight
<1>13. \A r \in Slots : IsFlight(flight'[r]) /\ (flight'[r] # Idle => OpenFlight(flight'[r]))
  BY <1>10, <1>11, <1>12 DEF CommandInv, FlightInv, Goes
<1>14. ASSUME NEW r \in Slots PROVE AloneNext(r)
  <2>1. CASE r = s
    <3> SUFFICES ASSUME f.alone PROVE AloneNext(r)
      BY <1>10, <1>11, <2>1 DEF AloneNext
    <3>1. /\ \A q \in Slots \ {s} : Goes(q) => flight[q].unit # u
          /\ \A l \in late : l.unit # u
          /\ f.left # ps => Applied(hub, u, ps[1])
      BY <1>1, <1>2, <1>3 DEF CommandInv, AloneInv
    <3>2. ASSUME f.left # ps PROVE Applied(hub', u, ps[1])
      <4>1. \A a \in DOMAIN ps[1] : a \in DOMAIN attrs /\ ps[1][a] = attrs[a]
        BY <1>6, <3>2
      <4>2. \A a \in DOMAIN ps[1] \intersect DOMAIN hub[u] : hub'[u][a] = hub[u][a]
        BY <1>5, <1>6, <1>8, <3>2
      <4> QED BY <1>2, <1>5, <3>1, <3>2, <4>1, <4>2, AppliedStays
    <3> QED BY <1>2, <1>3, <1>8, <1>10, <1>11, <2>1, <3>1, <3>2, ZenonT(40) DEF AloneNext, Goes
  <2>2. CASE r # s
    <3>1. flight'[r] = flight[r] /\ flight'[s] = new
      BY <1>11, <2>2
    <3> SUFFICES ASSUME Goes(r), flight[r].alone PROVE AloneNext(r)
      BY <3>1 DEF AloneNext, Goes
    <3>2. PICK h, hs : h = flight[r] /\ hs = Patches(Asked(h.unit, h.payload))
      OBVIOUS
    <3>3. /\ \A q \in Slots \ {r} : Goes(q) => flight[q].unit # h.unit
          /\ \A l \in late : l.unit # h.unit
          /\ h.left # hs => Applied(hub, h.unit, hs[1])
          /\ h.there => Applied(hub, h.unit, Head(h.left))
      BY <3>2 DEF CommandInv, AloneInv
    <3>4. h.unit # u
      BY <1>1, <1>2, <1>3, <2>2, <3>3
    <3>5. OpenFlight(h) /\ h.unit \in Units /\ h.payload \in Vocabulary[h.unit]
          /\ Asked(h.unit, h.payload) # None
      BY <3>2 DEF CommandInv, FlightInv, OpenFlight
    <3>6. \A a \in Settable \intersect DOMAIN hub[h.unit] : hub'[h.unit][a] = hub[h.unit][a]
      BY <1>8, <3>4, <3>5
    <3>7. ASSUME h.left # hs PROVE Applied(hub', h.unit, hs[1])
      <4>1. PICK as : as = Asked(h.unit, h.payload)
        OBVIOUS
      <4>2. /\ DOMAIN as \subseteq Settable
            /\ DOMAIN as = DOMAIN hs[1] \union DOMAIN Head(h.left)
            /\ \A a \in DOMAIN hs[1] : hs[1][a] = as[a]
        BY <3>2, <3>5, <3>7, <4>1, Stages
      <4> QED BY <3>3, <3>5, <3>6, <3>7, <4>1, <4>2, AppliedStays
    <3>8. ASSUME h.there PROVE Applied(hub', h.unit, Head(h.left))
      <4>1. /\ \A a \in DOMAIN Head(h.left) : /\ a \in DOMAIN Asked(h.unit, h.payload)
                                              /\ Head(h.left)[a] = Asked(h.unit, h.payload)[a]
            /\ DOMAIN Head(h.left) \subseteq Settable
        BY <3>5, Stages DEF Heeded
      <4> QED BY <3>3, <3>5, <3>6, <3>8, <4>1, AppliedStays
    <3>9. \A q \in Slots \ {r} : flight'[q] # Idle => flight'[q].unit # h.unit
      BY <1>10, <1>11, <3>3, <3>4 DEF Goes
    <3> QED BY <1>3, <3>1, <3>2, <3>3, <3>7, <3>8, <3>9 DEF AloneNext
  <2> QED BY <2>1, <2>2
<1>15. ASSUME NEW w \in Units PROVE SureNext(w)
  <2> SUFFICES ASSUME sure[w] # None PROVE SureNext(w)
    BY <1>3 DEF SureNext
  <2>1. /\ sure[w] \in Vocabulary[w] /\ Asked(w, sure[w]) # None
        /\ \A r \in Slots : Goes(r) => flight[r].unit # w
        /\ \A l \in late : l.unit # w
        /\ Applied(hub, w, Asked(w, sure[w]))
    BY DEF CommandInv, SureInv
  <2>2. w # u
    BY <1>1, <1>2, <1>3, <2>1
  <2>3. DOMAIN Asked(w, sure[w]) \subseteq Settable
    BY <2>1, CommandSets DEF Asked
  <2>4. Applied(hub', w, Asked(w, sure[w]))
    BY <1>8, <2>1, <2>2, <2>3, AppliedStays
  <2>5. \A r \in Slots : flight'[r] # Idle => flight'[r].unit # w
    BY <1>10, <1>11, <2>1, <2>2 DEF Goes
  <2> QED BY <1>3, <2>1, <2>4, <2>5 DEF SureNext
<1>16. flight' = [r \in Slots |-> flight'[r]]
  BY <1>11
<1>17. sure' = [w \in Units |-> sure'[w]] /\ late' = late
  BY <1>3 DEF CommandInv, SureInv
<1> QED BY <1>8, <1>13, <1>14, <1>15, <1>16, <1>17, CommandInvNext DEF CommandInv, LateInv

\* The answer to the last PATCH of a command that nothing interfered with is the
\* proof that the hub has all of it.
LEMMA PatchAnsweredStep ==
    ASSUME HubInv, CommandInv, NEW s \in Slots, PatchAnswered(s)
    PROVE CommandInv'
<1>1. PICK f : f = flight[s]
  OBVIOUS
<1>2. PICK u, attrs, ps : u = f.unit /\ attrs = Asked(u, f.payload) /\ ps = Patches(attrs)
  OBVIOUS
<1>3. Goes(s) /\ f.there /\ UNCHANGED <<home, hub, late>>
  BY <1>1 DEF PatchAnswered, mapping
<1>4. OpenFlight(f) /\ IsFlight(f)
  BY <1>1, <1>3 DEF CommandInv, FlightInv
<1>5. u \in Units /\ f.payload \in Vocabulary[u] /\ attrs # None
  BY <1>2, <1>4 DEF OpenFlight
<1>6. f.alone => /\ \A q \in Slots \ {s} : Goes(q) => flight[q].unit # u
                 /\ \A l \in late : l.unit # u
                 /\ f.left # ps => Applied(hub, u, ps[1])
                 /\ Applied(hub, u, Head(f.left))
  BY <1>1, <1>2, <1>3 DEF CommandInv, AloneInv
<1>7. \/ f.left = ps /\ Len(f.left) = 1 /\ Head(f.left) = attrs
      \/ /\ f.left = ps /\ Len(f.left) = 2 /\ Len(Tail(f.left)) = 1
         /\ Head(f.left) = ps[1] /\ Tail(f.left) = Tail(ps) /\ Tail(f.left) # ps
         /\ Len(ps) = 2
      \/ /\ f.left # ps /\ f.left = Tail(ps) /\ Len(f.left) = 1 /\ Len(ps) = 2
         /\ DOMAIN attrs = DOMAIN ps[1] \union DOMAIN Head(f.left)
         /\ \A a \in DOMAIN ps[1] : ps[1][a] = attrs[a]
  BY <1>2, <1>4, Stages
<1>8. \A a \in DOMAIN Head(f.left) : a \in DOMAIN attrs /\ Head(f.left)[a] = attrs[a]
  BY <1>2, <1>4, Stages
<1>9. \A l \in late' : l.unit \in Units /\ Heeded(l.attrs)
  BY <1>3 DEF CommandInv, LateInv
<1>10. \A r \in Slots : IsFlight(flight[r]) /\ (Goes(r) => OpenFlight(flight[r]))
  BY DEF CommandInv, FlightInv
<1>11. CASE Len(f.left) > 1
  <2>1. PICK new : new = [f EXCEPT !.left = Tail(f.left), !.there = FALSE]
    OBVIOUS
  <2>2. flight' = [flight EXCEPT ![s] = new] /\ UNCHANGED sure
    BY <1>1, <1>11, <2>1 DEF PatchAnswered
  <2>3. /\ new.unit = u /\ new.payload = f.payload /\ new.left = Tail(f.left)
        /\ new.there = FALSE /\ new.alone = f.alone /\ IsFlight(new)
    BY <1>2, <1>4, <2>1 DEF IsFlight
  <2>4. flight' = [r \in Slots |-> IF r = s THEN new ELSE flight[r]]
    BY <2>2 DEF CommandInv, FlightInv
  <2>5. /\ f.left = ps /\ Head(f.left) = ps[1] /\ Tail(f.left) = Tail(ps) /\ Len(ps) = 2
    <3>1. ~ (1 > 1)
      OBVIOUS
    <3>2. Len(f.left) # 1
      BY <1>11, <3>1
    <3> QED BY <1>7, <3>2
  <2>6. OpenFlight(new)
    BY <1>2, <1>4, <2>3, <2>5 DEF OpenFlight
  <2>7. \A r \in Slots : IsFlight(flight'[r]) /\ (flight'[r] # Idle => OpenFlight(flight'[r]))
    BY <1>10, <2>3, <2>4, <2>6 DEF Goes
  <2>8. ASSUME NEW r \in Slots PROVE AloneNext(r)
    <3>1. CASE r = s
      <4> SUFFICES ASSUME f.alone PROVE AloneNext(r)
        BY <2>3, <2>4, <3>1 DEF AloneNext
      <4>1. \A q \in Slots \ {r} : flight'[q] # Idle => flight'[q].unit # u
        BY <1>6, <2>4, <3>1 DEF Goes
      <4>2. Applied(hub', u, ps[1])
        BY <1>3, <1>6, <2>5
      <4> QED BY <1>2, <1>3, <1>6, <2>3, <2>4, <3>1, <4>1, <4>2 DEF AloneNext
    <3>2. CASE r # s
      <4>1. flight'[r] = flight[r] /\ flight'[s] = new
        BY <2>4, <3>2
      <4> SUFFICES ASSUME Goes(r), flight[r].alone PROVE AloneNext(r)
        BY <4>1 DEF AloneNext, Goes
      <4>2. PICK h, hs : h = flight[r] /\ hs = Patches(Asked(h.unit, h.payload))
        OBVIOUS
      <4>3. /\ \A q \in Slots \ {r} : Goes(q) => flight[q].unit # h.unit
            /\ \A l \in late : l.unit # h.unit
            /\ h.left # hs => Applied(hub, h.unit, hs[1])
            /\ h.there => Applied(hub, h.unit, Head(h.left))
        BY <4>2 DEF CommandInv, AloneInv
      <4>4. \A q \in Slots \ {r} : flight'[q] # Idle => flight'[q].unit # h.unit
        BY <1>1, <1>2, <1>3, <2>3, <2>4, <4>3 DEF Goes
      <4> QED BY <1>3, <4>1, <4>2, <4>3, <4>4 DEF AloneNext
    <3> QED BY <3>1, <3>2
  <2>9. ASSUME NEW w \in Units PROVE SureNext(w)
    <3> SUFFICES ASSUME sure[w] # None PROVE SureNext(w)
      BY <2>2 DEF SureNext
    <3>1. /\ sure[w] \in Vocabulary[w] /\ Asked(w, sure[w]) # None
          /\ \A r \in Slots : Goes(r) => flight[r].unit # w
          /\ \A l \in late : l.unit # w
          /\ Applied(hub, w, Asked(w, sure[w]))
      BY DEF CommandInv, SureInv
    <3>2. \A r \in Slots : flight'[r] # Idle => flight'[r].unit # w
      BY <1>1, <1>2, <1>3, <2>3, <2>4, <3>1 DEF Goes
    <3> QED BY <1>3, <2>2, <3>1, <3>2 DEF SureNext
  <2>10. flight' = [r \in Slots |-> flight'[r]]
    BY <2>4
  <2>11. sure' = [w \in Units |-> sure'[w]]
    BY <2>2 DEF CommandInv, SureInv
  <2> QED BY <1>3, <1>9, <2>7, <2>8, <2>9, <2>10, <2>11, CommandInvNext
<1>12. CASE ~ (Len(f.left) > 1)
  <2>1. /\ flight' = [flight EXCEPT ![s] = Idle]
        /\ sure' = IF f.alone THEN [sure EXCEPT ![u] = f.payload] ELSE sure
    BY <1>1, <1>2, <1>12 DEF PatchAnswered
  <2>2. flight' = [r \in Slots |-> IF r = s THEN Idle ELSE flight[r]]
    BY <2>1 DEF CommandInv, FlightInv
  <2>3. sure' = [w \in Units |-> IF w = u /\ f.alone THEN f.payload ELSE sure[w]]
    BY <2>1 DEF CommandInv, SureInv
  <2>4. \A r \in Slots : IsFlight(flight'[r]) /\ (flight'[r] # Idle => OpenFlight(flight'[r]))
    BY <1>10, <2>2 DEF Goes, IsFlight, Idle
  <2>5. ASSUME NEW r \in Slots PROVE AloneNext(r)
    <3>1. CASE r = s
      BY <2>2, <3>1 DEF AloneNext
    <3>2. CASE r # s
      <4>1. flight'[r] = flight[r]
        BY <2>2, <3>2
      <4> SUFFICES ASSUME Goes(r), flight[r].alone PROVE AloneNext(r)
        BY <4>1 DEF AloneNext, Goes
      <4>2. PICK h, hs : h = flight[r] /\ hs = Patches(Asked(h.unit, h.payload))
        OBVIOUS
      <4>3. /\ \A q \in Slots \ {r} : Goes(q) => flight[q].unit # h.unit
            /\ \A l \in late : l.unit # h.unit
            /\ h.left # hs => Applied(hub, h.unit, hs[1])
            /\ h.there => Applied(hub, h.unit, Head(h.left))
        BY <4>2 DEF CommandInv, AloneInv
      <4>4. \A q \in Slots \ {r} : flight'[q] # Idle => flight'[q].unit # h.unit
        BY <2>2, <4>3 DEF Goes
      <4> QED BY <1>3, <4>1, <4>2, <4>3, <4>4 DEF AloneNext
    <3> QED BY <3>1, <3>2
  <2>6. ASSUME NEW w \in Units PROVE SureNext(w)
    <3>1. CASE w = u /\ f.alone
      <4>1. Applied(hub, u, attrs)
        <5>1. CASE f.left = ps
          BY <1>6, <1>7, <1>12, <3>1, <5>1
        <5>2. CASE f.left # ps
          <6>1. /\ Applied(hub, u, ps[1]) /\ Applied(hub, u, Head(f.left))
                /\ DOMAIN attrs = DOMAIN ps[1] \union DOMAIN Head(f.left)
                /\ \A a \in DOMAIN ps[1] : ps[1][a] = attrs[a]
            BY <1>6, <1>7, <3>1, <5>2
          <6> QED BY <1>8, <6>1 DEF Applied
        <5> QED BY <5>1, <5>2
      <4>2. sure'[w] = f.payload
        BY <2>3, <3>1
      <4>3. \A r \in Slots : flight'[r] # Idle => flight'[r].unit # w
        BY <1>6, <2>2, <3>1 DEF Goes
      <4> QED BY <1>2, <1>3, <1>5, <1>6, <3>1, <4>1, <4>2, <4>3 DEF SureNext
    <3>2. CASE ~ (w = u /\ f.alone)
      <4>1. sure'[w] = sure[w]
        BY <2>3, <3>2
      <4> SUFFICES ASSUME sure[w] # None PROVE SureNext(w)
        BY <4>1 DEF SureNext
      <4>2. /\ sure[w] \in Vocabulary[w] /\ Asked(w, sure[w]) # None
            /\ \A r \in Slots : Goes(r) => flight[r].unit # w
            /\ \A l \in late : l.unit # w
            /\ Applied(hub, w, Asked(w, sure[w]))
        BY DEF CommandInv, SureInv
      <4>3. \A r \in Slots : flight'[r] # Idle => flight'[r].unit # w
        BY <2>2, <4>2 DEF Goes
      <4> QED BY <1>3, <4>1, <4>2, <4>3 DEF SureNext
    <3> QED BY <3>1, <3>2
  <2>7. flight' = [r \in Slots |-> flight'[r]]
    BY <2>2
  <2>8. sure' = [w \in Units |-> sure'[w]]
    BY <2>3
  <2> QED BY <1>3, <1>9, <2>4, <2>5, <2>6, <2>7, <2>8, CommandInvNext
<1> QED BY <1>11, <1>12

-----------------------------------------------------------------------------
(***************************************************************************)
(* The bridge                                                              *)
(***************************************************************************)

LEMMA UnitsAreFinite ==
    ASSUME home \in Homes PROVE IsFiniteSet(Units)
<1> DEFINE f == [i \in DOMAIN home |-> home[i].id]
<1>1. IsFiniteSet(DOMAIN home)
  <2>1. Len(home) \in Nat /\ DOMAIN home = 1..Len(home)
    BY HomeIs
  <2>2. Len(home) \in Int
    BY <2>1
  <2>3. IsFiniteSet(1..Len(home))
    BY <2>2, FS_Interval
  <2> QED BY <2>1, <2>3
<1>2. Units = Range(f)
  BY DEF Units, Range
<1>3. DOMAIN f = DOMAIN home /\ f = [i \in DOMAIN f |-> f[i]]
  OBVIOUS
<1> HIDE DEF f
<1> QED BY <1>1, <1>2, <1>3, RangeIsFinite

Report(w, a, new) == [unit |-> w, attr |-> a, value |-> new[a]]

\* The hub reports what it sets and had not: on each unit it sets it on.
LEMMA ReportsAre ==
    ASSUME HubInv, NEW u \in Units, NEW new, IsFiniteSet(DOMAIN new), HubSets(u, new)
    PROVE \E r : /\ IsSeq(r) /\ wire' = wire \o r
                 /\ \A i \in Range(r) : \E a \in DOMAIN new : \E w \in Reporters(u, a) :
                       w \in Units /\ hub[u][a] # new[a] /\ i = Report(w, a, new)
                 /\ \A a \in DOMAIN new : \A w \in Reporters(u, a) :
                       hub[u][a] # new[a] => Report(w, a, new) \in Range(r)
<1> DEFINE news == {a \in DOMAIN new : hub[u][a] # new[a]}
           R == UNION {{Report(w, a, new) : w \in Reporters(u, a)} : a \in news}
           P == Units \X DOMAIN new
           f == [p \in P |-> Report(p[1], p[2], new)]
<1>1. wire' = wire \o SetToSeq(R)
  BY DEF HubSets, Report
<1>2. \A a : Reporters(u, a) \subseteq Units
  BY DEF Reporters
<1>3. IsFiniteSet(P)
  BY UnitsAreFinite, FS_Product DEF HubInv
<1>4. IsFiniteSet(Range(f))
  <2>1. DOMAIN f = P /\ f = [p \in DOMAIN f |-> f[p]]
    OBVIOUS
  <2> HIDE DEF f, P
  <2> QED BY <1>3, <2>1, RangeIsFinite
<1>5. R \subseteq Range(f)
  <2> SUFFICES ASSUME NEW a \in news, NEW w \in Reporters(u, a)
               PROVE Report(w, a, new) \in Range(f)
    OBVIOUS
  <2>1. <<w, a>> \in P
    BY <1>2
  <2>2. f[<<w, a>>] = Report(w, a, new)
    BY <2>1
  <2> QED BY <2>1, <2>2 DEF Range
<1>6. \A i \in R : \E a \in DOMAIN new : \E w \in Reporters(u, a) :
          w \in Units /\ hub[u][a] # new[a] /\ i = Report(w, a, new)
  BY <1>2
<1>7. \A a \in DOMAIN new : \A w \in Reporters(u, a) :
          hub[u][a] # new[a] => Report(w, a, new) \in R
  OBVIOUS
<1> HIDE DEF R, f
<1>8. IsFiniteSet(R)
  BY <1>4, <1>5, FS_Subset
<1>9. IsSeq(SetToSeq(R)) /\ Range(SetToSeq(R)) = R
  BY <1>8, SetToSeqIs
<1> QED BY <1>1, <1>6, <1>7, <1>9

Item(u, a, v) == [unit |-> u, attr |-> a, value |-> v]

\* Of a unit the bridge has to publish that it is reachable, and all attributes.
LEMMA ItemsAre ==
    ASSUME HubInv, NEW k \in DOMAIN home
    PROVE LET u == home[k].id
              raw == RawAttributes(hub[u])
          IN /\ IsSeq(Items(home[k]))
             /\ Range(Items(home[k])) =
                   {Item(u, "isReachable", TRUE)} \union {Item(u, a, raw[a]) : a \in DOMAIN raw}
<1> DEFINE d == home[k]
           u == d.id
           raw == RawAttributes(hub[u])
           fields == <<"firmwareVersion", "isOn", "batteryPercentage", "otaStatus">>
           order == RawOrder(d)
           first == <<Item(u, "isReachable", TRUE)>>
           rest == [i \in DOMAIN order |-> Item(u, order[i], raw[order[i]])]
<1>1. u \in Units
  BY DEF Units
<1>2. DOMAIN hub[u] = DOMAIN d.attrs
  <2>1. PICK i \in DOMAIN home : home[i].id = u /\ Unit(u) = home[i]
    BY <1>1, UnitListed
  <2>2. i = k
    BY <2>1, HomeIs DEF HubInv
  <2> QED BY <1>1, <2>1, <2>2 DEF HubInv
<1>3. IsSeq(d.extra) /\ Range(d.extra) = DOMAIN d.attrs \ DOMAIN Typed
  <2>1. d.extra \in Seq(DOMAIN d.attrs) /\ Range(d.extra) = DOMAIN d.attrs \ DOMAIN Typed
    BY HomeIs DEF HubInv
  <2> QED BY <2>1, SeqIs
<1>4. IsSeq(fields) /\ Range(fields) = DOMAIN Typed
  <2>1. fields \in Seq(DOMAIN Typed) /\ Len(fields) = 4
    BY DEF Typed
  <2>2. 1..4 = {1, 2, 3, 4}
    OBVIOUS
  <2>3. /\ fields[1] = "firmwareVersion" /\ fields[2] = "isOn"
        /\ fields[3] = "batteryPercentage" /\ fields[4] = "otaStatus"
    OBVIOUS
  <2>4. DOMAIN Typed = {"firmwareVersion", "isOn", "batteryPercentage", "otaStatus"}
    BY DEF Typed
  <2> HIDE DEF fields
  <2>5. IsSeq(fields) /\ Range(fields) = {fields[n] : n \in 1..Len(fields)}
    BY <2>1, SeqIs
  <2> QED BY <2>1, <2>2, <2>3, <2>4, <2>5
<1>5. order = d.extra \o fields
  BY DEF RawOrder
<1>6. Items(d) = first \o rest
  BY DEF Items, Item
<1>7. DOMAIN raw = (DOMAIN d.attrs \ DOMAIN Typed) \union DOMAIN Typed
  BY <1>2 DEF RawAttributes
<1> HIDE DEF fields
<1>8. IsSeq(order) /\ Range(order) = DOMAIN raw
  <2> HIDE DEF raw
  <2> QED BY <1>3, <1>4, <1>5, <1>7, ConcatIs
<1> HIDE DEF order, raw
<1>9. order \in Seq(DOMAIN raw) /\ DOMAIN order = 1..Len(order) /\ Len(order) \in Nat
  BY <1>8, SeqIs DEF IsSeq
<1>10. /\ IsSeq(rest) /\ Range(rest) = {Item(u, a, raw[a]) : a \in DOMAIN raw}
  <2> DEFINE S == {Item(u, a, raw[a]) : a \in DOMAIN raw}
  <2>1. \A i \in 1..Len(order) : order[i] \in DOMAIN raw
    BY <1>9
  <2>2. \A i \in 1..Len(order) : rest[i] = Item(u, order[i], raw[order[i]]) /\ rest[i] \in S
    BY <1>9, <2>1
  <2>3. rest = [i \in 1..Len(order) |-> rest[i]]
    BY <1>9
  <2>4. Range(rest) = S
    <3>1. S \subseteq Range(rest)
      <4> SUFFICES ASSUME NEW a \in DOMAIN raw PROVE Item(u, a, raw[a]) \in Range(rest)
        OBVIOUS
      <4>1. PICK i \in DOMAIN order : order[i] = a
        BY <1>8 DEF Range
      <4> QED BY <4>1 DEF Range
    <3>2. Range(rest) \subseteq S
      BY <1>9, <2>2 DEF Range
    <3> QED BY <3>1, <3>2
  <2> HIDE DEF S, rest
  <2>5. rest \in Seq(S)
    BY <1>9, <2>2, <2>3
  <2> QED BY <2>4, <2>5, SeqIs DEF S
<1>11. IsSeq(first) /\ Range(first) = {Item(u, "isReachable", TRUE)}
  <2> DEFINE x == Item(u, "isReachable", TRUE)
  <2> HIDE DEF x
  <2> SUFFICES IsSeq(<<x>>) /\ Range(<<x>>) = {x}
    BY DEF x
  <2>1. <<x>> \in Seq({x}) /\ DOMAIN <<x>> = 1..1 /\ <<x>>[1] = x
    OBVIOUS
  <2>2. Range(<<x>>) = {x}
    BY <2>1 DEF Range
  <2> QED BY <2>1, <2>2 DEF IsSeq
<1> HIDE DEF first, rest
<1>12. IsSeq(first \o rest) /\ Range(first \o rest) = Range(first) \union Range(rest)
  BY <1>10, <1>11, ConcatIs
<1> QED BY <1>6, <1>10, <1>11, <1>12 DEF raw

\* What a discovery leaves to publish is all that the hub has.
LEMMA DiscoverTodo ==
    ASSUME HubInv, Discover
    PROVE /\ IsSeq(todo')
          /\ Range(todo') = UNION {{Item(u, "isReachable", TRUE)}
                  \union {Item(u, a, RawAttributes(hub[u])[a]) :
                              a \in DOMAIN RawAttributes(hub[u])} : u \in Units}
<1> DEFINE ss == [i \in DOMAIN home |-> Items(home[i])]
           S == UNION {Range(Items(home[i])) : i \in DOMAIN home}
           Of(u) == {Item(u, "isReachable", TRUE)}
                  \union {Item(u, a, RawAttributes(hub[u])[a]) :
                              a \in DOMAIN RawAttributes(hub[u])}
<1>1. todo' = FlattenSeq(ss)
  BY DEF Discover
<1>2. Len(home) \in Nat /\ DOMAIN home = 1..Len(home)
  BY HomeIs DEF HubInv
<1>3. \A i \in DOMAIN home : IsSeq(Items(home[i])) /\ Range(Items(home[i])) = Of(home[i].id)
  BY ItemsAre
<1>4. \A i \in DOMAIN home : Items(home[i]) \in Seq(S)
  <2> SUFFICES ASSUME NEW i \in DOMAIN home PROVE Items(home[i]) \in Seq(S)
    OBVIOUS
  <2> DEFINE q == Items(home[i])
             Q == Range(q)
  <2>1. Q \subseteq S
    OBVIOUS
  <2>2. q \in Seq(Q)
    BY <1>3 DEF IsSeq
  <2> HIDE DEF q, Q, S
  <2>3. q \in Seq(S)
    BY <2>1, <2>2
  <2> QED BY <2>3 DEF q
<1>5. ss \in Seq(Seq(S)) /\ Len(ss) = Len(home) /\ \A i \in DOMAIN home : ss[i] = Items(home[i])
  <2> DEFINE n == Len(home)
             T == Seq(S)
  <2>1. n \in Nat /\ ss = [i \in 1..n |-> ss[i]] /\ \A i \in 1..n : ss[i] \in T
    BY <1>2, <1>4
  <2>2. \A i \in DOMAIN home : ss[i] = Items(home[i])
    OBVIOUS
  <2> HIDE DEF n, T, ss
  <2>3. ss \in Seq(T) /\ Len(ss) = n
    BY <2>1
  <2> QED BY <2>2, <2>3 DEF n, T
<1> HIDE DEF ss, S
<1>6. todo' \in Seq(S) /\ Range(todo') = UNION {Range(ss[i]) : i \in 1..Len(ss)}
  BY <1>1, <1>5, FlattenIs
<1>7. UNION {Range(ss[i]) : i \in 1..Len(ss)} = UNION {Of(home[i].id) : i \in DOMAIN home}
  <2>1. 1..Len(ss) = DOMAIN home /\ \A i \in DOMAIN home : Range(ss[i]) = Of(home[i].id)
    BY <1>2, <1>3, <1>5
  <2> HIDE DEF Of
  <2> QED BY <2>1
<1>8. UNION {Of(home[i].id) : i \in DOMAIN home} = UNION {Of(u) : u \in Units}
  <2> HIDE DEF Of
  <2>1. {Of(home[i].id) : i \in DOMAIN home} = {Of(u) : u \in Units}
    BY DEF Units
  <2> QED BY <2>1
<1>9. IsSeq(todo')
  BY <1>6, SeqIs
<1> QED BY <1>6, <1>7, <1>8, <1>9

\* All the bridge keeps is of units of the home, and what Home Assistant shows has
\* been registered.
BridgeInv ==
    /\ cache = [u \in Units |-> cache[u]]
    /\ DOMAIN fetched = Units
    /\ IsSeq(wire) /\ IsSeq(todo)
    /\ \A i \in Range(wire) \union Range(todo) : i.unit \in Units
    /\ \A e \in entities : e[1] \in Units
    /\ DOMAIN shown \subseteq entities
    /\ commands \in 0..MaxCommands
    /\ disturbances \in 0..MaxDisturbances

LEMMA DisturbCounts ==
    ASSUME disturbances \in 0..MaxDisturbances, Disturb
    PROVE disturbances' \in 0..MaxDisturbances
<1>1. MaxDisturbances \in Nat
  BY DeviceMappingAssumption
<1>2. disturbances < MaxDisturbances /\ disturbances' = disturbances + 1
  BY DEF Disturb
<1> QED BY <1>1, <1>2

LEMMA BridgeDiscovers ==
    ASSUME HubInv, BridgeInv, Discover, commands' = commands
    PROVE BridgeInv'
<1>1. /\ fetched' = [u \in Units |-> RawAttributes(hub[u])]
      /\ entities' = entities \union
            UNION {MapDevice(TypeOf(u), u, RawAttributes(hub[u])) : u \in Units}
      /\ UNCHANGED <<home, cache, wire, shown>>
      /\ disturbances' = disturbances \/ Disturb
  BY DEF Discover
<1>2. Units' = Units
  BY <1>1 DEF Units
<1>3. \A u \in Units : \A e \in MapDevice(TypeOf(u), u, RawAttributes(hub[u])) : e[1] = u
  BY DEF MapDevice
<1>4. \A e \in entities' : e[1] \in Units
  BY <1>1, <1>3 DEF BridgeInv
<1>5. IsSeq(todo') /\ \A i \in Range(todo') : i.unit \in Units
  BY DiscoverTodo DEF Item
<1>6. disturbances' \in 0..MaxDisturbances
  BY <1>1, DisturbCounts DEF BridgeInv
<1> QED BY <1>1, <1>2, <1>4, <1>5, <1>6 DEF BridgeInv, IsSeq

\* An item that is taken changes the cache of its unit and at most its entity.
LEMMA ProcessKeeps ==
    ASSUME BridgeInv, NEW i, i.unit \in Units, NEW force, Process(i, force)
    PROVE /\ cache' = [w \in Units |-> IF w = i.unit THEN Put(cache[w], i.attr, i.value)
                                       ELSE cache[w]]
          /\ DOMAIN shown \subseteq DOMAIN shown' /\ DOMAIN shown' \subseteq entities
<1> DEFINE state == MapState(TypeOf(i.unit), i.unit, i.attr, i.value,
                             Put(cache[i.unit], i.attr, i.value))
<1>1. /\ cache' = [cache EXCEPT ![i.unit] = Put(cache[i.unit], i.attr, i.value)]
      /\ \/ shown' = shown
         \/ state.entity \in entities /\ shown' = Put(shown, state.entity, state.payload)
  BY DEF Process, Receivable
<1>2. DOMAIN Put(shown, state.entity, state.payload) = DOMAIN shown \union {state.entity}
  BY DEF Put
<1> HIDE DEF state
<1>3. DOMAIN shown \subseteq DOMAIN shown' /\ DOMAIN shown' \subseteq entities
  BY <1>1, <1>2 DEF BridgeInv
<1>4. cache' = [w \in Units |-> IF w = i.unit THEN Put(cache[w], i.attr, i.value)
                                ELSE cache[w]]
  BY <1>1 DEF BridgeInv
<1> QED BY <1>3, <1>4

LEMMA BridgeTakes ==
    ASSUME BridgeInv, PublishInitial \/ Receive, commands' = commands
    PROVE BridgeInv'
<1> SUFFICES ASSUME NEW i, NEW force, i.unit \in Units, Process(i, force),
                    IsSeq(wire'), IsSeq(todo'), Range(wire') \subseteq Range(wire),
                    Range(todo') \subseteq Range(todo),
                    UNCHANGED <<home, fetched, entities, disturbances>>
             PROVE BridgeInv'
  <2>1. CASE PublishInitial
    <3>1. /\ todo # <<>> /\ Process(Head(todo), TRUE) /\ todo' = Tail(todo) /\ wire' = wire
          /\ UNCHANGED <<home, fetched, entities, disturbances>>
      BY <2>1 DEF PublishInitial
    <3>2. /\ IsSeq(Tail(todo)) /\ Head(todo) \in Range(todo)
          /\ Range(todo) = {Head(todo)} \union Range(Tail(todo))
      BY <3>1, TailIs DEF BridgeInv
    <3>3. Head(todo).unit \in Units
      BY <3>2 DEF BridgeInv
    <3>4. IsSeq(wire) /\ IsSeq(wire') /\ IsSeq(todo')
      BY <3>1, <3>2 DEF BridgeInv
    <3> QED BY <3>1, <3>2, <3>3, <3>4
  <2>2. CASE Receive
    <3>1. /\ wire # <<>> /\ Process(Head(wire), FALSE) /\ wire' = Tail(wire) /\ todo' = todo
          /\ UNCHANGED <<home, fetched, entities, disturbances>>
      BY <2>2 DEF Receive
    <3>2. /\ IsSeq(Tail(wire)) /\ Head(wire) \in Range(wire)
          /\ Range(wire) = {Head(wire)} \union Range(Tail(wire))
      BY <3>1, TailIs DEF BridgeInv
    <3>3. Head(wire).unit \in Units
      BY <3>2 DEF BridgeInv
    <3>4. IsSeq(todo) /\ IsSeq(wire') /\ IsSeq(todo')
      BY <3>1, <3>2 DEF BridgeInv
    <3> QED BY <3>1, <3>2, <3>3, <3>4
  <2> QED BY <2>1, <2>2
<1>1. cache' = [w \in Units |-> cache'[w]] /\ DOMAIN shown' \subseteq entities
  BY ProcessKeeps
<1>2. Units' = Units
  BY DEF Units
<1> QED BY <1>1, <1>2 DEF BridgeInv, IsSeq

\* The hub has more to report, of units of the home.
LEMMA BridgeHears ==
    ASSUME HubInv, BridgeInv, NEW u \in Units, NEW new, IsFiniteSet(DOMAIN new), HubSets(u, new),
           UNCHANGED <<home, fetched, cache, entities, todo, shown>>,
           commands' \in 0..MaxCommands, disturbances' \in 0..MaxDisturbances
    PROVE BridgeInv'
<1>1. PICK r : /\ IsSeq(r) /\ wire' = wire \o r
               /\ \A i \in Range(r) : \E a \in DOMAIN new : \E w \in Reporters(u, a) :
                     w \in Units /\ hub[u][a] # new[a] /\ i = Report(w, a, new)
               /\ \A a \in DOMAIN new : \A w \in Reporters(u, a) :
                     hub[u][a] # new[a] => Report(w, a, new) \in Range(r)
  BY ReportsAre
<1>2. IsSeq(wire') /\ Range(wire') = Range(wire) \union Range(r)
  BY <1>1, ConcatIs DEF BridgeInv
<1>3. \A i \in Range(r) : i.unit \in Units
  BY <1>1 DEF Report
<1>4. Units' = Units
  BY DEF Units
<1> QED BY <1>2, <1>3, <1>4 DEF BridgeInv, IsSeq

LEMMA BridgeKept ==
    ASSUME BridgeInv, UNCHANGED devices,
           commands' \in 0..MaxCommands, disturbances' \in 0..MaxDisturbances
    PROVE BridgeInv'
<1>1. Units' = Units
  BY DEF Units, devices
<1> QED BY <1>1 DEF BridgeInv, IsSeq, devices

\* A PATCH that is heeded reports no more than it sets.
LEMMA BridgePatched ==
    ASSUME HubInv, BridgeInv, NEW u \in Units, NEW attrs, Heeded(attrs), HubPatches(u, attrs),
           commands' = commands
    PROVE BridgeInv'
<1> DEFINE heeded == IF "isOn" \in DOMAIN attrs THEN Only(attrs, {"isOn"}) ELSE attrs
           lasting == {a \in DOMAIN heeded : a = "playback" => heeded[a] \notin Momentary}
           new == Only(heeded, lasting)
<1>1. /\ HubSets(u, new)
      /\ UNCHANGED <<home, fetched, cache, entities, todo, shown, disturbances>>
  BY DEF HubPatches
<1>2. DOMAIN new \subseteq Settable
  BY DEF Only, Heeded
<1> HIDE DEF new
<1>4. IsFiniteSet(DOMAIN new)
  BY <1>2, SettableIsFinite, FS_Subset
<1>5. commands' \in 0..MaxCommands /\ disturbances' \in 0..MaxDisturbances
  BY <1>1 DEF BridgeInv
<1> QED BY <1>1, <1>4, <1>5, BridgeHears

LEMMA BridgeStep ==
    ASSUME HubInv, CommandInv, BridgeInv, [Next]_vars
    PROVE BridgeInv'
<1>1. CASE UNCHANGED vars
  <2>1. UNCHANGED devices /\ UNCHANGED <<commands, disturbances>>
    BY <1>1 DEF vars, mapping, devices
  <2>2. commands' \in 0..MaxCommands /\ disturbances' \in 0..MaxDisturbances
    BY <2>1 DEF BridgeInv
  <2> QED BY <2>1, <2>2, BridgeKept
<1>2. CASE Bridge
  BY <1>2, BridgeDiscovers, BridgeTakes DEF Bridge
<1>3. ASSUME NEW u \in Units, ByHand(u) PROVE BridgeInv'
  <2>1. PICK a, v : /\ HubSets(u, [b \in {a} |-> v]) /\ Disturb /\ commands' = commands
                    /\ UNCHANGED <<home, fetched, cache, entities, todo, shown>>
    BY <1>3 DEF ByHand, HubChanges
  <2> DEFINE new == [b \in {a} |-> v]
  <2>2. IsFiniteSet(DOMAIN new)
    BY FS_Singleton
  <2>3. commands' \in 0..MaxCommands /\ disturbances' \in 0..MaxDisturbances
    BY <2>1, DisturbCounts DEF BridgeInv
  <2>4. HubSets(u, new)
    BY <2>1
  <2> HIDE DEF new
  <2> QED BY <2>1, <2>2, <2>3, <2>4, BridgeHears
<1>4. ASSUME NEW u \in Units, NEW s \in Slots, NEW p \in Vocabulary[u], Command(s, u, p)
      PROVE BridgeInv'
  <2>1. commands < MaxCommands /\ commands' = commands + 1 /\ Disturb /\ UNCHANGED devices
    BY <1>4 DEF Command
  <2>2. commands' \in 0..MaxCommands /\ disturbances' \in 0..MaxDisturbances
    BY <2>1, DisturbCounts, CommandsAssumption DEF BridgeInv
  <2> QED BY <2>1, <2>2, BridgeKept
<1>5. ASSUME NEW s \in Slots, PatchArrives(s) PROVE BridgeInv'
  <2>1. Goes(s) /\ HubPatches(flight[s].unit, Head(flight[s].left)) /\ commands' = commands
    BY <1>5 DEF PatchArrives
  <2>2. OpenFlight(flight[s])
    BY <2>1 DEF CommandInv, FlightInv
  <2>3. Heeded(Head(flight[s].left)) /\ flight[s].unit \in Units
    BY <2>2, Stages DEF OpenFlight
  <2> QED BY <2>1, <2>3, BridgePatched
<1>6. ASSUME NEW s \in Slots, PatchAnswered(s) PROVE BridgeInv'
  <2>1. UNCHANGED devices /\ UNCHANGED <<commands, disturbances>>
    BY <1>6 DEF PatchAnswered, mapping, devices
  <2>2. commands' \in 0..MaxCommands /\ disturbances' \in 0..MaxDisturbances
    BY <2>1 DEF BridgeInv
  <2> QED BY <2>1, <2>2, BridgeKept
<1>7. ASSUME NEW s \in Slots, PatchFails(s) \/ PatchTimesOut(s) PROVE BridgeInv'
  <2>1. UNCHANGED devices /\ commands' = commands /\ Disturb
    BY <1>7 DEF PatchFails, PatchTimesOut
  <2>2. commands' \in 0..MaxCommands /\ disturbances' \in 0..MaxDisturbances
    BY <2>1, DisturbCounts DEF BridgeInv
  <2> QED BY <2>1, <2>2, BridgeKept
<1>8. ASSUME NEW l \in late, PatchLate(l) PROVE BridgeInv'
  <2>1. HubPatches(l.unit, l.attrs) /\ commands' = commands
    BY <1>8 DEF PatchLate
  <2>2. l.unit \in Units /\ Heeded(l.attrs)
    BY DEF CommandInv, LateInv
  <2> QED BY <2>1, <2>2, BridgePatched
<1> QED BY <1>1, <1>2, <1>3, <1>4, <1>5, <1>6, <1>7, <1>8 DEF Next, Callback

-----------------------------------------------------------------------------
(***************************************************************************)
(* What feeds the entities                                                 *)
(***************************************************************************)

\* Null is not the state of an entity.
NoneIsNoState == \A u, suffix, payload : State(u, suffix, payload) # None

Is(state, u, s) == state # None /\ state.entity = <<u, s>>

\* Attribute a of unit u, now v, is published for entity s of the unit although the
\* cache knows of nothing else.
Feeding(type, u, a, v, s) == Is(MapState(type, u, a, v, [b \in {a} |-> v]), u, s)

\* Buttons and the events of their presses have no state, nor has the battery of a
\* light sensor.
Exempt(type, s) == ~ HasStateTopic(type, s) \/ (type = "lightSensor" /\ s = "battery")

LEMMA IsState ==
    ASSUME NoneIsNoState, NEW u, NEW v, NEW s
    PROVE /\ Is(OnOff(u, s, v), u, s)
          /\ v # None => Is(Whole(u, s, v), u, s)
          /\ Is(Decimal(u, s, v), u, s)
          /\ Is(Text(u, s, v), u, s)
          /\ Is(Press(u, v), u, Main)
          /\ v # None => Is(Position(u, v), u, Main)
          /\ v # "customSpeed" => Is(FanMode(u, v), u, Main)
          /\ v # None => Is(MotorSpeed(u, v), u, Main)
          /\ v # None => Is(Location(u, v), u, "location")
<1>1. \A t, p : Is(State(u, t, p), u, t)
  BY DEF NoneIsNoState, Is, State
<1> QED BY <1>1 DEF OnOff, Whole, Decimal, Text, Press, Position, FanMode, MotorSpeed, Location

\* Of a unit: what each attribute is published as by itself.
LEMMA PresentFeeds ==
    ASSUME NoneIsNoState, NEW type \in DOMAIN Registry, NEW u, NEW v, v # None,
           NEW a \in DOMAIN Registry[type].present
    PROVE Feeding(type, u, a, v, Registry[type].present[a])
<1>1. CASE type \in {"outlet", "electricalSensor"}
  <2> DEFINE p == Registry[type].present
  <2>1. p = [currentActivePower |-> "power", currentVoltage |-> "voltage",
             currentAmps |-> "current", totalEnergyConsumed |-> "energy"]
    BY <1>1, HandlerOf DEF Outlet, ElectricalSensor
  <2>2. /\ a \in {"currentActivePower", "currentVoltage", "currentAmps", "totalEnergyConsumed"}
        /\ p["currentActivePower"] = "power" /\ p["currentVoltage"] = "voltage"
        /\ p["currentAmps"] = "current" /\ p["totalEnergyConsumed"] = "energy"
    BY <2>1
  <2> HIDE DEF p
  <2>3. \A attrs : MapState(type, u, a, v, attrs) = Decimal(u, p[a], v)
    <3>1. OutletState(u, a, v) = Decimal(u, p[a], v)
      BY <2>2 DEF OutletState
    <3>2. a # "isOn"
      BY <2>2
    <3> QED BY <1>1, <3>1, <3>2 DEF MapState, ElectricalSensorState
  <2> QED BY <2>3, IsState DEF Feeding, p
<1>2. CASE type = "environmentSensor"
  <2> DEFINE p == Registry[type].present
  <2>1. p = [currentTemperature |-> "temperature", currentRH |-> "humidity",
             currentPM25 |-> "pm25", vocIndex |-> "voc"]
    BY <1>2, HandlerOf DEF EnvironmentSensor
  <2>2. /\ a \in {"currentTemperature", "currentRH", "currentPM25", "vocIndex"}
        /\ p["currentTemperature"] = "temperature" /\ p["currentRH"] = "humidity"
        /\ p["currentPM25"] = "pm25" /\ p["vocIndex"] = "voc"
    BY <2>1
  <2> HIDE DEF p
  <2>3. \A attrs : MapState(type, u, a, v, attrs) = EnvironmentSensorState(u, a, v)
    BY <1>2 DEF MapState
  <2>4. EnvironmentSensorState(u, a, v) = IF a = "vocIndex" THEN Whole(u, p[a], v)
                                          ELSE Decimal(u, p[a], v)
    BY <2>2 DEF EnvironmentSensorState
  <2>5. Is(EnvironmentSensorState(u, a, v), u, p[a])
    BY <2>4, IsState
  <2> QED BY <2>3, <2>5 DEF Feeding, p
<1>3. CASE type = "airPurifier"
  <2> DEFINE p == Registry[type].present
  <2>1. p = [fanSensorPM25 |-> "pm25", filterLifetime |-> "filter"]
    BY <1>3, HandlerOf DEF AirPurifier
  <2>2. /\ a \in {"fanSensorPM25", "filterLifetime"}
        /\ p["fanSensorPM25"] = "pm25" /\ p["filterLifetime"] = "filter"
    BY <2>1
  <2> HIDE DEF p
  <2>3. \A attrs : MapState(type, u, a, v, attrs) = AirPurifierState(u, a, v)
    BY <1>3 DEF MapState
  <2>4. AirPurifierState(u, a, v) = IF a = "filterLifetime" THEN Whole(u, p[a], v)
                                    ELSE Decimal(u, p[a], v)
    BY <2>2 DEF AirPurifierState
  <2>5. Is(AirPurifierState(u, a, v), u, p[a])
    BY <2>4, IsState
  <2> QED BY <2>3, <2>5 DEF Feeding, p
<1>4. CASE type = "gateway"
  <2> DEFINE p == Registry[type].present
  <2>1. p = [backendConnected |-> "backend_connected", otaStatus |-> "ota_status",
             otaState |-> "ota_state", firmwareVersion |-> "firmware_version",
             homestate |-> "home_state", timezone |-> "timezone",
             nextSunRise |-> "next_sunrise", nextSunSet |-> "next_sunset",
             coordinates |-> "location"]
    BY <1>4, HandlerOf DEF Gateway
  <2>2. /\ a \in {"backendConnected", "otaStatus", "otaState", "firmwareVersion", "homestate",
                  "timezone", "nextSunRise", "nextSunSet", "coordinates"}
        /\ p["backendConnected"] = "backend_connected" /\ p["otaStatus"] = "ota_status"
        /\ p["otaState"] = "ota_state" /\ p["firmwareVersion"] = "firmware_version"
        /\ p["homestate"] = "home_state" /\ p["timezone"] = "timezone"
        /\ p["nextSunRise"] = "next_sunrise" /\ p["nextSunSet"] = "next_sunset"
        /\ p["coordinates"] = "location"
    BY <2>1
  <2> HIDE DEF p
  <2>3. \A attrs : MapState(type, u, a, v, attrs) = GatewayState(u, a, v)
    BY <1>4 DEF MapState
  <2>4. GatewayState(u, a, v) = IF a = "backendConnected" THEN OnOff(u, p[a], v)
                                ELSE IF a = "coordinates" THEN Location(u, v)
                                ELSE Text(u, p[a], v)
    BY <2>2 DEF GatewayState
  <2>5. Is(GatewayState(u, a, v), u, p[a])
    BY <2>2, <2>4, IsState
  <2> QED BY <2>3, <2>5 DEF Feeding, p
<1>5. CASE type \notin {"outlet", "electricalSensor", "environmentSensor", "airPurifier", "gateway"}
  <2>1. Registry[type].present = Nothing
    BY <1>5, HandlerOf, TypesKnown
       DEF Light, BinarySensor, LightSensor, LightController, Button, Blind, Speaker, Switch
  <2> QED BY <2>1 DEF Nothing
<1> QED BY <1>1, <1>2, <1>3, <1>4, <1>5

LEMMA BatteryFeeds ==
    ASSUME NoneIsNoState, NEW type \in DOMAIN Registry, NEW u, NEW v, v # None,
           Registry[type].battery, type # "lightSensor",
           type = "environmentSensor" => OwnsBattery(u)
    PROVE Feeding(type, u, "batteryPercentage", v, "battery")
<1>1. type \in {"motionSensor", "waterSensor", "environmentSensor", "lightController", "button",
                "shortcutController", "blind", "blinds"}
  BY HandlerOf, TypesKnown DEF Light, Outlet, ElectricalSensor, AirPurifier, Speaker, Gateway, Switch
<1>2. ASSUME type = "environmentSensor" PROVE BatteryOwner(u) = u
  BY <1>2 DEF BatteryOwner, OwnsBattery
<1>3. \A attrs : MapState(type, u, "batteryPercentage", v, attrs) = Whole(u, "battery", v)
  BY <1>1, <1>2 DEF MapState, MotionSensorState, WaterSensorState, EnvironmentSensorState,
                    ControllerState, ButtonState, BlindState
<1> QED BY <1>3, IsState DEF Feeding

\* The entities that are made in any case are fed when the unit lists what they live on.
LEMMA AlwaysFeeds ==
    ASSUME NoneIsNoState, NEW type \in DOMAIN Registry, NEW u, NEW attrs, Sated(type, attrs),
           NEW s \in Registry[type].always, ~ Exempt(type, s)
    PROVE LET raw == RawAttributes(attrs)
          IN \/ Feeding(type, u, "isReachable", TRUE, s)
             \/ \E a \in DOMAIN raw : Feeding(type, u, a, raw[a], s)
<1> DEFINE raw == RawAttributes(attrs)
<1>1. "isOn" \in DOMAIN raw /\ \A a \in DOMAIN attrs : a \in DOMAIN raw /\ raw[a] = attrs[a]
  BY DEF RawAttributes, Typed
<1> HIDE DEF raw
<1> SUFFICES \/ Feeding(type, u, "isReachable", TRUE, s)
             \/ \E a \in DOMAIN raw : Feeding(type, u, a, raw[a], s)
  BY DEF raw
<1>2. CASE type = "light"
  <2> DEFINE one == [b \in {"isOn"} |-> raw["isOn"]]
             fields == {k \in DOMAIN LightAttribute : LightHas(k, one)}
  <2>1. s = Main
    BY <1>2, HandlerOf DEF Light
  <2>2. "state" \in fields
    BY LightAttributes DEF LightHas
  <2>3. LightState(u, "isOn", one) = State(u, Main, Object([k \in fields |-> LightValue(k, one)]))
    BY <2>2, LightAttributes DEF LightState
  <2>4. Is(LightState(u, "isOn", one), u, Main)
    BY <2>3 DEF Is, State, NoneIsNoState
  <2> QED BY <1>1, <1>2, <2>1, <2>4 DEF Feeding, MapState
<1>3. CASE type \in {"outlet", "switch"}
  <2>1. s = Main
    BY <1>3, HandlerOf DEF Outlet, ElectricalSensor, Switch
  <2>2. \A v, c : MapState(type, u, "isOn", v, c) = OnOff(u, Main, v)
    BY <1>3 DEF MapState, OutletState, SwitchState
  <2>3. Feeding(type, u, "isOn", raw["isOn"], Main)
    BY <2>2, IsState DEF Feeding
  <2> QED BY <1>1, <2>1, <2>3
<1>4. CASE type \in {"lightController", "button", "shortcutController"}
  <2>1. s = Main
    BY <1>4, HandlerOf DEF LightController, Button
  <2> QED BY <1>4, <2>1 DEF Exempt, HasStateTopic
<1>5. CASE type \in {"motionSensor", "waterSensor"}
  <2> DEFINE a == IF type = "motionSensor" THEN "isDetected" ELSE "waterLeakDetected"
  <2>1. s = Main /\ a \in DOMAIN attrs
    BY <1>5, HandlerOf DEF BinarySensor, Sated
  <2>2. \A v, c : MapState(type, u, a, v, c) = OnOff(u, Main, v)
    BY <1>5 DEF MapState, MotionSensorState, WaterSensorState
  <2>3. Feeding(type, u, a, raw[a], Main)
    BY <2>2, IsState DEF Feeding
  <2> QED BY <1>1, <2>1, <2>3
<1>6. CASE type = "lightSensor"
  <2>1. s = "illuminance" /\ "illuminance" \in DOMAIN raw /\ raw["illuminance"] # None
    BY <1>1, <1>6, HandlerOf DEF LightSensor, Sated, Given
  <2>2. \A v, c : MapState(type, u, "illuminance", v, c) = Whole(u, "illuminance", v)
    BY <1>6 DEF MapState, LightSensorState
  <2>3. Feeding(type, u, "illuminance", raw["illuminance"], s)
    BY <2>1, <2>2, IsState DEF Feeding
  <2> QED BY <2>1, <2>3
<1>7. CASE type \in {"blind", "blinds"}
  <2>1. s = Main
    BY <1>7, HandlerOf DEF Blind
  <2>2. PICK a \in {"currentLevel", "blindsCurrentLevel"} : a \in DOMAIN raw /\ raw[a] # None
    BY <1>1, <1>7 DEF Sated, Given
  <2>3. \A v, c : MapState(type, u, a, v, c) = Position(u, v)
    BY <1>7, <2>2 DEF MapState, BlindState
  <2>4. Feeding(type, u, a, raw[a], s)
    BY <2>1, <2>2, <2>3, IsState DEF Feeding
  <2> QED BY <2>2, <2>4
<1>8. CASE type = "airPurifier"
  <2>1. s = Main
    BY <1>8, HandlerOf DEF AirPurifier
  <2>2. \A v, c : /\ MapState(type, u, "motorSpeed", v, c) = MotorSpeed(u, v)
                  /\ MapState(type, u, "fanMode", v, c) = FanMode(u, v)
    BY <1>8 DEF MapState, AirPurifierState
  <2>3. CASE Given(attrs, "motorSpeed")
    <3>1. "motorSpeed" \in DOMAIN raw /\ raw["motorSpeed"] # None
      BY <1>1, <2>3 DEF Given
    <3> QED BY <2>1, <2>2, <3>1, IsState DEF Feeding
  <2>4. CASE "fanMode" \in DOMAIN attrs /\ attrs["fanMode"] # "customSpeed"
    <3>1. "fanMode" \in DOMAIN raw /\ raw["fanMode"] # "customSpeed"
      BY <1>1, <2>4
    <3> QED BY <2>1, <2>2, <3>1, IsState DEF Feeding
  <2> QED BY <1>8, <2>3, <2>4 DEF Sated
<1>9. CASE type = "speaker"
  <2>1. s \in {"reachable", "playback", "volume", "power"}
    BY <1>9, HandlerOf DEF Speaker, Exempt, HasStateTopic
  <2>2. /\ "playback" \in DOMAIN raw /\ "volume" \in DOMAIN raw /\ raw["volume"] # None
    BY <1>1, <1>9 DEF Sated, Given
  <2>3. \A v, c : /\ MapState(type, u, "isReachable", v, c) = OnOff(u, "reachable", v)
                  /\ MapState(type, u, "playback", v, c) = Text(u, "playback", v)
                  /\ MapState(type, u, "volume", v, c) = Whole(u, "volume", v)
                  /\ MapState(type, u, "isOn", v, c) = OnOff(u, "power", v)
    BY <1>9 DEF MapState, SpeakerState
  <2>4. Feeding(type, u, "isReachable", TRUE, "reachable")
    BY <2>3, IsState DEF Feeding
  <2>5. Feeding(type, u, "playback", raw["playback"], "playback")
    BY <2>3, IsState DEF Feeding
  <2>6. Feeding(type, u, "volume", raw["volume"], "volume")
    BY <2>2, <2>3, IsState DEF Feeding
  <2>7. Feeding(type, u, "isOn", raw["isOn"], "power")
    BY <2>3, IsState DEF Feeding
  <2> QED BY <1>1, <2>1, <2>2, <2>4, <2>5, <2>6, <2>7
<1>10. CASE type = "gateway"
  <2>1. s = "reachable"
    BY <1>10, HandlerOf DEF Gateway
  <2>2. \A v, c : MapState(type, u, "isReachable", v, c) = OnOff(u, "reachable", v)
    BY <1>10 DEF MapState, GatewayState
  <2> QED BY <2>1, <2>2, IsState DEF Feeding
<1>11. CASE type \in {"electricalSensor", "environmentSensor"}
  BY <1>11, HandlerOf DEF ElectricalSensor, EnvironmentSensor
<1> QED BY <1>2, <1>3, <1>4, <1>5, <1>6, <1>7, <1>8, <1>9, <1>10, <1>11, TypesKnown

\* The other way round of HandlersCoverMapper: what the handlers make of a unit, the
\* state mapper feeds from what the unit lists.
LEMMA MapperFeedsHandlers ==
    ASSUME NoneIsNoState, NEW type, NEW u, NEW attrs, Sated(type, attrs),
           NEW e \in MapDevice(type, u, RawAttributes(attrs))
    PROVE LET raw == RawAttributes(attrs)
          IN \E s : /\ e = <<u, s>>
                    /\ \/ Exempt(type, s)
                       \/ Feeding(type, u, "isReachable", TRUE, s)
                       \/ \E a \in DOMAIN raw : Feeding(type, u, a, raw[a], s)
<1> DEFINE raw == RawAttributes(attrs)
           handler == Registry[type]
           present == {handler.present[b] : b \in {c \in DOMAIN handler.present : Given(raw, c)}}
           battery == IF HasBattery(type, u, raw) THEN {"battery"} ELSE {}
           suffixes == handler.always \union present \union battery
<1>1. type \in DOMAIN Registry /\ e \in {<<u, s>> : s \in suffixes}
  BY DEF MapDevice
<1>2. PICK s \in suffixes : e = <<u, s>>
  BY <1>1
<1>3. CASE s \in handler.always
  BY <1>1, <1>2, <1>3, AlwaysFeeds
<1>4. CASE s \in present
  <2>1. PICK a \in DOMAIN handler.present : Given(raw, a) /\ s = handler.present[a]
    BY <1>4
  <2> HIDE DEF raw
  <2>2. a \in DOMAIN raw /\ raw[a] # None
    BY <2>1 DEF Given
  <2>3. Feeding(type, u, a, raw[a], s)
    BY <1>1, <2>1, <2>2, PresentFeeds
  <2> QED BY <1>2, <2>2, <2>3 DEF raw
<1>5. CASE s \in battery
  <2>1. s = "battery" /\ HasBattery(type, u, raw)
    BY <1>5
  <2> HIDE DEF raw
  <2>2. CASE type = "lightSensor"
    BY <1>2, <2>1, <2>2 DEF Exempt
  <2>3. CASE type # "lightSensor"
    <3>1. "batteryPercentage" \in DOMAIN raw /\ raw["batteryPercentage"] # None
      BY <2>1 DEF HasBattery, Given
    <3>2. Feeding(type, u, "batteryPercentage", raw["batteryPercentage"], s)
      BY <1>1, <2>1, <2>3, <3>1, BatteryFeeds DEF HasBattery
    <3> QED BY <1>2, <3>1, <3>2 DEF raw
  <2> QED BY <2>2, <2>3
<1> QED BY <1>2, <1>3, <1>4, <1>5

\* What feeds an entity by itself does so whatever else the cache knows.
LEMMA FeedingStays ==
    ASSUME NoneIsNoState, NEW type, NEW u, NEW a, NEW v, NEW s, Feeding(type, u, a, v, s), NEW cached
    PROVE Is(MapState(type, u, a, v, Put(cached, a, v)), u, s)
<1> DEFINE one == [b \in {a} |-> v]
           attrs == Put(cached, a, v)
<1>1. /\ a \in DOMAIN attrs /\ attrs[a] = v /\ one[a] = v /\ DOMAIN one = {a}
  BY DEF Put
<1> HIDE DEF one, attrs
<1>2. Is(MapState(type, u, a, v, one), u, s)
  BY DEF Feeding, one
<1>3. CASE type = "light"
  <2> DEFINE lone == {k \in DOMAIN LightAttribute : LightHas(k, one)}
             fields == {k \in DOMAIN LightAttribute : LightHas(k, attrs)}
  <2>1. LightState(u, a, one) # None /\ LightState(u, a, one).entity = <<u, s>>
    BY <1>2, <1>3 DEF MapState, Is
  <2>2. lone # {} /\ (\E k \in DOMAIN LightAttribute : LightAttribute[k] = a)
        /\ LightState(u, a, one) = State(u, Main, Object([k \in lone |-> LightValue(k, one)]))
    BY <2>1 DEF LightState
  <2>3. s = Main
    BY <2>1, <2>2 DEF State
  <2>4. PICK k \in DOMAIN LightAttribute : LightHas(k, one)
    BY <2>2
  <2>5. k \notin {"h", "s"}
    BY <1>1, <2>4 DEF LightHas
  <2>6. LightAttribute[k] = a /\ (k # "state" => v # None) /\ (k = "color_temp" => v > 0)
    BY <1>1, <2>4, LightAttributes DEF LightHas
  <2>7. LightHas(k, attrs)
    BY <1>1, <2>5, <2>6, LightAttributes DEF LightHas
  <2>8. LightState(u, a, attrs) = State(u, Main, Object([j \in fields |-> LightValue(j, attrs)]))
    BY <2>2, <2>7 DEF LightState
  <2>9. Is(LightState(u, a, attrs), u, s)
    BY <2>3, <2>8 DEF Is, State, NoneIsNoState
  <2> QED BY <1>3, <2>9 DEF MapState, attrs
<1>4. CASE type # "light"
  <2>1. MapState(type, u, a, v, attrs) = MapState(type, u, a, v, one)
    BY <1>4 DEF MapState
  <2> QED BY <1>2, <2>1 DEF attrs
<1> QED BY <1>3, <1>4

\* What is set does not starve an entity.
Mild(attrs) ==
    /\ \A a \in Essential \intersect DOMAIN attrs : attrs[a] # None
    /\ "fanMode" \in DOMAIN attrs /\ attrs["fanMode"] = "customSpeed" => CustomSpeed

LEMMA CommandIsMild ==
    ASSUME NEW type, NEW p, MapCommand(type, p) # None
    PROVE Mild(MapCommand(type, p))
<1>1. CASE type = "light"
  <2>1. MapCommand(type, p) = LightCommand(p) /\ LightCommand(p) # None
    BY <1>1 DEF MapCommand
  <2>2. DOMAIN LightCommand(p) \subseteq
            {"isOn", "lightLevel", "colorTemperature", "colorHue", "colorSaturation"}
    <3>1. CASE p \in {Word("ON"), Word("OFF")}
      <4>1. LightCommand(p) = Power(p)
        BY <3>1 DEF LightCommand, Word, IsNumber
      <4> QED BY <4>1 DEF Power
    <3>2. CASE p \notin {Word("ON"), Word("OFF")} /\ p[1] = "object"
      <4>1. LightCommand(p) = LightFields(p[2])
        BY <2>1, <3>2 DEF LightCommand, IsNumber
      <4>2. DOMAIN LightFields(p[2]) \subseteq {LightAttribute[k] : k \in DOMAIN LightAttribute}
        BY DEF LightFields
      <4> QED BY <4>1, <4>2 DEF LightAttribute
    <3>3. CASE p \notin {Word("ON"), Word("OFF")} /\ p[1] # "object"
      BY <2>1, <3>3 DEF LightCommand
    <3> QED BY <3>1, <3>2, <3>3
  <2> QED BY <2>1, <2>2 DEF Mild, Essential
<1>2. CASE type \in {"outlet", "switch"}
  BY <1>2 DEF MapCommand, SwitchCommand, Power, Mild, Essential
<1>3. CASE type \in {"blind", "blinds"}
  <2>1. MapCommand(type, p) = BlindCommand(p) /\ BlindCommand(p) # None
    BY <1>3 DEF MapCommand
  <2>2. PICK n \in Int : BlindCommand(p) = [currentLevel |-> n]
    <3>1. CASE IsWord(p, "OPEN")
      <4>1. BlindCommand(p) = [currentLevel |-> 0]
        BY <3>1 DEF BlindCommand, IsWord, Word, IsNumber
      <4> QED BY <4>1
    <3>2. CASE ~ IsWord(p, "OPEN") /\ IsWord(p, "CLOSE")
      <4>1. BlindCommand(p) = [currentLevel |-> 100]
        BY <3>2 DEF BlindCommand, IsWord, Word, IsNumber
      <4> QED BY <4>1
    <3>3. CASE ~ IsWord(p, "OPEN") /\ ~ IsWord(p, "CLOSE")
      <4>1. p[2] \in 0..100 /\ BlindCommand(p) = [currentLevel |-> 100 - p[2]]
        BY <2>1, <3>3 DEF BlindCommand, IsNumber
      <4>2. 100 - p[2] \in Int
        BY <4>1
      <4> QED BY <4>1, <4>2
    <3> QED BY <3>1, <3>2, <3>3
  <2> QED BY <2>1, <2>2, NoneAssumption DEF Mild, Essential
<1>4. CASE type = "airPurifier"
  <2>1. MapCommand(type, p) = AirPurifierCommand(p) /\ AirPurifierCommand(p) # None
    BY <1>4 DEF MapCommand
  <2>2. PICK m \in {"off", "low", "medium", "high", "auto"} :
            AirPurifierCommand(p) = [fanMode |-> m]
    BY <2>1 DEF AirPurifierCommand, PctToFanMode
  <2> QED BY <2>1, <2>2 DEF Mild, Essential
<1>5. CASE type = "speaker"
  <2>1. MapCommand(type, p) = SpeakerCommand(p) /\ SpeakerCommand(p) # None
    BY <1>5 DEF MapCommand
  <2>2. \/ DOMAIN SpeakerCommand(p) \in {{"isOn"}, {"playback"}}
        \/ \E n \in Int : SpeakerCommand(p) = [volume |-> n]
    BY <2>1 DEF SpeakerCommand, IsNumber, Power
  <2> QED BY <2>1, <2>2, NoneAssumption DEF Mild, Essential
<1>6. CASE type \notin {"light", "outlet", "switch", "blind", "blinds", "airPurifier", "speaker"}
  BY <1>6 DEF MapCommand
<1> QED BY <1>1, <1>2, <1>3, <1>4, <1>5, <1>6

\* The hub goes on listing what the entities live on.
SatedInv ==
    /\ \A u \in Units : Sated(TypeOf(u), hub[u])
    /\ \A l \in late : Mild(l.attrs)

LEMMA SatedSets ==
    ASSUME HubInv, \A u \in Units : Sated(TypeOf(u), hub[u]), home' = home,
           NEW u \in Units, NEW new, Mild(new), HubSets(u, new)
    PROVE \A w \in Units : Sated(TypeOf(w), hub[w])'
<1> SUFFICES ASSUME NEW w \in Units PROVE Sated(TypeOf(w), hub'[w])
  BY DEF TypeOf, Unit, Sated, Given, CustomSpeed
<1>1. hub'[w] = [a \in DOMAIN hub[w] |->
                    IF a \in {b \in DOMAIN new : hub[u][b] # new[b]} /\ w \in Reporters(u, a)
                    THEN new[a] ELSE hub[w][a]]
  BY DEF HubSets
<1>2. DOMAIN hub'[w] = DOMAIN hub[w]
  BY <1>1
<1>3. \A a \in DOMAIN hub[w] : hub'[w][a] = hub[w][a] \/ (a \in DOMAIN new /\ hub'[w][a] = new[a])
  BY <1>1
<1>4. \A a \in Essential : Given(hub[w], a) => Given(hub'[w], a)
  BY <1>2, <1>3 DEF Mild, Given
<1>5. ASSUME "fanMode" \in DOMAIN hub[w], hub[w]["fanMode"] # "customSpeed", ~ CustomSpeed
      PROVE "fanMode" \in DOMAIN hub'[w] /\ hub'[w]["fanMode"] # "customSpeed"
  BY <1>2, <1>3, <1>5 DEF Mild
<1>6. Sated(TypeOf(w), hub[w])
  OBVIOUS
<1> QED BY <1>2, <1>4, <1>5, <1>6 DEF Sated, Essential

LEMMA SatedPatched ==
    ASSUME HubInv, \A u \in Units : Sated(TypeOf(u), hub[u]),
           NEW u \in Units, NEW attrs, Mild(attrs), HubPatches(u, attrs)
    PROVE \A w \in Units : Sated(TypeOf(w), hub[w])'
<1> DEFINE heeded == IF "isOn" \in DOMAIN attrs THEN Only(attrs, {"isOn"}) ELSE attrs
           lasting == {a \in DOMAIN heeded : a = "playback" => heeded[a] \notin Momentary}
           new == Only(heeded, lasting)
<1>1. HubSets(u, new) /\ home' = home
  BY DEF HubPatches
<1>2. DOMAIN new \subseteq DOMAIN attrs /\ \A a \in DOMAIN new : new[a] = attrs[a]
  BY DEF Only
<1> HIDE DEF new
<1>3. Mild(new)
  BY <1>2 DEF Mild
<1> QED BY <1>1, <1>3, SatedSets

LEMMA SatedStep ==
    ASSUME Equipped, HubInv, CommandInv, SatedInv, [Next]_vars
    PROVE SatedInv'
<1>1. ASSUME UNCHANGED <<home, hub, late>> PROVE SatedInv'
  BY <1>1 DEF SatedInv, Units, TypeOf, Unit, Sated, Given, CustomSpeed, Mild
<1>2. \A u \in Units : Sated(TypeOf(u), hub[u])
  BY DEF SatedInv
<1>3. ASSUME home' = home, \A w \in Units : Sated(TypeOf(w), hub[w])',
             \A l \in late' : Mild(l.attrs)
      PROVE SatedInv'
  <2>1. Units' = Units
    BY <1>3 DEF Units
  <2> QED BY <1>3, <2>1 DEF SatedInv, Mild, CustomSpeed
<1>4. CASE UNCHANGED vars
  BY <1>1, <1>4 DEF vars, mapping, net
<1>5. CASE Bridge
  BY <1>1, <1>5 DEF Bridge, net, Discover, PublishInitial, Receive
<1>6. ASSUME NEW u \in Units, ByHand(u) PROVE SatedInv'
  <2>1. PICK a \in DOMAIN Values : \E v \in Values[a] : HubSets(u, [b \in {a} |-> v])
    BY <1>6 DEF ByHand, HubChanges
  <2>2. PICK v \in Values[a] : HubSets(u, [b \in {a} |-> v])
    BY <2>1
  <2>3. Mild([b \in {a} |-> v])
    BY DEF Equipped, Mild, CustomSpeed
  <2>4. home' = home /\ late' = late
    BY <1>6 DEF ByHand, HubChanges
  <2>5. \A w \in Units : Sated(TypeOf(w), hub[w])'
    BY <1>2, <2>2, <2>3, <2>4, SatedSets
  <2> QED BY <1>3, <2>4, <2>5 DEF SatedInv
<1>7. ASSUME NEW u \in Units, NEW s \in Slots, NEW p \in Vocabulary[u], Command(s, u, p)
      PROVE SatedInv'
  BY <1>1, <1>7 DEF Command, devices
<1>8. ASSUME NEW s \in Slots, Goes(s) PROVE Mild(Head(flight[s].left)) /\ flight[s].unit \in Units
  <2> DEFINE f == flight[s]
             attrs == Asked(f.unit, f.payload)
             patch == Head(f.left)
  <2>1. OpenFlight(f)
    BY <1>8 DEF CommandInv, FlightInv
  <2>2. \A a \in DOMAIN patch : a \in DOMAIN attrs /\ patch[a] = attrs[a]
    BY <2>1, Stages
  <2>3. Mild(attrs)
    BY <2>1, CommandIsMild DEF OpenFlight, Asked
  <2> HIDE DEF patch, attrs
  <2>4. Mild(patch)
    BY <2>2, <2>3 DEF Mild
  <2> QED BY <2>1, <2>4 DEF OpenFlight, patch
<1>9. ASSUME NEW s \in Slots, PatchArrives(s) PROVE SatedInv'
  <2>1. Goes(s) /\ HubPatches(flight[s].unit, Head(flight[s].left)) /\ late' = late
    BY <1>9 DEF PatchArrives
  <2>2. home' = home
    BY <2>1 DEF HubPatches
  <2>3. \A w \in Units : Sated(TypeOf(w), hub[w])'
    BY <1>2, <1>8, <2>1, SatedPatched
  <2> QED BY <1>3, <2>1, <2>2, <2>3 DEF SatedInv
<1>10. ASSUME NEW s \in Slots, PatchAnswered(s) \/ PatchFails(s) PROVE SatedInv'
  BY <1>1, <1>10 DEF PatchAnswered, PatchFails, mapping, devices
<1>11. ASSUME NEW s \in Slots, PatchTimesOut(s) PROVE SatedInv'
  <2>1. /\ Goes(s) /\ home' = home /\ hub' = hub
        /\ late' = late \union {[unit |-> flight[s].unit, attrs |-> Head(flight[s].left)]}
    BY <1>11 DEF PatchTimesOut, devices
  <2>2. \A l \in late' : Mild(l.attrs)
    BY <1>8, <2>1 DEF SatedInv
  <2>3. \A w \in Units : Sated(TypeOf(w), hub[w])'
    BY <1>2, <2>1 DEF TypeOf, Unit, Sated, Given, CustomSpeed
  <2> QED BY <1>3, <2>1, <2>2, <2>3
<1>12. ASSUME NEW l \in late, PatchLate(l) PROVE SatedInv'
  <2>1. HubPatches(l.unit, l.attrs) /\ late' = late \ {l}
    BY <1>12 DEF PatchLate
  <2>2. l.unit \in Units /\ Mild(l.attrs) /\ home' = home
    BY <2>1 DEF CommandInv, LateInv, SatedInv, HubPatches
  <2>3. \A w \in Units : Sated(TypeOf(w), hub[w])'
    BY <1>2, <2>1, <2>2, SatedPatched
  <2> QED BY <1>3, <2>1, <2>2, <2>3 DEF SatedInv
<1> QED BY <1>4, <1>5, <1>6, <1>7, <1>9, <1>10, <1>11, <1>12 DEF Next, Callback

\* Item i is published for entity e.
Brings(i, e) ==
    /\ e = <<i.unit, e[2]>>
    /\ Feeding(TypeOf(i.unit), i.unit, i.attr, i.value, e[2])

\* Every entity has been shown, or an attribute that feeds it is yet to be published.
Handled(e) ==
    \/ Exempt(TypeOf(e[1]), e[2])
    \/ e \in DOMAIN shown
    \/ \E i \in Range(todo) : Brings(i, e)

FedInv == \A e \in entities : Handled(e)

LEMMA FedDiscovers ==
    ASSUME NoneIsNoState, HubInv, SatedInv, FedInv, Discover
    PROVE FedInv'
<1>1. /\ entities' = entities \union
            UNION {MapDevice(TypeOf(u), u, RawAttributes(hub[u])) : u \in Units}
      /\ UNCHANGED <<home, hub, shown>> /\ todo = <<>>
  BY DEF Discover
<1>2. \A w : TypeOf(w)' = TypeOf(w)
  BY <1>1 DEF TypeOf, Unit
<1>3. \A i, e : Brings(i, e)' <=> Brings(i, e)
  BY <1>2 DEF Brings, Feeding, Is
<1>4. Range(todo) = {}
  BY <1>1 DEF Range
<1> SUFFICES ASSUME NEW e \in entities'
             PROVE \/ Exempt(TypeOf(e[1]), e[2]) \/ e \in DOMAIN shown
                   \/ \E i \in Range(todo') : Brings(i, e)
  BY <1>1, <1>2, <1>3 DEF FedInv, Handled, Exempt
<1>5. CASE e \in entities
  BY <1>4, <1>5 DEF FedInv, Handled
<1>6. CASE e \notin entities
  <2>1. PICK u \in Units : e \in MapDevice(TypeOf(u), u, RawAttributes(hub[u]))
    BY <1>1, <1>6
  <2> DEFINE raw == RawAttributes(hub[u])
             type == TypeOf(u)
  <2>2. PICK s : /\ e = <<u, s>>
                 /\ \/ Exempt(type, s)
                    \/ Feeding(type, u, "isReachable", TRUE, s)
                    \/ \E a \in DOMAIN raw : Feeding(type, u, a, raw[a], s)
    <3>1. Sated(type, hub[u])
      BY DEF SatedInv
    <3> QED BY <2>1, <3>1, MapperFeedsHandlers
  <2>3. e[1] = u /\ e[2] = s
    BY <2>2
  <2> HIDE DEF raw
  <2>4. /\ Item(u, "isReachable", TRUE) \in Range(todo')
        /\ \A a \in DOMAIN raw : Item(u, a, raw[a]) \in Range(todo')
    <3>1. Range(todo') = UNION {{Item(w, "isReachable", TRUE)}
                 \union {Item(w, a, RawAttributes(hub[w])[a]) :
                             a \in DOMAIN RawAttributes(hub[w])} : w \in Units}
      BY DiscoverTodo
    <3>2. {Item(u, "isReachable", TRUE)}
             \union {Item(u, a, RawAttributes(hub[u])[a]) :
                         a \in DOMAIN RawAttributes(hub[u])} \subseteq Range(todo')
      BY <3>1
    <3> QED BY <3>2 DEF raw
  <2>5. ASSUME NEW a, NEW v, Feeding(type, u, a, v, s) PROVE Brings(Item(u, a, v), e)
    BY <2>2, <2>3, <2>5 DEF Brings, Item
  <2> QED BY <2>2, <2>3, <2>4, <2>5
<1> QED BY <1>5, <1>6

LEMMA FedPublishes ==
    ASSUME NoneIsNoState, BridgeInv, FedInv, PublishInitial
    PROVE FedInv'
<1> DEFINE i == Head(todo)
<1>1. /\ todo # <<>> /\ todo' = Tail(todo) /\ Process(i, TRUE) /\ UNCHANGED <<home, entities>>
  BY DEF PublishInitial
<1>2. i \in Range(todo) /\ Range(todo) = {i} \union Range(todo')
  BY <1>1, TailIs DEF BridgeInv
<1>3. i.unit \in Units
  BY <1>2 DEF BridgeInv
<1>4. DOMAIN shown \subseteq DOMAIN shown'
  BY <1>1, <1>3, ProcessKeeps
<1>5. \A w : TypeOf(w)' = TypeOf(w)
  BY <1>1 DEF TypeOf, Unit
<1>6. \A j, e : Brings(j, e)' <=> Brings(j, e)
  BY <1>5 DEF Brings, Feeding, Is
<1>7. ASSUME NEW e \in entities, Brings(i, e), ~ Exempt(TypeOf(e[1]), e[2])
      PROVE e \in DOMAIN shown'
  <2> DEFINE state == MapState(TypeOf(i.unit), i.unit, i.attr, i.value,
                               Put(cache[i.unit], i.attr, i.value))
  <2>1. e = <<i.unit, e[2]>> /\ Feeding(TypeOf(i.unit), i.unit, i.attr, i.value, e[2])
    BY <1>7 DEF Brings
  <2>2. Is(state, i.unit, e[2])
    BY <2>1, FeedingStays
  <2>3. state # None /\ state.entity = e
    BY <2>1, <2>2 DEF Is
  <2>4. shown' = Put(shown, state.entity, state.payload)
    BY <1>1, <1>7, <2>3 DEF Process, Receivable, Exempt
  <2> HIDE DEF state
  <2> QED BY <2>3, <2>4 DEF Put
<1> SUFFICES ASSUME NEW e \in entities
             PROVE \/ Exempt(TypeOf(e[1]), e[2]) \/ e \in DOMAIN shown'
                   \/ \E j \in Range(todo') : Brings(j, e)
  BY <1>1, <1>5, <1>6 DEF FedInv, Handled, Exempt
<1> HIDE DEF i
<1>8. Handled(e)
  BY DEF FedInv
<1> QED BY <1>2, <1>4, <1>7, <1>8 DEF Handled

LEMMA FedKept ==
    ASSUME FedInv, UNCHANGED <<home, entities, todo>>, DOMAIN shown \subseteq DOMAIN shown'
    PROVE FedInv'
<1>1. \A w : TypeOf(w)' = TypeOf(w)
  BY DEF TypeOf, Unit
<1>2. \A i, e : Brings(i, e)' <=> Brings(i, e)
  BY <1>1 DEF Brings, Feeding, Is
<1>3. ASSUME NEW e \in entities, Handled(e) PROVE Handled(e)'
  BY <1>1, <1>2, <1>3 DEF Handled, Exempt
<1> QED BY <1>3 DEF FedInv

LEMMA FedStep ==
    ASSUME NoneIsNoState, HubInv, SatedInv, BridgeInv, FedInv, [Next]_vars
    PROVE FedInv'
<1>1. ASSUME UNCHANGED <<home, entities, todo, shown>> PROVE FedInv'
  BY <1>1, FedKept
<1>2. CASE UNCHANGED vars
  BY <1>1, <1>2 DEF vars, mapping
<1>3. CASE Bridge
  <2>1. CASE Receive
    <3>1. /\ wire # <<>> /\ Process(Head(wire), FALSE) /\ UNCHANGED <<home, entities, todo>>
      BY <2>1 DEF Receive
    <3>2. Head(wire) \in Range(wire)
      BY <3>1, TailIs DEF BridgeInv
    <3>3. Head(wire).unit \in Units
      BY <3>2 DEF BridgeInv
    <3> QED BY <3>1, <3>3, ProcessKeeps, FedKept
  <2> QED BY <1>3, <2>1, FedDiscovers, FedPublishes DEF Bridge
<1>4. ASSUME NEW u \in Units, ByHand(u) PROVE FedInv'
  BY <1>1, <1>4 DEF ByHand, HubChanges
<1>5. ASSUME NEW u \in Units, NEW s \in Slots, NEW p \in Vocabulary[u], Command(s, u, p)
      PROVE FedInv'
  BY <1>1, <1>5 DEF Command, devices
<1>6. ASSUME NEW s \in Slots, PatchArrives(s) PROVE FedInv'
  BY <1>1, <1>6 DEF PatchArrives, HubPatches
<1>7. ASSUME NEW s \in Slots, PatchAnswered(s) \/ PatchFails(s) \/ PatchTimesOut(s) PROVE FedInv'
  BY <1>1, <1>7 DEF PatchAnswered, PatchFails, PatchTimesOut, mapping, devices
<1>8. ASSUME NEW l \in late, PatchLate(l) PROVE FedInv'
  BY <1>1, <1>8 DEF PatchLate, HubPatches
<1> QED BY <1>2, <1>3, <1>4, <1>5, <1>6, <1>7, <1>8 DEF Next, Callback

-----------------------------------------------------------------------------
(***************************************************************************)
(* What Home Assistant shows                                               *)
(***************************************************************************)

LEMMA StateShape ==
    ASSUME NEW type, NEW u, NEW a, NEW v, NEW attrs, MapState(type, u, a, v, attrs) # None
    PROVE LET state == MapState(type, u, a, v, attrs)
          IN state = [entity |-> state.entity, payload |-> state.payload]
<1> DEFINE Shaped(state) == state = None
                            \/ state = [entity |-> state.entity, payload |-> state.payload]
<1>1. \A w, s, x : Shaped(State(w, s, x)) /\ Shaped(None)
  BY DEF State
<1>2. \A w, s, x : /\ Shaped(OnOff(w, s, x)) /\ Shaped(Whole(w, s, x)) /\ Shaped(Decimal(w, s, x))
                   /\ Shaped(Text(w, s, x)) /\ Shaped(Press(w, x)) /\ Shaped(Position(w, x))
                   /\ Shaped(FanMode(w, x)) /\ Shaped(MotorSpeed(w, x)) /\ Shaped(Location(w, x))
  <2> HIDE DEF Shaped
  <2> QED BY <1>1 DEF OnOff, Whole, Decimal, Text, Press, Position, FanMode, MotorSpeed, Location
<1> HIDE DEF Shaped
<1>3. Shaped(LightState(u, a, attrs))
  BY <1>1 DEF LightState
<1>4. /\ Shaped(OutletState(u, a, v)) /\ Shaped(ElectricalSensorState(u, a, v))
      /\ Shaped(MotionSensorState(u, a, v)) /\ Shaped(WaterSensorState(u, a, v))
      /\ Shaped(LightSensorState(u, a, v)) /\ Shaped(EnvironmentSensorState(u, a, v))
  BY <1>1, <1>2 DEF OutletState, ElectricalSensorState, MotionSensorState, WaterSensorState,
                    LightSensorState, EnvironmentSensorState
<1>5. /\ Shaped(ControllerState(u, a, v)) /\ Shaped(ButtonState(u, a, v))
      /\ Shaped(BlindState(u, a, v)) /\ Shaped(AirPurifierState(u, a, v))
      /\ Shaped(SpeakerState(u, a, v)) /\ Shaped(SwitchState(u, a, v))
  BY <1>1, <1>2 DEF ControllerState, ButtonState, BlindState, AirPurifierState, SpeakerState,
                    SwitchState
<1>6. Shaped(GatewayState(u, a, v))
  BY <1>1, <1>2 DEF GatewayState
<1>7. Shaped(MapState(type, u, a, v, attrs))
  BY <1>1, <1>3, <1>4, <1>5, <1>6 DEF MapState
<1> QED BY <1>7 DEF Shaped

\* Of all but lights: what is published once is published again, for the same entity.
LEMMA PublishedAgain ==
    ASSUME NoneIsNoState, NEW type, type # "light", NEW u, NEW a, NEW v, NEW w,
           w = v \/ Publishable(a, w), NEW c, NEW d, MapState(type, u, a, v, c) # None
    PROVE /\ MapState(type, u, a, w, d) # None
          /\ MapState(type, u, a, w, d).entity = MapState(type, u, a, v, c).entity
<1> DEFINE Both(p, q) == p # None => q # None /\ q.entity = p.entity
<1>1. w = v \/ (w # None /\ (a = "fanMode" => w # "customSpeed"))
  BY DEF Publishable
<1>2. Both(None, None)
  OBVIOUS
<1>3. ASSUME NEW x, NEW s
      PROVE /\ Both(OnOff(x, s, v), OnOff(x, s, w)) /\ Both(Whole(x, s, v), Whole(x, s, w))
            /\ Both(Decimal(x, s, v), Decimal(x, s, w)) /\ Both(Text(x, s, v), Text(x, s, w))
            /\ Both(Press(x, v), Press(x, w)) /\ Both(Position(x, v), Position(x, w))
            /\ Both(MotorSpeed(x, v), MotorSpeed(x, w)) /\ Both(Location(x, v), Location(x, w))
            /\ a = "fanMode" => Both(FanMode(x, v), FanMode(x, w))
  <2>1. CASE w = v
    BY <2>1
  <2>2. CASE w # None /\ (a = "fanMode" => w # "customSpeed")
    <3>1. /\ Is(OnOff(x, s, w), x, s) /\ Is(Whole(x, s, w), x, s) /\ Is(Decimal(x, s, w), x, s)
          /\ Is(Text(x, s, w), x, s) /\ Is(Press(x, w), x, Main) /\ Is(Position(x, w), x, Main)
          /\ Is(MotorSpeed(x, w), x, Main) /\ Is(Location(x, w), x, "location")
          /\ a = "fanMode" => Is(FanMode(x, w), x, Main)
      BY <2>2, IsState
    <3> QED BY <3>1, EntityOfState DEF Is
  <2> QED BY <1>1, <2>1, <2>2
<1> HIDE DEF Both
<1>4. /\ Both(OutletState(u, a, v), OutletState(u, a, w))
      /\ Both(ElectricalSensorState(u, a, v), ElectricalSensorState(u, a, w))
      /\ Both(MotionSensorState(u, a, v), MotionSensorState(u, a, w))
      /\ Both(WaterSensorState(u, a, v), WaterSensorState(u, a, w))
      /\ Both(LightSensorState(u, a, v), LightSensorState(u, a, w))
      /\ Both(EnvironmentSensorState(u, a, v), EnvironmentSensorState(u, a, w))
  BY <1>2, <1>3 DEF OutletState, ElectricalSensorState, MotionSensorState, WaterSensorState,
                    LightSensorState, EnvironmentSensorState
<1>5. /\ Both(ControllerState(u, a, v), ControllerState(u, a, w))
      /\ Both(ButtonState(u, a, v), ButtonState(u, a, w))
      /\ Both(BlindState(u, a, v), BlindState(u, a, w))
      /\ Both(AirPurifierState(u, a, v), AirPurifierState(u, a, w))
      /\ Both(SpeakerState(u, a, v), SpeakerState(u, a, w))
      /\ Both(SwitchState(u, a, v), SwitchState(u, a, w))
  BY <1>2, <1>3 DEF ControllerState, ButtonState, BlindState, AirPurifierState, SpeakerState,
                    SwitchState
<1>6. Both(GatewayState(u, a, v), GatewayState(u, a, w))
  BY <1>2, <1>3 DEF GatewayState
<1>7. Both(MapState(type, u, a, v, c), MapState(type, u, a, w, d))
  BY <1>2, <1>4, <1>5, <1>6 DEF MapState
<1> QED BY <1>7 DEF Both

\* Of a light: an attribute of its payload brings a new one, any other leaves it.
LEMMA LightPublishedAgain ==
    ASSUME NoneIsNoState, NEW u, NEW a, NEW v, NEW b, NEW c, LightState(u, b, c) # None,
           a \in DOMAIN c => (v = c[a] \/ Publishable(a, v))
    PROVE LET attrs == Put(c, a, v)
          IN IF \E k \in DOMAIN LightAttribute : LightAttribute[k] = a
             THEN /\ LightState(u, a, attrs) # None
                  /\ LightState(u, a, attrs).entity = LightState(u, b, c).entity
             ELSE LightState(u, b, attrs) = LightState(u, b, c)
<1> DEFINE attrs == Put(c, a, v)
           old == {k \in DOMAIN LightAttribute : LightHas(k, c)}
           fields == {k \in DOMAIN LightAttribute : LightHas(k, attrs)}
<1>1. /\ DOMAIN attrs = DOMAIN c \union {a} /\ attrs[a] = v
      /\ \A x \in DOMAIN c : x # a => attrs[x] = c[x]
  BY DEF Put
<1> HIDE DEF attrs
<1>2. /\ old # {} /\ LightState(u, b, c) = State(u, Main, Object([k \in old |-> LightValue(k, c)]))
      /\ \E k \in DOMAIN LightAttribute : LightAttribute[k] = b
  BY DEF LightState
<1>3. CASE \E k \in DOMAIN LightAttribute : LightAttribute[k] = a
  <2>1. PICK k \in DOMAIN LightAttribute : LightHas(k, c)
    BY <1>2
  <2>2. LightHas(k, attrs)
    <3>1. \A x \in DOMAIN c : /\ x \in DOMAIN attrs
                              /\ c[x] # None => attrs[x] # None
                              /\ (x = "colorTemperature" /\ c[x] # None /\ c[x] > 0) => attrs[x] > 0
      BY <1>1 DEF Publishable
    <3> QED BY <2>1, <3>1, LightAttributes DEF LightHas
  <2>3. LightState(u, a, attrs) = State(u, Main, Object([j \in fields |-> LightValue(j, attrs)]))
    BY <1>3, <2>2 DEF LightState
  <2> QED BY <1>2, <1>3, <2>3 DEF State, NoneIsNoState, attrs
<1>4. CASE ~ \E k \in DOMAIN LightAttribute : LightAttribute[k] = a
  <2>1. a \notin {"isOn", "lightLevel", "colorTemperature", "colorHue", "colorSaturation"}
    BY <1>4, LightAttributes
  <2>2. \A x \in {"isOn", "lightLevel", "colorTemperature", "colorHue", "colorSaturation"} :
            (x \in DOMAIN attrs <=> x \in DOMAIN c) /\ (x \in DOMAIN c => attrs[x] = c[x])
    BY <1>1, <2>1
  <2>3. \A k \in DOMAIN LightAttribute : LightHas(k, attrs) <=> LightHas(k, c)
    BY <2>2, LightAttributes DEF LightHas
  <2>4. fields = old
    BY <2>3
  <2>5. ASSUME NEW k \in old PROVE LightValue(k, attrs) = LightValue(k, c)
    <3>1. LightAttribute[k] \in DOMAIN c
      BY DEF LightHas
    <3>2. attrs[LightAttribute[k]] = c[LightAttribute[k]]
      BY <2>2, <3>1, LightAttributes
    <3>3. k \in {"state", "brightness", "color_temp", "h", "s"}
      BY LightAttributes
    <3> QED BY <3>2, <3>3, LightAttributes DEF LightValue
  <2>6. [k \in fields |-> LightValue(k, attrs)] = [k \in old |-> LightValue(k, c)]
    BY <2>4, <2>5
  <2>7. LightState(u, b, attrs) = State(u, Main, Object([k \in fields |-> LightValue(k, attrs)]))
    BY <1>2, <2>4 DEF LightState
  <2> QED BY <1>2, <1>4, <2>6, <2>7 DEF attrs
<1> QED BY <1>3, <1>4

\* All there is to publish of a unit.
Full(attrs) == Put(RawAttributes(attrs), "isReachable", TRUE)
Now(u) == Full(hub[u])
Start(u) == Full(Unit(u).attrs)

LEMMA NowIs ==
    ASSUME Steady, HubInv, NEW u \in Units
    PROVE /\ "isReachable" \notin DOMAIN hub[u]
          /\ DOMAIN Now(u) = DOMAIN hub[u] \union DOMAIN Typed \union {"isReachable"}
          /\ Now(u)["isReachable"] = TRUE
          /\ \A a \in DOMAIN hub[u] : Now(u)[a] = hub[u][a]
          /\ \A a \in DOMAIN Typed \ DOMAIN hub[u] : Now(u)[a] = Typed[a]
          /\ DOMAIN Now(u) = DOMAIN RawAttributes(hub[u]) \union {"isReachable"}
          /\ \A a \in DOMAIN RawAttributes(hub[u]) :
                a # "isReachable" /\ Now(u)[a] = RawAttributes(hub[u])[a]
          /\ Now(u) = [a \in DOMAIN Now(u) |-> Now(u)[a]]
<1>1. PICK i \in DOMAIN home : home[i].id = u /\ Unit(u) = home[i]
  BY UnitListed
<1>2. "isReachable" \notin DOMAIN home[i].attrs /\ DOMAIN hub[u] = DOMAIN home[i].attrs
  BY <1>1 DEF HubInv, Steady
<1>3. "isReachable" \notin DOMAIN Typed
  BY DEF Typed
<1>4. /\ DOMAIN RawAttributes(hub[u]) = DOMAIN hub[u] \union DOMAIN Typed
      /\ \A a \in DOMAIN hub[u] : RawAttributes(hub[u])[a] = hub[u][a]
      /\ \A a \in DOMAIN Typed \ DOMAIN hub[u] : RawAttributes(hub[u])[a] = Typed[a]
  BY DEF RawAttributes
<1> QED BY <1>2, <1>3, <1>4 DEF Now, Full, Put

About(i, u, a) == i.unit = u /\ i.attr = a

\* The last the hub reported of an attribute is what it has.
WireInv ==
    \A n \in 1..Len(wire) :
        (\A m \in 1..Len(wire) : m > n => ~ About(wire[m], wire[n].unit, wire[n].attr))
        => wire[n].value = Now(wire[n].unit)[wire[n].attr]

\* Of what has no report under way, what a discovery left to publish is still so, and
\* the cache is right when there is nothing left.
LatestInv ==
    \A u \in Units : \A a \in DOMAIN Now(u) : (\A i \in Range(wire) : ~ About(i, u, a)) =>
        /\ \A i \in Range(todo) : About(i, u, a) => i.value = Now(u)[a]
        /\ entities # {} /\ (\A i \in Range(todo) : ~ About(i, u, a))
              => a \in DOMAIN cache[u] /\ cache[u][a] = Now(u)[a]

\* The bridge knows of no attribute that the hub does not list.
KnownInv ==
    /\ \A i \in Range(wire) \union Range(todo) : i.attr \in DOMAIN Now(i.unit)
    /\ \A u \in Units : /\ cache[u] = [a \in DOMAIN cache[u] |-> cache[u][a]]
                        /\ DOMAIN cache[u] \subseteq DOMAIN Now(u)

\* A value that cannot be published is one the unit had from the start, and once it
\* can be it always can.
Grown(u, a, v) ==
    /\ Publishable(a, v) => Publishable(a, Now(u)[a])
    /\ ~ Publishable(a, v) => v = Start(u)[a]

GrownInv ==
    /\ \A u \in Units : \A a \in DOMAIN Now(u) : Grown(u, a, Now(u)[a])
    /\ \A i \in Range(wire) : Publishable(i.attr, i.value) /\ Grown(i.unit, i.attr, i.value)
    /\ \A i \in Range(todo) : Grown(i.unit, i.attr, i.value)
    /\ \A u \in Units : \A a \in DOMAIN cache[u] : Grown(u, a, cache[u][a])
    /\ \A i \in Range(todo) : ~ Publishable(i.attr, i.value) =>
          /\ i.attr \in DOMAIN cache[i.unit] => ~ Publishable(i.attr, cache[i.unit][i.attr])
          /\ \A j \in Range(todo) : About(j, i.unit, i.attr) => j.value = i.value

\* What an entity shows is what the cache makes of one of its attributes.
ShowsOf(u, a, e) ==
    /\ MapState(TypeOf(u), u, a, cache[u][a], cache[u]) # None
    /\ MapState(TypeOf(u), u, a, cache[u][a], cache[u]) = [entity |-> e, payload |-> shown[e]]

ShownInv ==
    \A e \in DOMAIN shown :
        /\ HasStateTopic(TypeOf(e[1]), e[2])
        /\ \E u \in Units : \E a \in DOMAIN cache[u] : ShowsOf(u, a, e)

ViewInv == WireInv /\ LatestInv /\ KnownInv /\ GrownInv /\ ShownInv

\* What the hub is asked to set it can be asked for, and can be published.
Asks(u, new) == \A a \in DOMAIN new : a \in DOMAIN hub[u] /\ Publishable(a, new[a])

LEMMA NowSets ==
    ASSUME Steady, HubInv, HubInv', NEW u \in Units, NEW new, Asks(u, new), HubSets(u, new), home' = home
    PROVE /\ \A w \in Units : DOMAIN Now(w)' = DOMAIN Now(w)
          /\ \A w \in Units : \A a \in DOMAIN Now(w) :
                \/ /\ a \in DOMAIN new /\ hub[u][a] # new[a] /\ w \in Reporters(u, a)
                   /\ Now(w)'[a] = new[a]
                \/ /\ ~ (a \in DOMAIN new /\ hub[u][a] # new[a] /\ w \in Reporters(u, a))
                   /\ Now(w)'[a] = Now(w)[a]
          /\ \A a \in DOMAIN new : \A w \in Reporters(u, a) : w \in Units /\ a \in DOMAIN Now(w)
<1>1. ASSUME NEW a \in DOMAIN new, NEW w \in Reporters(u, a) PROVE w \in Units /\ a \in DOMAIN hub[w]
  BY <1>1 DEF Reporters, Asks
<1>2. Units' = Units
  BY DEF Units
<1>3. ASSUME NEW w \in Units
      PROVE /\ DOMAIN hub'[w] = DOMAIN hub[w]
            /\ \A a \in DOMAIN hub[w] : hub'[w][a] =
                  IF a \in DOMAIN new /\ hub[u][a] # new[a] /\ w \in Reporters(u, a)
                  THEN new[a] ELSE hub[w][a]
  BY DEF HubSets
<1>4. ASSUME NEW w \in Units
      PROVE /\ Now(w)' = Full(hub'[w])
            /\ DOMAIN Now(w)' = DOMAIN hub'[w] \union DOMAIN Typed \union {"isReachable"}
            /\ Now(w)'["isReachable"] = TRUE
            /\ \A a \in DOMAIN hub'[w] : a # "isReachable" /\ Now(w)'[a] = hub'[w][a]
            /\ \A a \in DOMAIN Typed \ DOMAIN hub'[w] : Now(w)'[a] = Typed[a]
  <2>1. "isReachable" \notin DOMAIN hub[w]
    BY NowIs
  <2>2. Now(w)' = Full(hub'[w]) /\ "isReachable" \notin DOMAIN hub'[w]
    BY <1>3, <2>1 DEF Now, Full, Put, RawAttributes, Typed
  <2>3. "isReachable" \notin DOMAIN Typed
    BY DEF Typed
  <2>4. /\ DOMAIN RawAttributes(hub'[w]) = DOMAIN hub'[w] \union DOMAIN Typed
        /\ \A a \in DOMAIN hub'[w] : RawAttributes(hub'[w])[a] = hub'[w][a]
        /\ \A a \in DOMAIN Typed \ DOMAIN hub'[w] : RawAttributes(hub'[w])[a] = Typed[a]
    BY DEF RawAttributes
  <2> QED BY <2>2, <2>3, <2>4 DEF Full, Put
<1>5. ASSUME NEW w \in Units
      PROVE /\ DOMAIN Now(w) = DOMAIN hub[w] \union DOMAIN Typed \union {"isReachable"}
            /\ Now(w)["isReachable"] = TRUE
            /\ \A a \in DOMAIN hub[w] : Now(w)[a] = hub[w][a]
            /\ \A a \in DOMAIN Typed \ DOMAIN hub[w] : Now(w)[a] = Typed[a]
  BY NowIs
<1>6. \A w \in Units : DOMAIN Now(w)' = DOMAIN Now(w)
  BY <1>3, <1>4, <1>5, ZenonT(40)
<1>7. ASSUME NEW w \in Units, NEW a \in DOMAIN Now(w)
      PROVE \/ /\ a \in DOMAIN new /\ hub[u][a] # new[a] /\ w \in Reporters(u, a)
               /\ Now(w)'[a] = new[a]
            \/ /\ ~ (a \in DOMAIN new /\ hub[u][a] # new[a] /\ w \in Reporters(u, a))
               /\ Now(w)'[a] = Now(w)[a]
  <2>1. CASE a \in DOMAIN hub[w]
    <3>1. a \in DOMAIN hub'[w] /\ hub'[w][a] =
              IF a \in DOMAIN new /\ hub[u][a] # new[a] /\ w \in Reporters(u, a)
              THEN new[a] ELSE hub[w][a]
      BY <1>3, <2>1
    <3>2. Now(w)'[a] = hub'[w][a]
      BY <1>4, <3>1
    <3>3. Now(w)[a] = hub[w][a]
      BY <1>5, <2>1
    <3> QED BY <3>1, <3>2, <3>3
  <2>2. CASE a \notin DOMAIN hub[w]
    <3>1. Now(w)'[a] = Now(w)[a]
      <4>1. CASE a = "isReachable"
        <5>1. Now(w)["isReachable"] = TRUE
          BY <1>5
        <5>2. Now(w)'["isReachable"] = TRUE
          BY <1>4
        <5> QED BY <4>1, <5>1, <5>2
      <4>2. CASE a # "isReachable"
        <5>1. a \in DOMAIN Typed \ DOMAIN hub[w]
          BY <1>5, <2>2, <4>2
        <5>2. a \in DOMAIN Typed \ DOMAIN hub'[w]
          BY <1>3, <5>1
        <5>3. Now(w)[a] = Typed[a]
          BY <1>5, <5>1
        <5>4. Now(w)'[a] = Typed[a]
          BY <1>4, <5>2
        <5> QED BY <5>3, <5>4
      <4> QED BY <4>1, <4>2
    <3> QED BY <1>1, <2>2, <3>1
  <2> QED BY <2>1, <2>2
<1>8. \A a \in DOMAIN new : \A w \in Reporters(u, a) : w \in Units /\ a \in DOMAIN Now(w)
  BY <1>1, <1>5
<1> QED BY <1>6, <1>7, <1>8

LEMMA OwnAttributeOnly ==
    ASSUME NEW type, type # "light", NEW u, NEW a, NEW v, NEW c, NEW d
    PROVE MapState(type, u, a, v, c) = MapState(type, u, a, v, d)
BY DEF MapState

\* An item that is taken leaves no entity behind: an entity that its attribute fed
\* shows the new value, any other shows what it did and that is still so.
LEMMA ProcessShows ==
    ASSUME NoneIsNoState, BridgeInv, ShownInv, NEW i, NEW force, i.unit \in Units, Process(i, force),
           cache[i.unit] = [a \in DOMAIN cache[i.unit] |-> cache[i.unit][a]],
           i.attr \in DOMAIN cache[i.unit]
              => i.value = cache[i.unit][i.attr] \/ Publishable(i.attr, i.value),
           UNCHANGED <<home, entities>>
    PROVE ShownInv'
<1> DEFINE u == i.unit
           a == i.attr
           v == i.value
           attrs == Put(cache[u], a, v)
           state == MapState(TypeOf(u), u, a, v, attrs)
           publishes == (force \/ Changed(i)) /\ Receivable(state)
<1>1. /\ cache'[u] = attrs /\ \A w \in Units : w # u => cache'[w] = cache[w]
      /\ DOMAIN attrs = DOMAIN cache[u] \union {a} /\ attrs[a] = v
      /\ \A b \in DOMAIN cache[u] : b # a => attrs[b] = cache[u][b]
  <2>1. cache' = [w \in Units |-> IF w = u THEN Put(cache[w], a, v) ELSE cache[w]]
    BY ProcessKeeps
  <2>2. /\ DOMAIN attrs = DOMAIN cache[u] \union {a} /\ attrs[a] = v
        /\ \A b \in DOMAIN cache[u] : b # a => attrs[b] = cache[u][b]
    BY DEF Put
  <2> HIDE DEF a, v
  <2> QED BY <2>1, <2>2
<1>2. shown' = IF publishes THEN Put(shown, state.entity, state.payload) ELSE shown
  BY DEF Process
<1>3. Units' = Units /\ \A w : TypeOf(w)' = TypeOf(w)
  BY DEF Units, TypeOf, Unit
<1>4. Changed(i) \/ attrs = cache[u]
  BY DEF Changed, Put
<1>5. state # None => state = [entity |-> state.entity, payload |-> state.payload]
  BY StateShape
<1> DEFINE New(w, b, e) ==
              /\ MapState(TypeOf(w), w, b, cache'[w][b], cache'[w]) # None
              /\ MapState(TypeOf(w), w, b, cache'[w][b], cache'[w]) = [entity |-> e, payload |-> shown'[e]]
<1> SUFFICES ASSUME NEW e \in DOMAIN shown'
             PROVE /\ HasStateTopic(TypeOf(e[1]), e[2])
                   /\ \E w \in Units : \E b \in DOMAIN cache'[w] : New(w, b, e)
  BY <1>3 DEF ShownInv, ShowsOf, HasStateTopic
<1>6. CASE publishes /\ e = state.entity
  <2>0. HasStateTopic(TypeOf(e[1]), e[2]) /\ state # None
    BY <1>6 DEF Receivable
  <2>1. shown'[e] = state.payload
    BY <1>2, <1>6 DEF Put
  <2>2. a \in DOMAIN cache'[u] /\ MapState(TypeOf(u), u, a, cache'[u][a], cache'[u]) = state
    BY <1>1
  <2>3. New(u, a, e)
    BY <1>5, <1>6, <2>0, <2>1, <2>2
  <2> QED BY <2>0, <2>2, <2>3
<1>7. CASE ~ (publishes /\ e = state.entity)
  <2>1. e \in DOMAIN shown /\ shown'[e] = shown[e]
    BY <1>2, <1>7 DEF Put
  <2>6. HasStateTopic(TypeOf(e[1]), e[2])
    BY <2>1 DEF ShownInv
  <2>0. PICK w \in Units : \E b \in DOMAIN cache[w] : ShowsOf(w, b, e)
    BY <2>1 DEF ShownInv
  <2>2. PICK b \in DOMAIN cache[w] : ShowsOf(w, b, e)
    BY <2>0
  <2> DEFINE old == MapState(TypeOf(w), w, b, cache[w][b], cache[w])
  <2>3. old # None /\ old = [entity |-> e, payload |-> shown[e]] /\ old.entity = e /\ e \in entities
    BY <2>1, <2>2 DEF ShowsOf, BridgeInv
  <2>4. CASE cache'[w] = cache[w]
    BY <2>1, <2>3, <2>4, <2>6
  <2>5. CASE w = u /\ Changed(i)
    <3>1. ~ (state # None /\ state.entity = e)
      BY <1>7, <2>3, <2>5, <2>6 DEF Receivable
    <3> SUFFICES b \in DOMAIN attrs /\ MapState(TypeOf(u), u, b, attrs[b], attrs) = old
      BY <1>1, <2>1, <2>3, <2>5, <2>6
    <3>2. b \in DOMAIN attrs
      BY <1>1, <2>5
    <3>3. CASE TypeOf(u) # "light"
      <4>1. b # a
        <5> SUFFICES ASSUME b = a PROVE FALSE
          OBVIOUS
        <5>1. v = cache[u][a] \/ Publishable(a, v)
          BY <2>5
        <5>2. MapState(TypeOf(u), u, a, cache[u][a], cache[u]) # None
          BY <2>3, <2>5
        <5>3. state # None /\ state.entity = MapState(TypeOf(u), u, a, cache[u][a], cache[u]).entity
          <6> HIDE DEF attrs, a, u, v
          <6> QED BY <3>3, <5>1, <5>2, PublishedAgain
        <5> QED BY <2>3, <2>5, <3>1, <5>3
      <4>2. attrs[b] = cache[u][b]
        BY <1>1, <2>5, <4>1
      <4>3. MapState(TypeOf(u), u, b, cache[u][b], attrs) = MapState(TypeOf(u), u, b, cache[u][b], cache[u])
        <5> HIDE DEF attrs, u
        <5> QED BY <3>3, OwnAttributeOnly
      <4> QED BY <2>5, <3>2, <4>2, <4>3
    <3>4. CASE TypeOf(u) = "light"
      <4>1. \A x, c, y : MapState(TypeOf(u), u, x, y, c) = LightState(u, x, c)
        BY <3>4 DEF MapState
      <4>2. LightState(u, b, cache[u]) # None /\ old = LightState(u, b, cache[u])
        BY <2>3, <2>5, <4>1
      <4>3. a \in DOMAIN cache[u] => v = cache[u][a] \/ Publishable(a, v)
        OBVIOUS
      <4>4. IF \E k \in DOMAIN LightAttribute : LightAttribute[k] = a
            THEN /\ LightState(u, a, attrs) # None
                 /\ LightState(u, a, attrs).entity = LightState(u, b, cache[u]).entity
            ELSE LightState(u, b, attrs) = LightState(u, b, cache[u])
        <5> HIDE DEF a, u, v
        <5> QED BY <4>2, <4>3, LightPublishedAgain
      <4>5. state = LightState(u, a, attrs)
        BY <4>1
      <4>6. LightState(u, b, attrs) = old
        BY <2>3, <3>1, <4>2, <4>4, <4>5
      <4> QED BY <3>2, <4>1, <4>6
    <3> QED BY <3>3, <3>4
  <2> QED BY <1>1, <1>4, <2>4, <2>5
<1> QED BY <1>6, <1>7

LEMMA HubStill ==
    ASSUME UNCHANGED <<home, hub>>
    PROVE /\ Units' = Units
          /\ \A w : Now(w)' = Now(w) /\ Start(w)' = Start(w) /\ TypeOf(w)' = TypeOf(w)
          /\ \A w, b, x : Grown(w, b, x)' <=> Grown(w, b, x)
<1>1. \A w : Unit(w)' = Unit(w)
  BY DEF Unit
<1>2. \A w : Now(w)' = Now(w) /\ Start(w)' = Start(w) /\ TypeOf(w)' = TypeOf(w)
  BY <1>1 DEF Now, Start, TypeOf
<1> QED BY <1>2 DEF Units, Grown

\* What taking an item does to all that does not depend on where it comes from.
LEMMA CacheTakes ==
    ASSUME HubInv, BridgeInv, KnownInv, GrownInv, NEW i, NEW force, i.unit \in Units,
           Process(i, force), i.attr \in DOMAIN Now(i.unit), Grown(i.unit, i.attr, i.value),
           UNCHANGED <<home, hub>>
    PROVE /\ \A w \in Units : \A b : ~ About(i, w, b) =>
                /\ b \in DOMAIN cache'[w] <=> b \in DOMAIN cache[w]
                /\ b \in DOMAIN cache[w] => cache'[w][b] = cache[w][b]
          /\ i.attr \in DOMAIN cache'[i.unit] /\ cache'[i.unit][i.attr] = i.value
          /\ \A w \in Units : /\ cache'[w] = [b \in DOMAIN cache'[w] |-> cache'[w][b]]
                              /\ DOMAIN cache'[w] \subseteq DOMAIN Now(w)
          /\ \A w \in Units : \A b \in DOMAIN cache'[w] : Grown(w, b, cache'[w][b])
<1> DEFINE u == i.unit
           a == i.attr
           v == i.value
<1>1. cache' = [w \in Units |-> IF w = u THEN Put(cache[w], a, v) ELSE cache[w]]
  BY ProcessKeeps
<1>2. \A f : /\ DOMAIN Put(f, a, v) = DOMAIN f \union {a} /\ Put(f, a, v)[a] = v
             /\ \A b \in DOMAIN f : b # a => Put(f, a, v)[b] = f[b]
             /\ Put(f, a, v) = [b \in DOMAIN Put(f, a, v) |-> Put(f, a, v)[b]]
  BY DEF Put
<1>3. u \in Units /\ a \in DOMAIN Now(u) /\ Grown(u, a, v)
  OBVIOUS
<1>4. \A w, b : About(i, w, b) <=> (w = u /\ b = a)
  BY DEF About
<1>5. \A w \in Units : /\ cache[w] = [b \in DOMAIN cache[w] |-> cache[w][b]]
                       /\ DOMAIN cache[w] \subseteq DOMAIN Now(w)
  BY DEF KnownInv
<1>6. \A w \in Units : \A b \in DOMAIN cache[w] : Grown(w, b, cache[w][b])
  BY DEF GrownInv
<1> HIDE DEF u, a, v
<1>7. /\ DOMAIN cache'[u] = DOMAIN cache[u] \union {a} /\ cache'[u][a] = v
      /\ \A b \in DOMAIN cache[u] : b # a => cache'[u][b] = cache[u][b]
      /\ cache'[u] = [b \in DOMAIN cache'[u] |-> cache'[u][b]]
  BY <1>1, <1>2, <1>3
<1>8. \A w \in Units : w # u => cache'[w] = cache[w]
  BY <1>1
<1>9. \A w \in Units : \A b : ~ About(i, w, b) =>
          /\ b \in DOMAIN cache'[w] <=> b \in DOMAIN cache[w]
          /\ b \in DOMAIN cache[w] => cache'[w][b] = cache[w][b]
  BY <1>4, <1>7, <1>8
<1>10. ASSUME NEW w \in Units
       PROVE /\ cache'[w] = [b \in DOMAIN cache'[w] |-> cache'[w][b]]
             /\ DOMAIN cache'[w] \subseteq DOMAIN Now(w)
  <2>1. CASE w = u
    BY <1>3, <1>5, <1>7, <2>1
  <2>2. CASE w # u
    BY <1>5, <1>8, <2>2
  <2> QED BY <2>1, <2>2
<1>11. ASSUME NEW w \in Units, NEW b \in DOMAIN cache'[w] PROVE Grown(w, b, cache'[w][b])
  <2>1. CASE w = u /\ b = a
    BY <1>3, <1>7, <2>1
  <2>2. CASE w = u /\ b # a
    <3>1. b \in DOMAIN cache[u] /\ cache'[u][b] = cache[u][b]
      BY <1>7, <2>2
    <3> QED BY <1>6, <2>2, <3>1
  <2>3. CASE w # u
    BY <1>6, <1>8, <2>3
  <2> QED BY <2>1, <2>2, <2>3
<1> QED BY <1>7, <1>9, <1>10, <1>11 DEF u, a, v

LEMMA ViewPublishes ==
    ASSUME NoneIsNoState, HubInv, BridgeInv, ViewInv, PublishInitial
    PROVE ViewInv'
<1> USE DEF ViewInv
<1>1. PICK i : /\ i = Head(todo) /\ Process(i, TRUE) /\ todo # <<>> /\ todo' = Tail(todo)
               /\ UNCHANGED <<home, hub, wire, entities>>
  BY DEF PublishInitial
<1>2. i \in Range(todo) /\ Range(todo) = {i} \union Range(todo')
  BY <1>1, TailIs DEF BridgeInv
<1>3. i.unit \in Units /\ i.attr \in DOMAIN Now(i.unit) /\ Grown(i.unit, i.attr, i.value)
  BY <1>2 DEF BridgeInv, KnownInv, GrownInv
<1>4. /\ Units' = Units
      /\ \A w : Now(w)' = Now(w) /\ Start(w)' = Start(w) /\ TypeOf(w)' = TypeOf(w)
      /\ \A w, b, x : Grown(w, b, x)' <=> Grown(w, b, x)
  BY <1>1, HubStill
<1>5. /\ \A w \in Units : \A b : ~ About(i, w, b) =>
            /\ b \in DOMAIN cache'[w] <=> b \in DOMAIN cache[w]
            /\ b \in DOMAIN cache[w] => cache'[w][b] = cache[w][b]
      /\ i.attr \in DOMAIN cache'[i.unit] /\ cache'[i.unit][i.attr] = i.value
      /\ \A w \in Units : /\ cache'[w] = [b \in DOMAIN cache'[w] |-> cache'[w][b]]
                          /\ DOMAIN cache'[w] \subseteq DOMAIN Now(w)
      /\ \A w \in Units : \A b \in DOMAIN cache'[w] : Grown(w, b, cache'[w][b])
  <2>1. KnownInv /\ GrownInv
    OBVIOUS
  <2>2. Process(i, TRUE) /\ UNCHANGED <<home, hub>>
    BY <1>1
  <2> QED BY <1>3, <2>1, <2>2, CacheTakes
<1>6. WireInv'
  BY <1>1, <1>4 DEF WireInv, About
<1>7. LatestInv'
  <2> SUFFICES ASSUME NEW w \in Units, NEW b \in DOMAIN Now(w),
                      \A j \in Range(wire) : ~ About(j, w, b)
               PROVE /\ \A j \in Range(todo') : About(j, w, b) => j.value = Now(w)[b]
                     /\ entities # {} /\ (\A j \in Range(todo') : ~ About(j, w, b))
                           => b \in DOMAIN cache'[w] /\ cache'[w][b] = Now(w)[b]
    BY <1>1, <1>4 DEF LatestInv, About
  <2>1. /\ \A j \in Range(todo) : About(j, w, b) => j.value = Now(w)[b]
        /\ entities # {} /\ (\A j \in Range(todo) : ~ About(j, w, b))
              => b \in DOMAIN cache[w] /\ cache[w][b] = Now(w)[b]
    BY DEF LatestInv
  <2>2. CASE About(i, w, b)
    <3>1. i.value = Now(w)[b] /\ i.unit = w /\ i.attr = b
      BY <1>2, <2>1, <2>2 DEF About
    <3> QED BY <1>2, <1>5, <2>1, <3>1
  <2>3. CASE ~ About(i, w, b)
    BY <1>2, <1>5, <2>1, <2>3
  <2> QED BY <2>2, <2>3
<1>8. KnownInv'
  BY <1>1, <1>2, <1>4, <1>5 DEF KnownInv
<1>9. GrownInv'
  <2>1. ASSUME NEW j \in Range(todo'), ~ Publishable(j.attr, j.value)
        PROVE /\ j.attr \in DOMAIN cache'[j.unit] => ~ Publishable(j.attr, cache'[j.unit][j.attr])
              /\ \A k \in Range(todo') : About(k, j.unit, j.attr) => k.value = j.value
    <3>1. j \in Range(todo) /\ j.unit \in Units
      BY <1>2 DEF BridgeInv
    <3>2. /\ j.attr \in DOMAIN cache[j.unit] => ~ Publishable(j.attr, cache[j.unit][j.attr])
          /\ \A k \in Range(todo) : About(k, j.unit, j.attr) => k.value = j.value
      BY <2>1, <3>1 DEF GrownInv
    <3>3. CASE About(i, j.unit, j.attr)
      <4>1. i.value = j.value /\ i.unit = j.unit /\ i.attr = j.attr
        BY <1>2, <3>2, <3>3 DEF About
      <4> QED BY <1>2, <1>5, <2>1, <3>2, <4>1
    <3>4. CASE ~ About(i, j.unit, j.attr)
      BY <1>2, <1>5, <3>1, <3>2, <3>4
    <3> QED BY <3>3, <3>4
  <2>2. /\ \A w \in Units : \A b \in DOMAIN Now(w) : Grown(w, b, Now(w)[b])
        /\ \A j \in Range(wire) : Publishable(j.attr, j.value) /\ Grown(j.unit, j.attr, j.value)
        /\ \A j \in Range(todo') : Grown(j.unit, j.attr, j.value)
    BY <1>2 DEF GrownInv
  <2> QED BY <1>1, <1>4, <1>5, <2>1, <2>2 DEF GrownInv, Publishable, About
<1>10. ShownInv'
  <2>1. ASSUME i.attr \in DOMAIN cache[i.unit], ~ Publishable(i.attr, i.value)
        PROVE i.value = cache[i.unit][i.attr]
    <3>1. ~ Publishable(i.attr, cache[i.unit][i.attr]) /\ Grown(i.unit, i.attr, cache[i.unit][i.attr])
      BY <1>2, <1>3, <2>1 DEF GrownInv
    <3> QED BY <1>3, <2>1, <3>1 DEF Grown
  <2>2. cache[i.unit] = [b \in DOMAIN cache[i.unit] |-> cache[i.unit][b]]
    BY <1>3 DEF KnownInv
  <2>3. UNCHANGED <<home, entities>> /\ Process(i, TRUE) /\ i.unit \in Units
    BY <1>1, <1>3
  <2> QED BY <2>1, <2>2, <2>3, ProcessShows
<1> QED BY <1>6, <1>7, <1>8, <1>9, <1>10

LEMMA ViewReceives ==
    ASSUME NoneIsNoState, HubInv, BridgeInv, ViewInv, Receive
    PROVE ViewInv'
<1> USE DEF ViewInv
<1>1. PICK i : /\ i = Head(wire) /\ Process(i, FALSE) /\ wire # <<>> /\ wire' = Tail(wire)
               /\ todo = <<>> /\ UNCHANGED <<home, hub, todo, entities>>
  BY DEF Receive
<1>2. i \in Range(wire) /\ Range(wire) = {i} \union Range(wire')
  BY <1>1, TailIs DEF BridgeInv
<1>3. i.unit \in Units /\ i.attr \in DOMAIN Now(i.unit) /\ Grown(i.unit, i.attr, i.value)
  BY <1>2 DEF BridgeInv, KnownInv, GrownInv
<1>4. /\ Units' = Units
      /\ \A w : Now(w)' = Now(w) /\ Start(w)' = Start(w) /\ TypeOf(w)' = TypeOf(w)
      /\ \A w, b, x : Grown(w, b, x)' <=> Grown(w, b, x)
  BY <1>1, HubStill
<1>5. /\ \A w \in Units : \A b : ~ About(i, w, b) =>
            /\ b \in DOMAIN cache'[w] <=> b \in DOMAIN cache[w]
            /\ b \in DOMAIN cache[w] => cache'[w][b] = cache[w][b]
      /\ i.attr \in DOMAIN cache'[i.unit] /\ cache'[i.unit][i.attr] = i.value
      /\ \A w \in Units : /\ cache'[w] = [b \in DOMAIN cache'[w] |-> cache'[w][b]]
                          /\ DOMAIN cache'[w] \subseteq DOMAIN Now(w)
      /\ \A w \in Units : \A b \in DOMAIN cache'[w] : Grown(w, b, cache'[w][b])
  <2>1. KnownInv /\ GrownInv
    OBVIOUS
  <2>2. Process(i, FALSE) /\ UNCHANGED <<home, hub>>
    BY <1>1
  <2> QED BY <1>3, <2>1, <2>2, CacheTakes
<1>6. Range(todo) = {}
  BY <1>1 DEF Range
<1>7. /\ Len(wire) \in Nat /\ Len(wire) > 0 /\ wire[1] = i /\ Len(wire') = Len(wire) - 1
      /\ \A n \in 1..Len(wire') : wire'[n] = wire[n + 1] /\ n + 1 \in 1..Len(wire)
      /\ Range(wire) = {wire[n] : n \in 1..Len(wire)}
      /\ Range(wire') = {wire'[n] : n \in 1..Len(wire')}
  <2> DEFINE S == Range(wire)
             t == Tail(wire)
  <2>1. wire \in Seq(S)
    BY DEF BridgeInv, IsSeq
  <2>2. IsSeq(wire) /\ IsSeq(t)
    BY <1>1, TailIs DEF BridgeInv
  <2> HIDE DEF S
  <2>3. /\ Len(wire) \in Nat /\ Len(wire) > 0 /\ Head(wire) = wire[1] /\ Len(t) = Len(wire) - 1
        /\ \A n \in 1..Len(t) : t[n] = wire[n + 1] /\ n + 1 \in 1..Len(wire)
    BY <1>1, <2>1
  <2> HIDE DEF t
  <2>4. /\ Range(wire) = {wire[n] : n \in 1..Len(wire)}
        /\ Range(t) = {t[n] : n \in 1..Len(t)}
    BY <2>2, SeqIs DEF IsSeq
  <2>5. wire' = t
    BY <1>1 DEF t
  <2> QED BY <1>1, <2>3, <2>4, <2>5
<1>8. WireInv'
  <2> SUFFICES ASSUME NEW n \in 1..Len(wire'),
                      \A m \in 1..Len(wire') : m > n => ~ About(wire'[m], wire'[n].unit, wire'[n].attr)
               PROVE wire'[n].value = Now(wire'[n].unit)[wire'[n].attr]
    BY <1>4 DEF WireInv, About
  <2> DEFINE j == wire[n + 1]
  <2>1. wire'[n] = j /\ n + 1 \in 1..Len(wire)
    BY <1>7
  <2>2. ASSUME NEW m \in 1..Len(wire), m > n + 1 PROVE ~ About(wire[m], j.unit, j.attr)
    <3>1. m - 1 \in 1..Len(wire') /\ m - 1 > n /\ (m - 1) + 1 = m
      BY <1>7, <2>2
    <3>2. wire'[m - 1] = wire[m]
      BY <1>7, <3>1
    <3>3. ~ About(wire'[m - 1], wire'[n].unit, wire'[n].attr)
      BY <3>1
    <3> QED BY <2>1, <3>2, <3>3
  <2> QED BY <2>1, <2>2 DEF WireInv
<1>9. LatestInv'
  <2> SUFFICES ASSUME NEW w \in Units, NEW b \in DOMAIN Now(w),
                      \A j \in Range(wire') : ~ About(j, w, b)
               PROVE entities # {} => b \in DOMAIN cache'[w] /\ cache'[w][b] = Now(w)[b]
    BY <1>1, <1>4, <1>6 DEF LatestInv, About
  <2>1. CASE About(i, w, b)
    <3>1. i.unit = w /\ i.attr = b
      BY <2>1 DEF About
    <3>2. ASSUME NEW m \in 1..Len(wire), m > 1 PROVE ~ About(wire[m], wire[1].unit, wire[1].attr)
      <4>1. m - 1 \in 1..Len(wire') /\ (m - 1) + 1 = m
        BY <1>7, <3>2
      <4>2. wire'[m - 1] = wire[m]
        BY <1>7, <4>1
      <4>3. wire[m] \in Range(wire')
        BY <1>7, <4>1, <4>2
      <4> QED BY <1>7, <3>1, <4>3
    <3>3. 1 \in 1..Len(wire)
      BY <1>7
    <3>4. wire[1].value = Now(wire[1].unit)[wire[1].attr]
      BY <3>2, <3>3 DEF WireInv
    <3>5. i.value = Now(w)[b]
      BY <1>7, <3>1, <3>4
    <3> QED BY <1>5, <3>1, <3>5
  <2>2. CASE ~ About(i, w, b)
    <3>1. \A j \in Range(wire) : ~ About(j, w, b)
      BY <1>2, <2>2
    <3>2. entities # {} => b \in DOMAIN cache[w] /\ cache[w][b] = Now(w)[b]
      BY <1>6, <3>1 DEF LatestInv
    <3> QED BY <1>5, <2>2, <3>2
  <2> QED BY <2>1, <2>2
<1>10. KnownInv'
  BY <1>1, <1>2, <1>4, <1>5 DEF KnownInv
<1>11. GrownInv'
  <2>1. Range(todo') = {}
    BY <1>1, <1>6
  <2>2. /\ \A w \in Units : \A b \in DOMAIN Now(w) : Grown(w, b, Now(w)[b])
        /\ \A j \in Range(wire') : Publishable(j.attr, j.value) /\ Grown(j.unit, j.attr, j.value)
    BY <1>2 DEF GrownInv
  <2> QED BY <1>4, <1>5, <2>1, <2>2 DEF GrownInv, Publishable
<1>12. ShownInv'
  <2>1. Publishable(i.attr, i.value)
    BY <1>2 DEF GrownInv
  <2>2. cache[i.unit] = [b \in DOMAIN cache[i.unit] |-> cache[i.unit][b]]
    BY <1>3 DEF KnownInv
  <2>3. UNCHANGED <<home, entities>> /\ Process(i, FALSE) /\ i.unit \in Units
    BY <1>1, <1>3
  <2> QED BY <2>1, <2>2, <2>3, ProcessShows
<1> QED BY <1>8, <1>9, <1>10, <1>11, <1>12

\* What a discovery leaves to publish is what is so now, of all there is.
LEMMA ViewDiscovers ==
    ASSUME Steady, HubInv, ViewInv, Discover
    PROVE ViewInv'
<1> USE DEF ViewInv
<1>1. UNCHANGED <<home, hub, wire, cache, shown>>
  BY DEF Discover
<1>2. /\ Units' = Units
      /\ \A w : Now(w)' = Now(w) /\ Start(w)' = Start(w) /\ TypeOf(w)' = TypeOf(w)
      /\ \A w, b, x : Grown(w, b, x)' <=> Grown(w, b, x)
  BY <1>1, HubStill
<1>3. \A j \in Range(todo') : j.unit \in Units /\ j.attr \in DOMAIN Now(j.unit)
                              /\ j.value = Now(j.unit)[j.attr]
  <2> SUFFICES ASSUME NEW j \in Range(todo')
               PROVE j.unit \in Units /\ j.attr \in DOMAIN Now(j.unit) /\ j.value = Now(j.unit)[j.attr]
    OBVIOUS
  <2>1. Range(todo') = UNION {{Item(u, "isReachable", TRUE)}
               \union {Item(u, a, RawAttributes(hub[u])[a]) :
                           a \in DOMAIN RawAttributes(hub[u])} : u \in Units}
    BY DiscoverTodo
  <2>2. PICK u \in Units : \/ j = Item(u, "isReachable", TRUE)
                           \/ \E a \in DOMAIN RawAttributes(hub[u]) : j = Item(u, a, RawAttributes(hub[u])[a])
    BY <2>1
  <2>3. /\ DOMAIN Now(u) = DOMAIN RawAttributes(hub[u]) \union {"isReachable"}
        /\ Now(u)["isReachable"] = TRUE
        /\ \A a \in DOMAIN RawAttributes(hub[u]) :
              a # "isReachable" /\ Now(u)[a] = RawAttributes(hub[u])[a]
    BY NowIs
  <2>4. CASE j = Item(u, "isReachable", TRUE)
    <3>1. j.unit = u /\ j.attr = "isReachable" /\ j.value = TRUE
      BY <2>4 DEF Item
    <3> QED BY <2>3, <3>1
  <2>5. ASSUME NEW a \in DOMAIN RawAttributes(hub[u]), j = Item(u, a, RawAttributes(hub[u])[a])
        PROVE j.unit \in Units /\ j.attr \in DOMAIN Now(j.unit) /\ j.value = Now(j.unit)[j.attr]
    <3>1. j.unit = u /\ j.attr = a /\ j.value = RawAttributes(hub[u])[a]
      BY <2>5 DEF Item
    <3> QED BY <2>3, <3>1
  <2> QED BY <2>2, <2>4, <2>5
<1>4. ASSUME NEW w \in Units, NEW b \in DOMAIN Now(w) PROVE \E j \in Range(todo') : About(j, w, b)
  <2>1. Range(todo') = UNION {{Item(u, "isReachable", TRUE)}
               \union {Item(u, a, RawAttributes(hub[u])[a]) :
                           a \in DOMAIN RawAttributes(hub[u])} : u \in Units}
    BY DiscoverTodo
  <2>2. {Item(w, "isReachable", TRUE)}
           \union {Item(w, a, RawAttributes(hub[w])[a]) : a \in DOMAIN RawAttributes(hub[w])}
             \subseteq Range(todo')
    BY <2>1
  <2>3. b = "isReachable" \/ b \in DOMAIN RawAttributes(hub[w])
    BY NowIs
  <2>4. PICK v : Item(w, b, v) \in Range(todo')
    BY <2>2, <2>3
  <2> QED BY <2>4 DEF Item, About
<1>5. WireInv'
  BY <1>1, <1>2 DEF WireInv, About
<1>6. LatestInv'
  <2> SUFFICES ASSUME NEW w \in Units, NEW b \in DOMAIN Now(w)
               PROVE /\ \A j \in Range(todo') : About(j, w, b) => j.value = Now(w)[b]
                     /\ \E j \in Range(todo') : About(j, w, b)
    BY <1>1, <1>2 DEF LatestInv, About
  <2> QED BY <1>3, <1>4 DEF About
<1>7. KnownInv'
  BY <1>1, <1>2, <1>3 DEF KnownInv
<1>8. GrownInv'
  <2>1. \A w \in Units : \A b \in DOMAIN Now(w) : Grown(w, b, Now(w)[b])
    BY DEF GrownInv
  <2>2. ASSUME NEW j \in Range(todo')
        PROVE /\ Grown(j.unit, j.attr, j.value)
              /\ ~ Publishable(j.attr, j.value) =>
                    /\ j.attr \in DOMAIN cache[j.unit] => ~ Publishable(j.attr, cache[j.unit][j.attr])
                    /\ \A k \in Range(todo') : About(k, j.unit, j.attr) => k.value = j.value
    <3>1. j.unit \in Units /\ j.attr \in DOMAIN Now(j.unit) /\ j.value = Now(j.unit)[j.attr]
      BY <1>3
    <3>2. \A k \in Range(todo') : About(k, j.unit, j.attr) => k.value = j.value
      BY <1>3, <3>1 DEF About
    <3>3. ASSUME j.attr \in DOMAIN cache[j.unit] PROVE Grown(j.unit, j.attr, cache[j.unit][j.attr])
      BY <3>1, <3>3 DEF GrownInv
    <3> QED BY <2>1, <3>1, <3>2, <3>3 DEF Grown
  <2>3. /\ \A j \in Range(wire) : Publishable(j.attr, j.value) /\ Grown(j.unit, j.attr, j.value)
        /\ \A w \in Units : \A b \in DOMAIN cache[w] : Grown(w, b, cache[w][b])
    BY DEF GrownInv
  <2> QED BY <1>1, <1>2, <2>1, <2>2, <2>3 DEF GrownInv, Publishable, About
<1>9. ShownInv'
  BY <1>1, <1>2 DEF ShownInv, ShowsOf
<1> QED BY <1>5, <1>6, <1>7, <1>8, <1>9

LEMMA ViewKept ==
    ASSUME ViewInv, UNCHANGED devices
    PROVE ViewInv'
<1>1. UNCHANGED <<home, hub, wire, cache, entities, todo, shown>>
  BY DEF devices
<1>2. /\ Units' = Units
      /\ \A w : Now(w)' = Now(w) /\ Start(w)' = Start(w) /\ TypeOf(w)' = TypeOf(w)
      /\ \A w, b, x : Grown(w, b, x)' <=> Grown(w, b, x)
  BY <1>1, HubStill
<1>3. WireInv' /\ LatestInv' /\ KnownInv'
  BY <1>1, <1>2 DEF ViewInv, WireInv, LatestInv, KnownInv, About
<1>4. GrownInv'
  BY <1>1, <1>2 DEF ViewInv, GrownInv, Publishable, About
<1>5. ShownInv'
  BY <1>1, <1>2 DEF ViewInv, ShownInv, ShowsOf
<1> QED BY <1>3, <1>4, <1>5 DEF ViewInv

\* What the hub reports is what it has then.
LEMMA ViewHears ==
    ASSUME Steady, HubInv, HubInv', BridgeInv, ViewInv, NEW u \in Units, NEW new, Asks(u, new),
           IsFiniteSet(DOMAIN new), HubSets(u, new), UNCHANGED <<home, cache, entities, todo, shown>>
    PROVE ViewInv'
<1> DEFINE Sets(w, a) == a \in DOMAIN new /\ hub[u][a] # new[a] /\ w \in Reporters(u, a)
           Later(w) == Full(hub'[w])
           StillGrown(w, b, x) == /\ Publishable(b, x) => Publishable(b, Later(w)[b])
                                  /\ ~ Publishable(b, x) => x = Start(w)[b]
<1>1. PICK r : /\ IsSeq(r) /\ wire' = wire \o r
               /\ \A i \in Range(r) : \E a \in DOMAIN new : \E w \in Reporters(u, a) :
                     w \in Units /\ hub[u][a] # new[a] /\ i = Report(w, a, new)
               /\ \A a \in DOMAIN new : \A w \in Reporters(u, a) :
                     hub[u][a] # new[a] => Report(w, a, new) \in Range(r)
  BY ReportsAre
<1>2. /\ Units' = Units
      /\ \A w : Now(w)' = Later(w) /\ Start(w)' = Start(w) /\ TypeOf(w)' = TypeOf(w)
      /\ \A w, b, x : Grown(w, b, x)' <=> StillGrown(w, b, x)
  <2>1. \A w : Unit(w)' = Unit(w)
    BY DEF Unit
  <2>2. \A w : Now(w)' = Later(w) /\ Start(w)' = Start(w) /\ TypeOf(w)' = TypeOf(w)
    BY <2>1 DEF Now, Start, TypeOf
  <2> QED BY <2>2 DEF Units, Grown
<1>3. /\ \A w \in Units : DOMAIN Later(w) = DOMAIN Now(w)
      /\ \A w \in Units : \A a \in DOMAIN Now(w) :
            /\ Sets(w, a) => Later(w)[a] = new[a]
            /\ ~ Sets(w, a) => Later(w)[a] = Now(w)[a]
      /\ \A a \in DOMAIN new : \A w \in Reporters(u, a) : w \in Units /\ a \in DOMAIN Now(w)
  <2>1. /\ \A w \in Units : DOMAIN Now(w)' = DOMAIN Now(w)
        /\ \A w \in Units : \A a \in DOMAIN Now(w) :
              \/ /\ a \in DOMAIN new /\ hub[u][a] # new[a] /\ w \in Reporters(u, a)
                 /\ Now(w)'[a] = new[a]
              \/ /\ ~ (a \in DOMAIN new /\ hub[u][a] # new[a] /\ w \in Reporters(u, a))
                 /\ Now(w)'[a] = Now(w)[a]
        /\ \A a \in DOMAIN new : \A w \in Reporters(u, a) : w \in Units /\ a \in DOMAIN Now(w)
    BY NowSets
  <2>2. \A w : Now(w)' = Later(w)
    BY <1>2
  <2> HIDE DEF Later
  <2> QED BY <2>1, <2>2
<1>4. /\ \A w \in Units : \A a \in DOMAIN new : Publishable(a, new[a])
      /\ \A i \in Range(r) : /\ i.unit \in Units /\ Sets(i.unit, i.attr) /\ i.value = new[i.attr]
                             /\ i.attr \in DOMAIN Now(i.unit)
      /\ \A w \in Units : \A a : Sets(w, a) => \E i \in Range(r) : About(i, w, a)
  <2>1. \A w, a : Report(w, a, new).unit = w /\ Report(w, a, new).attr = a /\ Report(w, a, new).value = new[a]
    BY DEF Report
  <2>2. \A a \in DOMAIN new : Publishable(a, new[a])
    BY DEF Asks
  <2>3. ASSUME NEW i \in Range(r)
        PROVE /\ i.unit \in Units /\ Sets(i.unit, i.attr) /\ i.value = new[i.attr]
              /\ i.attr \in DOMAIN Now(i.unit)
    <3>1. PICK a \in DOMAIN new : \E w \in Reporters(u, a) :
                  w \in Units /\ hub[u][a] # new[a] /\ i = Report(w, a, new)
      BY <1>1
    <3>2. PICK w \in Reporters(u, a) : w \in Units /\ hub[u][a] # new[a] /\ i = Report(w, a, new)
      BY <3>1
    <3>3. i.unit = w /\ i.attr = a /\ i.value = new[a]
      BY <2>1, <3>2
    <3> QED BY <1>3, <3>2, <3>3
  <2>4. ASSUME NEW w \in Units, NEW a, Sets(w, a) PROVE \E i \in Range(r) : About(i, w, a)
    <3>1. Report(w, a, new) \in Range(r)
      BY <1>1, <2>4
    <3> QED BY <2>1, <3>1 DEF About
  <2> QED BY <2>2, <2>3, <2>4
<1> HIDE DEF Sets, Later
<1>5. /\ Len(wire) \in Nat /\ Len(r) \in Nat /\ Len(wire') = Len(wire) + Len(r)
      /\ \A n \in 1..Len(wire) : wire'[n] = wire[n]
      /\ \A n \in 1..Len(r) : wire'[Len(wire) + n] = r[n]
      /\ Range(wire') = Range(wire) \union Range(r)
      /\ Range(wire) = {wire[n] : n \in 1..Len(wire)} /\ Range(r) = {r[n] : n \in 1..Len(r)}
  <2> DEFINE S == Range(wire) \union Range(r)
  <2>1. IsSeq(wire) /\ IsSeq(r)
    BY <1>1 DEF BridgeInv
  <2>2. Range(wire) \subseteq S /\ Range(r) \subseteq S
    OBVIOUS
  <2>3. Range(wire \o r) = Range(wire) \union Range(r)
    BY <2>1, ConcatIs
  <2>4. /\ Range(wire) = {wire[n] : n \in 1..Len(wire)} /\ Range(r) = {r[n] : n \in 1..Len(r)}
        /\ Len(wire) \in Nat /\ Len(r) \in Nat
    BY <2>1, SeqIs DEF IsSeq
  <2> HIDE DEF S
  <2>5. wire \in Seq(S) /\ r \in Seq(S)
    BY <2>1, <2>2 DEF IsSeq
  <2>6. /\ Len(wire \o r) = Len(wire) + Len(r)
        /\ \A n \in 1..Len(wire) : (wire \o r)[n] = wire[n]
        /\ \A n \in 1..Len(r) : (wire \o r)[Len(wire) + n] = r[n]
    BY <2>5
  <2> QED BY <1>1, <2>3, <2>4, <2>6
<1>6. WireInv'
  <2> SUFFICES ASSUME NEW n \in 1..Len(wire'),
                      \A m \in 1..Len(wire') : m > n => ~ About(wire'[m], wire'[n].unit, wire'[n].attr)
               PROVE wire'[n].value = Later(wire'[n].unit)[wire'[n].attr]
    BY <1>2 DEF WireInv, About
  <2>1. CASE n > Len(wire)
    <3>1. n - Len(wire) \in 1..Len(r) /\ Len(wire) + (n - Len(wire)) = n
      BY <1>5, <2>1
    <3>2. wire'[n] = r[n - Len(wire)]
      BY <1>5, <3>1
    <3>3. wire'[n] \in Range(r)
      BY <1>5, <3>1, <3>2
    <3> QED BY <1>3, <1>4, <3>3
  <2>2. CASE ~ n > Len(wire)
    <3> DEFINE j == wire[n]
    <3>1. n \in 1..Len(wire) /\ wire'[n] = j /\ j \in Range(wire)
      BY <1>5, <2>2
    <3>2. j.unit \in Units /\ j.attr \in DOMAIN Now(j.unit)
      BY <3>1 DEF BridgeInv, ViewInv, KnownInv
    <3>3. ASSUME NEW m \in 1..Len(wire), m > n PROVE ~ About(wire[m], j.unit, j.attr)
      <4>1. m \in 1..Len(wire') /\ wire'[m] = wire[m]
        BY <1>5
      <4> QED BY <3>1, <3>3, <4>1
    <3>4. j.value = Now(j.unit)[j.attr]
      BY <3>1, <3>3 DEF ViewInv, WireInv
    <3>5. ~ Sets(j.unit, j.attr)
      <4> SUFFICES ASSUME Sets(j.unit, j.attr) PROVE FALSE
        OBVIOUS
      <4>1. PICK i \in Range(r) : About(i, j.unit, j.attr)
        BY <1>4, <3>2
      <4>2. PICK m \in 1..Len(r) : i = r[m]
        BY <1>5
      <4>3. Len(wire) + m \in 1..Len(wire') /\ Len(wire) + m > n /\ wire'[Len(wire) + m] = i
        BY <1>5, <3>1, <4>2
      <4> QED BY <3>1, <4>1, <4>3
    <3> QED BY <1>3, <3>1, <3>2, <3>4, <3>5
  <2> QED BY <2>1, <2>2
<1>7. LatestInv'
  <2> SUFFICES ASSUME NEW w \in Units, NEW b \in DOMAIN Later(w),
                      \A j \in Range(wire') : ~ About(j, w, b)
               PROVE /\ \A j \in Range(todo) : About(j, w, b) => j.value = Later(w)[b]
                     /\ entities # {} /\ (\A j \in Range(todo) : ~ About(j, w, b))
                           => b \in DOMAIN cache[w] /\ cache[w][b] = Later(w)[b]
    BY <1>2 DEF LatestInv, About
  <2>1. b \in DOMAIN Now(w) /\ ~ Sets(w, b)
    BY <1>3, <1>4, <1>5
  <2>2. Later(w)[b] = Now(w)[b]
    BY <1>3, <2>1
  <2>3. \A j \in Range(wire) : ~ About(j, w, b)
    BY <1>5
  <2> QED BY <2>1, <2>2, <2>3 DEF ViewInv, LatestInv
<1>8. KnownInv'
  <2>1. \A j \in Range(wire') \union Range(todo) : j.unit \in Units /\ j.attr \in DOMAIN Now(j.unit)
    BY <1>4, <1>5 DEF BridgeInv, ViewInv, KnownInv
  <2>2. \A j \in Range(wire') \union Range(todo) : j.attr \in DOMAIN Later(j.unit)
    BY <1>3, <2>1
  <2>3. \A w \in Units : /\ cache[w] = [a \in DOMAIN cache[w] |-> cache[w][a]]
                         /\ DOMAIN cache[w] \subseteq DOMAIN Later(w)
    BY <1>3 DEF ViewInv, KnownInv
  <2> QED BY <1>2, <2>2, <2>3 DEF KnownInv
<1>9. GrownInv'
  <2>1. ASSUME NEW w \in Units, NEW b \in DOMAIN Now(w), NEW x, Grown(w, b, x)
        PROVE StillGrown(w, b, x)
    <3>1. CASE Sets(w, b)
      <4>1. Publishable(b, Later(w)[b])
        BY <1>3, <1>4, <3>1 DEF Sets
      <4> QED BY <2>1, <4>1 DEF Grown
    <3>2. CASE ~ Sets(w, b)
      BY <1>3, <2>1, <3>2 DEF Grown
    <3> QED BY <3>1, <3>2
  <2>2. ASSUME NEW w \in Units, NEW b \in DOMAIN Later(w) PROVE StillGrown(w, b, Later(w)[b])
    <3>1. b \in DOMAIN Now(w)
      BY <1>3
    <3>2. CASE Sets(w, b)
      <4>1. Publishable(b, Later(w)[b])
        BY <1>3, <1>4, <3>1, <3>2 DEF Sets
      <4> QED BY <4>1
    <3>3. CASE ~ Sets(w, b)
      <4>1. Later(w)[b] = Now(w)[b]
        BY <1>3, <3>1, <3>3
      <4>2. Grown(w, b, Now(w)[b])
        BY <3>1 DEF ViewInv, GrownInv
      <4> QED BY <2>1, <3>1, <4>1, <4>2
    <3> QED BY <3>2, <3>3
  <2>3. ASSUME NEW j \in Range(wire') PROVE Publishable(j.attr, j.value) /\ StillGrown(j.unit, j.attr, j.value)
    <3>1. CASE j \in Range(r)
      <4>1. /\ j.unit \in Units /\ j.attr \in DOMAIN Now(j.unit) /\ j.value = new[j.attr]
            /\ Sets(j.unit, j.attr)
        BY <1>4, <3>1
      <4>2. Later(j.unit)[j.attr] = new[j.attr] /\ Publishable(j.attr, new[j.attr])
        BY <1>3, <1>4, <4>1 DEF Sets
      <4> QED BY <4>1, <4>2
    <3>2. CASE j \in Range(wire)
      <4>1. j.unit \in Units /\ j.attr \in DOMAIN Now(j.unit)
        BY <3>2 DEF BridgeInv, ViewInv, KnownInv
      <4>2. Publishable(j.attr, j.value) /\ Grown(j.unit, j.attr, j.value)
        BY <3>2 DEF ViewInv, GrownInv
      <4> QED BY <2>1, <4>1, <4>2
    <3> QED BY <1>5, <3>1, <3>2
  <2>4. ASSUME NEW j \in Range(todo) PROVE StillGrown(j.unit, j.attr, j.value)
    <3>1. j.unit \in Units /\ j.attr \in DOMAIN Now(j.unit)
      BY DEF BridgeInv, ViewInv, KnownInv
    <3>2. Grown(j.unit, j.attr, j.value)
      BY DEF ViewInv, GrownInv
    <3> QED BY <2>1, <3>1, <3>2
  <2>5. ASSUME NEW w \in Units, NEW b \in DOMAIN cache[w] PROVE StillGrown(w, b, cache[w][b])
    <3>1. b \in DOMAIN Now(w)
      BY DEF ViewInv, KnownInv
    <3>2. Grown(w, b, cache[w][b])
      BY DEF ViewInv, GrownInv
    <3> QED BY <2>1, <3>1, <3>2
  <2>6. \A j \in Range(todo) : ~ Publishable(j.attr, j.value) =>
          /\ j.attr \in DOMAIN cache[j.unit] => ~ Publishable(j.attr, cache[j.unit][j.attr])
          /\ \A k \in Range(todo) : About(k, j.unit, j.attr) => k.value = j.value
    BY DEF ViewInv, GrownInv
  <2> HIDE DEF StillGrown
  <2> QED BY <1>2, <2>2, <2>3, <2>4, <2>5, <2>6 DEF GrownInv, Publishable, About
<1>10. ShownInv'
  BY <1>2 DEF ViewInv, ShownInv, ShowsOf
<1> QED BY <1>6, <1>7, <1>8, <1>9, <1>10 DEF ViewInv

\* A PATCH for unit u sets what u has, but for a track to skip to.
Wanted(u, attrs) ==
    \A a \in DOMAIN attrs : /\ Publishable(a, attrs[a])
                            /\ a \in DOMAIN hub[u] \/ (a = "playback" /\ attrs[a] \in Momentary)

LateSteady == \A l \in late : Wanted(l.unit, l.attrs)

LEMMA FlightsAreWanted ==
    ASSUME Steady, HubInv, CommandInv, NEW s \in Slots, Goes(s)
    PROVE /\ Wanted(flight[s].unit, Head(flight[s].left)) /\ flight[s].unit \in Units
          /\ Heeded(Head(flight[s].left))
<1> DEFINE f == flight[s]
           attrs == Asked(f.unit, f.payload)
           patch == Head(f.left)
<1>1. OpenFlight(f)
  BY DEF CommandInv, FlightInv
<1>2. Heeded(patch) /\ \A a \in DOMAIN patch : a \in DOMAIN attrs /\ patch[a] = attrs[a]
  BY <1>1, Stages
<1>3. f.unit \in Units /\ f.payload \in Vocabulary[f.unit] /\ attrs # None
  BY <1>1 DEF OpenFlight
<1>4. PICK i \in DOMAIN home : home[i].id = f.unit /\ Unit(f.unit) = home[i]
  BY <1>3, UnitListed
<1>5. attrs = MapCommand(home[i].type, f.payload) /\ home \in Homes
  BY <1>4 DEF Asked, TypeOf, HubInv
<1>6. \A a \in DOMAIN attrs : Publishable(a, attrs[a])
  BY <1>3, <1>4, <1>5 DEF Steady
<1>7. \A a \in DOMAIN attrs : (a = "playback" /\ attrs[a] \in Momentary) \/ a \in DOMAIN hub[f.unit]
  BY <1>3, AskedIsListed
<1> HIDE DEF attrs, patch
<1>8. Wanted(f.unit, patch)
  BY <1>2, <1>6, <1>7 DEF Wanted
<1> QED BY <1>2, <1>3, <1>8 DEF patch

LEMMA ViewPatched ==
    ASSUME Steady, HubInv, HubInv', BridgeInv, ViewInv, NEW u \in Units, NEW attrs, Heeded(attrs),
           Wanted(u, attrs), HubPatches(u, attrs)
    PROVE ViewInv'
<1> DEFINE heeded == IF "isOn" \in DOMAIN attrs THEN Only(attrs, {"isOn"}) ELSE attrs
           lasting == {a \in DOMAIN heeded : a = "playback" => heeded[a] \notin Momentary}
           new == Only(heeded, lasting)
<1>1. HubSets(u, new) /\ UNCHANGED <<home, cache, entities, todo, shown>>
  BY DEF HubPatches
<1>2. /\ DOMAIN new \subseteq DOMAIN attrs
      /\ \A a \in DOMAIN new : new[a] = attrs[a] /\ (a = "playback" => new[a] \notin Momentary)
  BY DEF Only
<1>3. DOMAIN attrs \subseteq Settable
  BY DEF Heeded
<1> HIDE DEF new
<1>4. IsFiniteSet(DOMAIN new)
  BY <1>2, <1>3, SettableIsFinite, FS_Subset
<1>5. Asks(u, new)
  BY <1>2 DEF Asks, Wanted
<1> QED BY <1>1, <1>4, <1>5, ViewHears

LEMMA ViewStep ==
    ASSUME NoneIsNoState, Steady, HubInv, HubInv', CommandInv, BridgeInv, ViewInv, LateSteady,
           [Next]_vars
    PROVE ViewInv' /\ LateSteady'
<1>1. ASSUME UNCHANGED devices PROVE ViewInv'
  BY <1>1, ViewKept
<1>2. ASSUME UNCHANGED late, home' = home PROVE LateSteady'
  <2>1. Units' = Units /\ \A w : Unit(w)' = Unit(w)
    BY <1>2 DEF Units, Unit
  <2>2. \A w \in Units : DOMAIN hub'[w] = DOMAIN hub[w]
    BY <2>1 DEF HubInv
  <2>3. \A l \in late : l.unit \in Units
    BY DEF CommandInv, LateInv
  <2> QED BY <1>2, <2>2, <2>3 DEF LateSteady, Wanted, Publishable
<1>3. CASE UNCHANGED vars
  <2>1. UNCHANGED devices /\ UNCHANGED late /\ home' = home
    BY <1>3 DEF vars, mapping, devices, net
  <2> QED BY <1>1, <1>2, <2>1
<1>4. CASE Bridge
  <2>1. UNCHANGED late /\ home' = home
    BY <1>4 DEF Bridge, net, Discover, PublishInitial, Receive
  <2>2. ViewInv'
    BY <1>4, ViewDiscovers, ViewPublishes, ViewReceives DEF Bridge
  <2> QED BY <1>2, <2>1, <2>2
<1>5. ASSUME NEW u \in Units, ByHand(u) PROVE ViewInv' /\ LateSteady'
  <2>1. PICK a \in DOMAIN Values : HubChanges(u, a)
    BY <1>5 DEF ByHand
  <2>2. PICK v \in Values[a] : HubSets(u, [b \in {a} |-> v])
    BY <2>1 DEF HubChanges
  <2> DEFINE new == [b \in {a} |-> v]
  <2>3. UNCHANGED late /\ UNCHANGED <<home, cache, entities, todo, shown>> /\ a \in DOMAIN hub[u]
    BY <1>5, <2>1 DEF ByHand, HubChanges
  <2>4. IsFiniteSet(DOMAIN new)
    BY FS_Singleton
  <2>5. Publishable(a, v)
    BY DEF Steady
  <2>6. Asks(u, new)
    BY <2>3, <2>5 DEF Asks
  <2>7. HubSets(u, new)
    BY <2>2
  <2> HIDE DEF new
  <2>8. ViewInv'
    BY <2>3, <2>4, <2>6, <2>7, ViewHears
  <2> QED BY <1>2, <2>3, <2>8
<1>6. ASSUME NEW u \in Units, NEW s \in Slots, NEW p \in Vocabulary[u], Command(s, u, p)
      PROVE ViewInv' /\ LateSteady'
  <2>1. UNCHANGED devices /\ UNCHANGED late /\ home' = home
    BY <1>6 DEF Command, devices
  <2> QED BY <1>1, <1>2, <2>1
<1>7. ASSUME NEW s \in Slots, PatchArrives(s) PROVE ViewInv' /\ LateSteady'
  <2>1. Goes(s) /\ HubPatches(flight[s].unit, Head(flight[s].left)) /\ UNCHANGED late
    BY <1>7 DEF PatchArrives
  <2>2. home' = home
    BY <2>1 DEF HubPatches
  <2>3. /\ Wanted(flight[s].unit, Head(flight[s].left)) /\ flight[s].unit \in Units
        /\ Heeded(Head(flight[s].left))
    BY <2>1, FlightsAreWanted
  <2>4. ViewInv'
    BY <2>1, <2>3, ViewPatched
  <2> QED BY <1>2, <2>1, <2>2, <2>4
<1>8. ASSUME NEW s \in Slots, PatchAnswered(s) \/ PatchFails(s) PROVE ViewInv' /\ LateSteady'
  <2>1. UNCHANGED devices /\ UNCHANGED late /\ home' = home
    BY <1>8 DEF PatchAnswered, PatchFails, mapping, devices
  <2> QED BY <1>1, <1>2, <2>1
<1>9. ASSUME NEW s \in Slots, PatchTimesOut(s) PROVE ViewInv' /\ LateSteady'
  <2>1. /\ Goes(s) /\ UNCHANGED devices /\ hub' = hub
        /\ late' = late \union {[unit |-> flight[s].unit, attrs |-> Head(flight[s].left)]}
    BY <1>9 DEF PatchTimesOut, devices
  <2>2. Wanted(flight[s].unit, Head(flight[s].left))
    BY <2>1, FlightsAreWanted
  <2>3. LateSteady'
    BY <2>1, <2>2 DEF LateSteady, Wanted, Publishable
  <2> QED BY <1>1, <2>1, <2>3
<1>10. ASSUME NEW l \in late, PatchLate(l) PROVE ViewInv' /\ LateSteady'
  <2>1. HubPatches(l.unit, l.attrs) /\ late' = late \ {l}
    BY <1>10 DEF PatchLate
  <2>2. l.unit \in Units /\ Heeded(l.attrs) /\ Wanted(l.unit, l.attrs) /\ home' = home
    BY <2>1 DEF CommandInv, LateInv, LateSteady, HubPatches
  <2>3. ViewInv'
    BY <2>1, <2>2, ViewPatched
  <2>4. \A w \in Units : DOMAIN hub'[w] = DOMAIN hub[w]
    <3>1. Units' = Units /\ \A w : Unit(w)' = Unit(w)
      BY <2>2 DEF Units, Unit
    <3> QED BY <3>1 DEF HubInv
  <2>5. \A k \in late : k.unit \in Units
    BY DEF CommandInv, LateInv
  <2>6. LateSteady'
    BY <2>1, <2>4, <2>5 DEF LateSteady, Wanted, Publishable
  <2> QED BY <2>3, <2>6
<1> QED BY <1>3, <1>4, <1>5, <1>6, <1>7, <1>8, <1>9, <1>10 DEF Next, Callback

LEMMA ViewStarts ==
    ASSUME CommandsInit PROVE ViewInv /\ LateSteady
<1>1. /\ home \in Homes /\ hub = [u \in Units |-> Unit(u).attrs] /\ wire = <<>> /\ todo = <<>>
      /\ cache = NoCache /\ entities = {} /\ shown = [e \in {} |-> None] /\ late = {}
  BY DEF CommandsInit, Init
<1>2. Range(wire) = {} /\ Range(todo) = {} /\ DOMAIN shown = {}
  BY <1>1 DEF Range
<1>3. \A u \in Units : Now(u) = Start(u)
  BY <1>1 DEF Now, Start
<1>4. \A u \in Units : DOMAIN cache[u] = {} /\ cache[u] = [a \in DOMAIN cache[u] |-> cache[u][a]]
  BY <1>1 DEF NoCache
<1>5. \A n \in 1..Len(<<>>) : FALSE
  OBVIOUS
<1>6. WireInv
  BY <1>1, <1>5 DEF WireInv
<1>7. LatestInv /\ KnownInv /\ ShownInv
  BY <1>1, <1>2, <1>4 DEF LatestInv, KnownInv, ShownInv
<1>8. GrownInv
  BY <1>2, <1>3, <1>4 DEF GrownInv, Grown
<1> QED BY <1>1, <1>6, <1>7, <1>8 DEF ViewInv, LateSteady

\* When nothing is under way the cache is what the hub has, and an entity shows what
\* an attribute says now.
LEMMA QuietIsSaid ==
    ASSUME Steady, HubInv, ViewInv, Quiet, NEW e \in DOMAIN shown
    PROVE \E u \in Units : \E a \in Feeds(u) :
             StateOf(u, a) # None /\ StateOf(u, a) = [entity |-> e, payload |-> shown[e]]
<1>1. Range(wire) = {} /\ Range(todo) = {} /\ entities # {}
  BY DEF Quiet, Range
<1>2. PICK u \in Units : \E a \in DOMAIN cache[u] : ShowsOf(u, a, e)
  BY DEF ViewInv, ShownInv
<1>3. PICK a \in DOMAIN cache[u] : ShowsOf(u, a, e)
  BY <1>2
<1>4. /\ cache[u] = [b \in DOMAIN cache[u] |-> cache[u][b]] /\ DOMAIN cache[u] \subseteq DOMAIN Now(u)
      /\ \A b \in DOMAIN Now(u) : b \in DOMAIN cache[u] /\ cache[u][b] = Now(u)[b]
  BY <1>1 DEF ViewInv, KnownInv, LatestInv
<1>5. /\ Now(u) = [b \in DOMAIN Now(u) |-> Now(u)[b]]
      /\ DOMAIN Now(u) = DOMAIN RawAttributes(hub[u]) \union {"isReachable"}
  BY NowIs
<1>6. DOMAIN cache[u] = DOMAIN Now(u)
  BY <1>4
<1>7. cache[u] = Now(u)
  BY <1>4, <1>5, <1>6
<1>8. a \in Feeds(u)
  BY <1>4, <1>5 DEF Feeds
<1>9. StateOf(u, a) = MapState(TypeOf(u), u, a, cache[u][a], cache[u])
  BY <1>7 DEF StateOf, Now, Full
<1> QED BY <1>3, <1>8, <1>9 DEF ShowsOf

-----------------------------------------------------------------------------
(***************************************************************************)
(* One voice                                                               *)
(***************************************************************************)

\* The units of a pair have one battery: u is the second of them and w the first.
Partner(u, w) ==
    /\ u \in Units /\ TypeOf(u) = "environmentSensor" /\ ~ OwnsBattery(u)
    /\ w \in Units /\ w = <<u[1], 1>> /\ PhysicalId(Unit(w)) = PhysicalId(Unit(u))
    /\ "batteryPercentage" \in DOMAIN Unit(u).attrs
    /\ "batteryPercentage" \in DOMAIN Unit(w).attrs

PairInv == \A u, w : Partner(u, w) => hub[u]["batteryPercentage"] = hub[w]["batteryPercentage"]

LEMMA PartnerIs ==
    ASSUME home \in Homes, NEW u \in Units, TypeOf(u) = "environmentSensor", ~ OwnsBattery(u),
           "batteryPercentage" \in DOMAIN Unit(u).attrs
    PROVE LET w == <<u[1], 1>>
          IN /\ Partner(u, w)
             /\ Unit(w).attrs["batteryPercentage"] = Unit(u).attrs["batteryPercentage"]
<1> DEFINE w == <<u[1], 1>>
<1>1. PICK i \in DOMAIN home : home[i].id = u /\ Unit(u) = home[i]
  BY UnitListed
<1>2. PICK j \in DOMAIN home :
          /\ home[j].id = w /\ home[j].relation = home[i].relation /\ home[i].relation # None
          /\ "batteryPercentage" \in DOMAIN home[j].attrs
          /\ home[j].attrs["batteryPercentage"] = home[i].attrs["batteryPercentage"]
  BY <1>1, BatteryAssumption, ZenonT(40) DEF TypeOf
<1>3. w \in Units
  BY <1>2 DEF Units
<1>4. PICK k \in DOMAIN home : home[k].id = w /\ Unit(w) = home[k]
  BY <1>3, UnitListed
<1>5. k = j
  BY <1>2, <1>4, HomeIs
<1>6. PhysicalId(Unit(w)) = PhysicalId(Unit(u))
  BY <1>1, <1>2, <1>4, <1>5 DEF PhysicalId
<1> QED BY <1>1, <1>2, <1>3, <1>4, <1>5, <1>6 DEF Partner

LEMMA PairStarts ==
    ASSUME CommandsInit PROVE PairInv
<1>1. home \in Homes /\ hub = [u \in Units |-> Unit(u).attrs]
  BY DEF CommandsInit, Init
<1> SUFFICES ASSUME NEW u, NEW w, Partner(u, w)
             PROVE hub[u]["batteryPercentage"] = hub[w]["batteryPercentage"]
  BY DEF PairInv
<1>2. Unit(w).attrs["batteryPercentage"] = Unit(u).attrs["batteryPercentage"]
  BY <1>1, PartnerIs DEF Partner
<1> QED BY <1>1, <1>2 DEF Partner

\* A level is set on all units of a device that list one.
LEMMA PairSets ==
    ASSUME HubInv, PairInv, NEW x, NEW new, HubSets(x, new), home' = home
    PROVE PairInv'
<1>1. Units' = Units /\ \A w : Unit(w)' = Unit(w) /\ TypeOf(w)' = TypeOf(w)
  BY DEF Units, Unit, TypeOf
<1>2. \A u, w : Partner(u, w)' <=> Partner(u, w)
  BY <1>1 DEF Partner, PhysicalId
<1> SUFFICES ASSUME NEW u, NEW w, Partner(u, w)
             PROVE hub'[u]["batteryPercentage"] = hub'[w]["batteryPercentage"]
  BY <1>2 DEF PairInv
<1> DEFINE news == {a \in DOMAIN new : hub[x][a] # new[a]}
           a == "batteryPercentage"
<1>3. /\ u \in Units /\ w \in Units /\ hub[u][a] = hub[w][a]
      /\ a \in DOMAIN hub[u] /\ a \in DOMAIN hub[w]
  BY DEF Partner, PairInv, HubInv
<1>4. u \in Reporters(x, a) <=> w \in Reporters(x, a)
  BY <1>3 DEF Reporters, Partner
<1>5. \A y \in Units : a \in DOMAIN hub[y] =>
          hub'[y][a] = IF a \in news /\ y \in Reporters(x, a) THEN new[a] ELSE hub[y][a]
  BY DEF HubSets
<1> QED BY <1>3, <1>4, <1>5

LEMMA PairStep ==
    ASSUME HubInv, PairInv, [Next]_vars PROVE PairInv'
<1>1. ASSUME UNCHANGED <<home, hub>> PROVE PairInv'
  <2>1. Units' = Units /\ \A w : Unit(w)' = Unit(w) /\ TypeOf(w)' = TypeOf(w)
    BY <1>1 DEF Units, Unit, TypeOf
  <2>2. \A u, w : Partner(u, w)' <=> Partner(u, w)
    BY <2>1 DEF Partner, PhysicalId
  <2> QED BY <1>1, <2>2 DEF PairInv
<1>2. ASSUME NEW x, NEW attrs, HubPatches(x, attrs) PROVE PairInv'
  <2>1. PICK new : HubSets(x, new)
    BY <1>2 DEF HubPatches
  <2>2. home' = home
    BY <1>2 DEF HubPatches
  <2> QED BY <2>1, <2>2, PairSets
<1>3. ASSUME NEW u \in Units, ByHand(u) PROVE PairInv'
  <2>1. PICK new : HubSets(u, new)
    BY <1>3 DEF ByHand, HubChanges
  <2>2. home' = home
    BY <1>3 DEF ByHand, HubChanges
  <2> QED BY <2>1, <2>2, PairSets
<1>4. ASSUME NEW s \in Slots, PatchArrives(s) PROVE PairInv'
  BY <1>2, <1>4 DEF PatchArrives
<1>5. ASSUME NEW l \in late, PatchLate(l) PROVE PairInv'
  BY <1>2, <1>5 DEF PatchLate
<1>6. CASE UNCHANGED vars
  BY <1>1, <1>6 DEF vars, mapping
<1>7. CASE Bridge
  BY <1>1, <1>7 DEF Bridge, Discover, PublishInitial, Receive
<1>8. ASSUME NEW u \in Units, NEW s \in Slots, NEW p \in Vocabulary[u], Command(s, u, p)
      PROVE PairInv'
  BY <1>1, <1>8 DEF Command, devices
<1>9. ASSUME NEW s \in Slots, PatchAnswered(s) \/ PatchFails(s) \/ PatchTimesOut(s) PROVE PairInv'
  BY <1>1, <1>9 DEF PatchAnswered, PatchFails, PatchTimesOut, mapping, devices
<1> QED BY <1>3, <1>4, <1>5, <1>6, <1>7, <1>8, <1>9 DEF Next, Callback

\* A battery entity is fed by batteries only, and shows the level as it is.
LEMMA BatteryVoice ==
    ASSUME NEW type, NEW u, NEW a, NEW v, NEW attrs, MapState(type, u, a, v, attrs) # None,
           MapState(type, u, a, v, attrs).entity[2] = "battery"
    PROVE LET owner == IF type = "environmentSensor" THEN BatteryOwner(u) ELSE u
          IN /\ a = "batteryPercentage" /\ v # None
             /\ MapState(type, u, a, v, attrs) = State(owner, "battery", Number(v))
<1> DEFINE Agrees(state, w) == \/ state = None \/ state.entity[2] # "battery"
                             \/ /\ a = "batteryPercentage" /\ v # None
                                /\ state = State(w, "battery", Number(v))
<1>1. \A w, s, x, y : Agrees(None, w) /\ (s # "battery" => Agrees(State(y, s, x), w))
  BY DEF State
<1>2. \A w, y, x, s : s # "battery" => /\ Agrees(OnOff(y, s, x), w) /\ Agrees(Whole(y, s, x), w)
                                     /\ Agrees(Decimal(y, s, x), w) /\ Agrees(Text(y, s, x), w)
                                     /\ Agrees(Press(y, x), w) /\ Agrees(Position(y, x), w)
                                     /\ Agrees(FanMode(y, x), w) /\ Agrees(MotorSpeed(y, x), w)
                                     /\ Agrees(Location(y, x), w)
  <2> HIDE DEF Agrees
  <2>1. \A w, y, x, s : s # "battery" =>
            /\ Agrees(OnOff(y, s, x), w) /\ Agrees(Whole(y, s, x), w)
            /\ Agrees(Decimal(y, s, x), w) /\ Agrees(Text(y, s, x), w)
    BY <1>1 DEF OnOff, Whole, Decimal, Text
  <2>2. Main # "battery" /\ "location" # "battery"
    BY DEF Main
  <2>3. \A w, y, x : /\ Agrees(Press(y, x), w) /\ Agrees(Position(y, x), w)
                    /\ Agrees(MotorSpeed(y, x), w) /\ Agrees(Location(y, x), w)
    BY <1>1, <2>2 DEF Press, Position, MotorSpeed, Location
  <2>4. \A w, y, x : Agrees(FanMode(y, x), w)
    BY <1>1, <2>1, <2>2 DEF FanMode
  <2> QED BY <2>1, <2>3, <2>4
<1>3. \A w : a = "batteryPercentage" => Agrees(Whole(w, "battery", v), w)
  BY DEF Whole
<1> HIDE DEF Agrees
<1>4. \A w : Agrees(LightState(w, a, attrs), w)
  BY <1>1 DEF LightState, Main
<1>5. \A w : /\ Agrees(OutletState(w, a, v), w) /\ Agrees(ElectricalSensorState(w, a, v), w)
            /\ Agrees(MotionSensorState(w, a, v), w) /\ Agrees(WaterSensorState(w, a, v), w)
            /\ Agrees(LightSensorState(w, a, v), w)
            /\ Agrees(EnvironmentSensorState(w, a, v), BatteryOwner(w))
  BY <1>1, <1>2, <1>3 DEF OutletState, ElectricalSensorState, MotionSensorState, WaterSensorState,
                          LightSensorState, EnvironmentSensorState, Main
<1>6. \A w : /\ Agrees(ControllerState(w, a, v), w) /\ Agrees(ButtonState(w, a, v), w)
            /\ Agrees(BlindState(w, a, v), w) /\ Agrees(AirPurifierState(w, a, v), w)
            /\ Agrees(SpeakerState(w, a, v), w) /\ Agrees(SwitchState(w, a, v), w)
  BY <1>1, <1>2, <1>3 DEF ControllerState, ButtonState, BlindState, AirPurifierState, SpeakerState,
                          SwitchState, Main
<1>7. \A w : Agrees(GatewayState(w, a, v), w)
  BY <1>1, <1>2 DEF GatewayState
<1> DEFINE owner == IF type = "environmentSensor" THEN BatteryOwner(u) ELSE u
<1>8. Agrees(MapState(type, u, a, v, attrs), owner)
  BY <1>1, <1>4, <1>5, <1>6, <1>7 DEF MapState
<1> QED BY <1>8 DEF Agrees

\* But for batteries, a unit is published for entities of its own.
LEMMA OwnEntity ==
    ASSUME NEW type, NEW u, NEW a, NEW v, NEW attrs, MapState(type, u, a, v, attrs) # None
    PROVE \/ MapState(type, u, a, v, attrs).entity[2] = "battery"
          \/ MapState(type, u, a, v, attrs).entity[1] = u
<1> DEFINE Own(state) == state = None \/ state.entity[2] = "battery" \/ state.entity[1] = u
<1>1. \A s, x : Own(State(u, s, x)) /\ Own(None)
  BY DEF State
<1>2. \A w, x : Own(State(w, "battery", x))
  BY DEF State
<1> HIDE DEF Own
<1>3. \A s, x : /\ Own(OnOff(u, s, x)) /\ Own(Whole(u, s, x)) /\ Own(Decimal(u, s, x))
                /\ Own(Text(u, s, x)) /\ Own(Press(u, x)) /\ Own(Position(u, x))
                /\ Own(FanMode(u, x)) /\ Own(MotorSpeed(u, x)) /\ Own(Location(u, x))
  BY <1>1 DEF OnOff, Whole, Decimal, Text, Press, Position, FanMode, MotorSpeed, Location
<1>4. Own(Whole(BatteryOwner(u), "battery", v))
  BY <1>1, <1>2 DEF Whole
<1>5. Own(LightState(u, a, attrs))
  BY <1>1 DEF LightState
<1>6. /\ Own(OutletState(u, a, v)) /\ Own(ElectricalSensorState(u, a, v))
      /\ Own(MotionSensorState(u, a, v)) /\ Own(WaterSensorState(u, a, v))
      /\ Own(LightSensorState(u, a, v)) /\ Own(EnvironmentSensorState(u, a, v))
  BY <1>1, <1>3, <1>4 DEF OutletState, ElectricalSensorState, MotionSensorState, WaterSensorState,
                          LightSensorState, EnvironmentSensorState
<1>7. /\ Own(ControllerState(u, a, v)) /\ Own(ButtonState(u, a, v))
      /\ Own(BlindState(u, a, v)) /\ Own(AirPurifierState(u, a, v))
      /\ Own(SpeakerState(u, a, v)) /\ Own(SwitchState(u, a, v))
  BY <1>1, <1>3 DEF ControllerState, ButtonState, BlindState, AirPurifierState, SpeakerState,
                    SwitchState
<1>8. Own(GatewayState(u, a, v))
  BY <1>1, <1>3 DEF GatewayState
<1>9. Own(MapState(type, u, a, v, attrs))
  BY <1>1, <1>5, <1>6, <1>7, <1>8 DEF MapState
<1> QED BY <1>9 DEF Own

\* Of all but lights: two attributes that feed the same entity are the mode of a fan
\* and the speed of its motor, or the level of a blind under both its names.
Rivals(type, a, b) ==
    \/ type = "airPurifier" /\ {a, b} = {"fanMode", "motorSpeed"}
    \/ type \in {"blind", "blinds"} /\ {a, b} = {"currentLevel", "blindsCurrentLevel"}

LEMMA OneAttribute ==
    ASSUME NEW type, type # "light", NEW u, NEW a, NEW v, NEW c, NEW b, NEW x, NEW d,
           MapState(type, u, a, v, c) # None, MapState(type, u, b, x, d) # None,
           MapState(type, u, a, v, c).entity[2] = MapState(type, u, b, x, d).entity[2]
    PROVE \/ a = b
          \/ Rivals(type, a, b) /\ MapState(type, u, a, v, c).entity[2] = Main
<1> DEFINE Agrees(state, y, s) == state = None \/ <<y, state.entity[2]>> = <<y, s>>
<1>0. \A y, z, s : /\ Agrees(OnOff(u, s, z), y, s) /\ Agrees(Whole(u, s, z), y, s)
                   /\ Agrees(Whole(BatteryOwner(u), s, z), y, s)
                   /\ Agrees(Decimal(u, s, z), y, s) /\ Agrees(Text(u, s, z), y, s)
                   /\ Agrees(Press(u, z), y, Main) /\ Agrees(Position(u, z), y, Main)
                   /\ Agrees(FanMode(u, z), y, Main) /\ Agrees(MotorSpeed(u, z), y, Main)
                   /\ Agrees(Location(u, z), y, "location")
  BY DEF OnOff, Whole, Decimal, Text, Press, Position, FanMode, MotorSpeed, Location, State
<1> DEFINE E == MapState(type, u, a, v, c).entity[2]
<1>e. ASSUME NEW P, \A y, z, f : MapState(type, u, y, z, f) # None =>
                       <<y, MapState(type, u, y, z, f).entity[2]>> \in P
      PROVE <<a, E>> \in P /\ <<b, E>> \in P
  BY <1>e
<1> HIDE DEF E
<1> SUFFICES a = b \/ (Rivals(type, a, b) /\ E = Main)
  BY DEF E
<1>1. CASE type \in {"outlet", "electricalSensor"}
  <2> DEFINE P == {<<"isOn", Main>>, <<"currentActivePower", "power">>, <<"currentVoltage", "voltage">>,
                   <<"currentAmps", "current">>, <<"totalEnergyConsumed", "energy">>}
  <2>1. \A y, z : OutletState(u, y, z) # None =>
            <<y, OutletState(u, y, z).entity[2]>> \in P
    BY <1>0 DEF OutletState
  <2>2. \A y, z, f : MapState(type, u, y, z, f) # None =>
            MapState(type, u, y, z, f) = OutletState(u, y, z)
    BY <1>1 DEF MapState, ElectricalSensorState
  <2>3. <<a, E>> \in P /\ <<b, E>> \in P
    <3> HIDE DEF P
    <3> QED BY <1>e, <2>1, <2>2
  <2> QED BY <2>3 DEF Main
<1>2. CASE type \in {"motionSensor", "waterSensor"}
  <2> DEFINE P == {<<IF type = "motionSensor" THEN "isDetected" ELSE "waterLeakDetected", Main>>,
                   <<"batteryPercentage", "battery">>}
  <2>1. \A y, z, f : MapState(type, u, y, z, f) # None =>
            <<y, MapState(type, u, y, z, f).entity[2]>> \in P
    BY <1>0, <1>2 DEF MapState, MotionSensorState, WaterSensorState
  <2>3. <<a, E>> \in P /\ <<b, E>> \in P
    <3> HIDE DEF P
    <3> QED BY <1>e, <2>1
  <2> QED BY <2>3 DEF Main
<1>3. CASE type = "lightSensor"
  BY <1>3 DEF MapState, LightSensorState
<1>4. CASE type = "environmentSensor"
  <2> DEFINE P == {<<"currentTemperature", "temperature">>, <<"currentRH", "humidity">>,
                   <<"currentPM25", "pm25">>, <<"vocIndex", "voc">>, <<"batteryPercentage", "battery">>}
  <2>1. \A y, z : EnvironmentSensorState(u, y, z) # None =>
            <<y, EnvironmentSensorState(u, y, z).entity[2]>> \in P
    BY <1>0 DEF EnvironmentSensorState
  <2>2. \A y, z, f : MapState(type, u, y, z, f) = EnvironmentSensorState(u, y, z)
    BY <1>4 DEF MapState
  <2>3. <<a, E>> \in P /\ <<b, E>> \in P
    <3> HIDE DEF P
    <3> QED BY <1>e, <2>1, <2>2
  <2> QED BY <2>3
<1>5. CASE type \in {"lightController", "button", "shortcutController"}
  <2> DEFINE P == {<<"isOn", Main>>, <<"batteryPercentage", "battery">>}
  <2>1. \A y, z : ControllerState(u, y, z) # None =>
            <<y, ControllerState(u, y, z).entity[2]>> \in P
    BY <1>0 DEF ControllerState
  <2>2. \A y, z, f : MapState(type, u, y, z, f) = ControllerState(u, y, z)
    BY <1>5 DEF MapState, ButtonState
  <2>3. <<a, E>> \in P /\ <<b, E>> \in P
    <3> HIDE DEF P
    <3> QED BY <1>e, <2>1, <2>2
  <2> QED BY <2>3 DEF Main
<1>6. CASE type \in {"blind", "blinds"}
  <2> DEFINE P == {<<"currentLevel", Main>>, <<"blindsCurrentLevel", Main>>,
                   <<"batteryPercentage", "battery">>}
  <2>1. \A y, z : BlindState(u, y, z) # None =>
            <<y, BlindState(u, y, z).entity[2]>> \in P
    BY <1>0 DEF BlindState
  <2>2. \A y, z, f : MapState(type, u, y, z, f) = BlindState(u, y, z)
    BY <1>6 DEF MapState
  <2>3. <<a, E>> \in P /\ <<b, E>> \in P
    <3> HIDE DEF P
    <3> QED BY <1>e, <2>1, <2>2
  <2> QED BY <1>6, <2>3 DEF Main, Rivals
<1>7. CASE type = "airPurifier"
  <2> DEFINE P == {<<"fanMode", Main>>, <<"motorSpeed", Main>>, <<"fanSensorPM25", "pm25">>,
                   <<"filterLifetime", "filter">>}
  <2>1. \A y, z : AirPurifierState(u, y, z) # None =>
            <<y, AirPurifierState(u, y, z).entity[2]>> \in P
    BY <1>0 DEF AirPurifierState
  <2>2. \A y, z, f : MapState(type, u, y, z, f) = AirPurifierState(u, y, z)
    BY <1>7 DEF MapState
  <2>3. <<a, E>> \in P /\ <<b, E>> \in P
    <3> HIDE DEF P
    <3> QED BY <1>e, <2>1, <2>2
  <2> QED BY <1>7, <2>3 DEF Main, Rivals
<1>8. CASE type = "speaker"
  <2> DEFINE P == {<<"playback", "playback">>, <<"volume", "volume">>, <<"isOn", "power">>,
                   <<"isReachable", "reachable">>}
  <2>1. \A y, z : SpeakerState(u, y, z) # None =>
            <<y, SpeakerState(u, y, z).entity[2]>> \in P
    BY <1>0 DEF SpeakerState
  <2>2. \A y, z, f : MapState(type, u, y, z, f) = SpeakerState(u, y, z)
    BY <1>8 DEF MapState
  <2>3. <<a, E>> \in P /\ <<b, E>> \in P
    <3> HIDE DEF P
    <3> QED BY <1>e, <2>1, <2>2
  <2>4. \A y, z, s : <<y, s>> \in P /\ <<z, s>> \in P => y = z
    BY SMTT(60)
  <2> HIDE DEF P
  <2> QED BY <2>3, <2>4
<1>9. CASE type = "gateway"
  <2> DEFINE P == {<<"isReachable", "reachable">>, <<"backendConnected", "backend_connected">>,
                   <<"otaStatus", "ota_status">>, <<"otaState", "ota_state">>,
                   <<"firmwareVersion", "firmware_version">>, <<"homestate", "home_state">>,
                   <<"timezone", "timezone">>, <<"nextSunRise", "next_sunrise">>,
                   <<"nextSunSet", "next_sunset">>, <<"coordinates", "location">>}
  <2>1. \A y, z : GatewayState(u, y, z) # None =>
            <<y, GatewayState(u, y, z).entity[2]>> \in P
    BY <1>0 DEF GatewayState
  <2>2. \A y, z, f : MapState(type, u, y, z, f) = GatewayState(u, y, z)
    BY <1>9 DEF MapState
  <2>3. <<a, E>> \in P /\ <<b, E>> \in P
    <3> HIDE DEF P
    <3> QED BY <1>e, <2>1, <2>2
  <2>4. \A y, z, s : <<y, s>> \in P /\ <<z, s>> \in P => y = z
    BY SMTT(60)
  <2> HIDE DEF P
  <2> QED BY <2>3, <2>4
<1>10. CASE type = "switch"
  BY <1>10 DEF MapState, SwitchState
<1>11. CASE type \notin {"outlet", "electricalSensor", "motionSensor", "waterSensor", "lightSensor",
                         "environmentSensor", "lightController", "button", "shortcutController",
                         "blind", "blinds", "airPurifier", "speaker", "gateway", "switch"}
  BY <1>11 DEF MapState
<1> QED BY <1>1, <1>2, <1>3, <1>4, <1>5, <1>6, <1>7, <1>8, <1>9, <1>10, <1>11

\* The level that a unit's battery is shown with is the one of the unit that has the entity.
LEMMA LevelOfOwner ==
    ASSUME Steady, HubInv, PairInv, NEW u \in Units, Now(u)["batteryPercentage"] # None
    PROVE LET owner == IF TypeOf(u) = "environmentSensor" THEN BatteryOwner(u) ELSE u
          IN Now(owner)["batteryPercentage"] = Now(u)["batteryPercentage"]
<1>1. "batteryPercentage" \in DOMAIN hub[u] /\ Now(u)["batteryPercentage"] = hub[u]["batteryPercentage"]
  <2>1. Typed["batteryPercentage"] = None /\ "batteryPercentage" \in DOMAIN Typed
    BY DEF Typed
  <2> QED BY <2>1, NowIs
<1>2. CASE TypeOf(u) = "environmentSensor" /\ ~ OwnsBattery(u)
  <2> DEFINE w == <<u[1], 1>>
  <2>1. Partner(u, w)
    BY <1>1, <1>2, PartnerIs DEF HubInv
  <2>2. w \in Units /\ "batteryPercentage" \in DOMAIN hub[w]
    BY <2>1 DEF Partner, HubInv
  <2>3. hub[u]["batteryPercentage"] = hub[w]["batteryPercentage"]
    BY <2>1 DEF PairInv
  <2>4. BatteryOwner(u) = w
    BY <1>2 DEF BatteryOwner, OwnsBattery
  <2> HIDE DEF w
  <2>5. Now(w)["batteryPercentage"] = hub[w]["batteryPercentage"]
    BY <2>2, NowIs
  <2> QED BY <1>1, <1>2, <2>3, <2>4, <2>5
<1>3. CASE ~ (TypeOf(u) = "environmentSensor" /\ ~ OwnsBattery(u))
  <2>1. TypeOf(u) = "environmentSensor" => BatteryOwner(u) = u
    BY <1>3 DEF BatteryOwner, OwnsBattery
  <2> QED BY <2>1
<1> QED BY <1>2, <1>3

\* All that feeds an entity that is not contested says the same.
LEMMA OneVoice ==
    ASSUME Steady, HubInv, PairInv, NEW e, ~ Contested(e),
           NEW u \in Units, NEW a \in Feeds(u), StateOf(u, a) # None, StateOf(u, a).entity = e,
           NEW w \in Units, NEW b \in Feeds(w), StateOf(w, b) # None, StateOf(w, b).entity = e
    PROVE StateOf(u, a).payload = StateOf(w, b).payload
<1>1. \A y, z : StateOf(y, z) = MapState(TypeOf(y), y, z, Now(y)[z], Now(y))
  BY DEF StateOf, Now, Full
<1>2. CASE e[2] = "battery"
  <2>1. ASSUME NEW y \in Units, NEW z \in Feeds(y), StateOf(y, z) # None, StateOf(y, z).entity = e
        PROVE StateOf(y, z).payload = Number(Now(e[1])["batteryPercentage"])
    <3> DEFINE owner == IF TypeOf(y) = "environmentSensor" THEN BatteryOwner(y) ELSE y
    <3>1. MapState(TypeOf(y), y, z, Now(y)[z], Now(y)) # None
      BY <1>1, <2>1
    <3>2. MapState(TypeOf(y), y, z, Now(y)[z], Now(y)).entity[2] = "battery"
      BY <1>1, <1>2, <2>1
    <3>3. /\ z = "batteryPercentage" /\ Now(y)[z] # None
          /\ StateOf(y, z) = State(owner, "battery", Number(Now(y)[z]))
      BY <1>1, <3>1, <3>2, BatteryVoice
    <3>4. Now(owner)["batteryPercentage"] = Now(y)["batteryPercentage"]
      BY <3>3, LevelOfOwner
    <3> HIDE DEF owner
    <3>5. e = <<owner, "battery">> /\ StateOf(y, z).payload = Number(Now(y)[z])
      BY <2>1, <3>3 DEF State
    <3> QED BY <3>3, <3>4, <3>5
  <2> QED BY <2>1
<1>3. CASE e[2] # "battery"
  <2>1. u = e[1] /\ w = e[1]
    BY <1>1, <1>3, OwnEntity
  <2>2. CASE TypeOf(u) = "light"
    <3>1. StateOf(u, a) = LightState(u, a, Now(u)) /\ StateOf(w, b) = LightState(u, b, Now(u))
      BY <1>1, <2>1, <2>2 DEF MapState
    <3> QED BY <3>1 DEF LightState
  <2>3. CASE TypeOf(u) # "light"
    <3>1. CASE a = b
      BY <2>1, <3>1
    <3>2. CASE a # b
      <4>1. /\ MapState(TypeOf(u), u, a, Now(u)[a], Now(u)) # None
            /\ MapState(TypeOf(u), u, b, Now(u)[b], Now(u)) # None
            /\ MapState(TypeOf(u), u, a, Now(u)[a], Now(u)).entity = e
            /\ MapState(TypeOf(u), u, b, Now(u)[b], Now(u)).entity = e
        BY <1>1, <2>1
      <4>2. Rivals(TypeOf(u), a, b) /\ e[2] = Main
        BY <2>3, <3>2, <4>1, OneAttribute
      <4>3. a \in DOMAIN Now(u) /\ b \in DOMAIN Now(u)
        BY <2>1, NowIs DEF Feeds
      <4>4. {a, b} \subseteq DOMAIN hub[u]
        <5>1. {a, b} \intersect (DOMAIN Typed \union {"isReachable"}) = {}
          BY <4>2 DEF Rivals, Typed
        <5>2. DOMAIN Now(u) = DOMAIN hub[u] \union DOMAIN Typed \union {"isReachable"}
          BY NowIs
        <5> QED BY <4>3, <5>1, <5>2
      <4>5. Contested(e)
        BY <2>1, <4>2, <4>4 DEF Contested, Rivals
      <4> QED BY <4>5
    <3> QED BY <3>1, <3>2
  <2> QED BY <2>2, <2>3
<1> QED BY <1>2, <1>3

\* When all is quiet all voices of an entity say what it shows.
LEMMA QuietIsAccurate ==
    ASSUME Steady, HubInv, ViewInv, PairInv PROVE Accurate
<1> SUFFICES ASSUME Quiet, NEW e \in DOMAIN shown, ~ Contested(e)
             PROVE Voices(e) = {shown[e]}
  BY DEF Accurate
<1> DEFINE Feeders == {f \in UNION {{u} \X Feeds(u) : u \in Units} :
                          StateOf(f[1], f[2]) # None /\ StateOf(f[1], f[2]).entity = e}
<1>1. PICK u \in Units : \E a \in Feeds(u) :
          StateOf(u, a) # None /\ StateOf(u, a) = [entity |-> e, payload |-> shown[e]]
  BY QuietIsSaid
<1>2. PICK a \in Feeds(u) :
          StateOf(u, a) # None /\ StateOf(u, a) = [entity |-> e, payload |-> shown[e]]
  BY <1>1
<1>3. StateOf(u, a).entity = e /\ StateOf(u, a).payload = shown[e]
  BY <1>2
<1>4. <<u, a>> \in Feeders
  BY <1>2, <1>3
<1>5. ASSUME NEW f \in Feeders PROVE StateOf(f[1], f[2]).payload = shown[e]
  <2>1. /\ f[1] \in Units /\ f[2] \in Feeds(f[1])
        /\ StateOf(f[1], f[2]) # None /\ StateOf(f[1], f[2]).entity = e
    OBVIOUS
  <2> DEFINE w == f[1]
             b == f[2]
  <2>2. w \in Units /\ b \in Feeds(w) /\ StateOf(w, b) # None /\ StateOf(w, b).entity = e
    BY <2>1
  <2> HIDE DEF w, b
  <2>3. StateOf(w, b).payload = StateOf(u, a).payload
    BY <1>2, <1>3, <2>2, OneVoice
  <2> QED BY <1>3, <2>3 DEF w, b
<1>6. Voices(e) = {StateOf(f[1], f[2]).payload : f \in Feeders}
  BY DEF Voices
<1> HIDE DEF Feeders
<1>7. <<u, a>>[1] = u /\ <<u, a>>[2] = a
  OBVIOUS
<1> QED BY <1>3, <1>4, <1>5, <1>6, <1>7

-----------------------------------------------------------------------------
(***************************************************************************)
(* There and back                                                          *)
(***************************************************************************)

\* The state of an entity is shown: what an attribute is published as.
ShowsState(state, u, s, shows) == state # None /\ state = [entity |-> <<u, s>>, payload |-> shows]

\* A payload of Home Assistant.
IsPayload(p) ==
    /\ p = <<p[1], p[2]>> /\ p[1] \in {"word", "number", "object"}
    /\ p[1] = "object" => IsLightPayload(p[2])

LEMMA PayloadIs ==
    ASSUME NEW p, IsPayload(p)
    PROVE \/ p[1] = "word" /\ p = Word(p[2])
          \/ p[1] = "number" /\ p = Number(p[2])
          \/ p[1] = "object" /\ p = Object(p[2]) /\ IsLightPayload(p[2])
BY DEF IsPayload, Word, Number, Object

\* The unit lists and has all that a command set.
Obeys(now, attrs) == \A b \in DOMAIN attrs : b \in DOMAIN now /\ now[b] = attrs[b]

\* A speaker does not keep what it did only for a moment.
ObeysButOnce(now, attrs) ==
    \A b \in DOMAIN attrs : (b = "playback" /\ attrs[b] \in Momentary) \/ now[b] = attrs[b]

\* Payload x of a light shows what command p asked for.
LightShows(x, p) ==
    \E g : /\ x = Object(g)
           /\ p[1] = "word" => "state" \in DOMAIN g /\ g["state"] = p[2]
           /\ p[1] = "number" => "brightness" \in DOMAIN g /\ g["brightness"] = p[2]
           /\ p[1] = "object" => \A k \in DOMAIN p[2] : k \in DOMAIN g /\ g[k] = p[2][k]

\* A light that has what a command set shows it, in whichever of its attributes.
LEMMA LightEcho ==
    ASSUME NEW u, NEW p, IsPayload(p), LightCommand(p) # None, NEW now, Obeys(now, LightCommand(p)),
           NEW a, NEW x, ShowsState(LightState(u, a, now), u, Main, x)
    PROVE LightShows(x, p)
<1>0. \A b \in DOMAIN LightCommand(p) : b \in DOMAIN now /\ now[b] = LightCommand(p)[b]
  BY DEF Obeys
<1> SUFFICES \E g : /\ x = Object(g)
                    /\ p[1] = "word" => "state" \in DOMAIN g /\ g["state"] = p[2]
                    /\ p[1] = "number" => "brightness" \in DOMAIN g /\ g["brightness"] = p[2]
                    /\ p[1] = "object" => \A k \in DOMAIN p[2] : k \in DOMAIN g /\ g[k] = p[2][k]
  BY DEF LightShows
<1> DEFINE fields == {k \in DOMAIN LightAttribute : LightHas(k, now)}
           g == [k \in fields |-> LightValue(k, now)]
<1>1. /\ LightState(u, a, now) = State(u, Main, Object(g)) /\ x = Object(g)
      /\ \E k \in DOMAIN LightAttribute : LightAttribute[k] = a
      /\ fields # {}
  BY DEF LightState, ShowsState, State
<1>2. CASE p[1] = "word"
  <2>1. p \in {Word("ON"), Word("OFF")} /\ p = Word(p[2])
    BY <1>2, PayloadIs DEF LightCommand, IsNumber, Word, Number, Object
  <2>2. LightCommand(p) = Power(p)
    BY <1>2, <2>1 DEF LightCommand, IsNumber
  <2>3. "isOn" \in DOMAIN now /\ now["isOn"] = IsWord(p, "ON")
    BY <1>0, <2>2 DEF Power
  <2>4. "state" \in fields
    BY <2>3, LightAttributes DEF LightHas
  <2>5. LightValue("state", now) = IF now["isOn"] = TRUE THEN "ON" ELSE "OFF"
    BY LightValues
  <2>6. LightValue("state", now) = p[2]
    <3>1. CASE p = Word("ON")
      BY <2>3, <2>5, <3>1 DEF IsWord, Word
    <3>2. CASE p = Word("OFF")
      BY <2>3, <2>5, <3>2 DEF IsWord, Word
    <3> QED BY <2>1, <3>1, <3>2
  <2> QED BY <1>1, <1>2, <2>4, <2>6
<1>3. CASE p[1] = "number"
  <2>1. p = Number(p[2]) /\ p \notin {Word("ON"), Word("OFF")}
    BY <1>3, PayloadIs DEF Word, Number, Object
  <2>2. IsNumber(p, 1, 100) /\ LightCommand(p) = [lightLevel |-> p[2]]
    BY <1>3, <2>1 DEF LightCommand
  <2>3. p[2] \in 1..100 /\ "lightLevel" \in DOMAIN now /\ now["lightLevel"] = p[2]
    BY <1>0, <2>2 DEF IsNumber
  <2>4. now["lightLevel"] # None
    BY <2>3, NoneAssumption
  <2>5. "brightness" \in fields
    BY <2>3, <2>4, LightAttributes DEF LightHas
  <2>6. LightValue("brightness", now) = p[2]
    BY <2>3, LightValues
  <2> QED BY <1>1, <1>3, <2>5, <2>6
<1>4. CASE p[1] = "object"
  <2> DEFINE f == p[2]
  <2>1. p = Object(f) /\ IsLightPayload(f) /\ p \notin {Word("ON"), Word("OFF")}
    BY <1>4, PayloadIs DEF Word, Number, Object
  <2>2. LightCommand(p) = LightFields(f) /\ DOMAIN LightFields(f) # {}
    <3>1. ~ IsNumber(p, 1, 100)
      BY <1>4 DEF IsNumber
    <3> QED BY <1>4, <2>1, <3>1 DEF LightCommand
  <2>3. PICK b : b \in DOMAIN LightFields(f)
    BY <2>2
  <2>4. \A c \in DOMAIN LightFields(f) : c \in DOMAIN now /\ now[c] = LightFields(f)[c]
    BY <1>0, <2>2
  <2>5. \E h : /\ LightState(u, b, now) = State(u, Main, Object(h))
               /\ \A k \in DOMAIN f : k \in DOMAIN h /\ h[k] = f[k]
    <3> HIDE DEF f
    <3> QED BY <2>1, <2>3, <2>4, LightRoundTrip
  <2>6. PICK h : /\ LightState(u, b, now) = State(u, Main, Object(h))
                 /\ \A k \in DOMAIN f : k \in DOMAIN h /\ h[k] = f[k]
    BY <2>5
  <2>7. \E k \in DOMAIN LightAttribute : LightAttribute[k] = b
    <3>1. DOMAIN LightFields(f) = {LightAttribute[k] : k \in DOMAIN f}
      <4> HIDE DEF f
      <4> QED BY <2>1, LightFieldsCorrect
    <3>2. DOMAIN f \subseteq DOMAIN LightAttribute
      BY <2>1 DEF IsLightPayload
    <3> QED BY <2>3, <3>1, <3>2
  <2>8. LightState(u, b, now) = State(u, Main, Object(g))
    BY <1>1, <2>7 DEF LightState
  <2>9. g = h
    <3> HIDE DEF g
    <3> QED BY <2>6, <2>8 DEF State, Object
  <2> QED BY <1>1, <1>4, <2>6, <2>9
<1> QED BY <1>2, <1>3, <1>4, PayloadIs

LEMMA SwitchEcho ==
    ASSUME NEW type \in {"outlet", "switch"}, NEW u, NEW p, SwitchCommand(p) # None, NEW now,
           \A b \in DOMAIN SwitchCommand(p) : now[b] = SwitchCommand(p)[b],
           NEW a, NEW x, ShowsState(MapState(type, u, a, now[a], now), u, Main, x)
    PROVE x = p
<1>1. p \in {Word("ON"), Word("OFF")} /\ SwitchCommand(p) = Power(p)
  BY DEF SwitchCommand
<1>2. now["isOn"] = IsWord(p, "ON")
  BY <1>1 DEF Power
<1>3. a = "isOn" /\ MapState(type, u, a, now[a], now) = OnOff(u, Main, now[a])
  <2>1. MapState(type, u, a, now[a], now) \in {OutletState(u, a, now[a]), SwitchState(u, a, now[a])}
    BY DEF MapState
  <2>2. MapState(type, u, a, now[a], now).entity = <<u, Main>> /\ MapState(type, u, a, now[a], now) # None
    BY DEF ShowsState
  <2>3. \A s, v : Decimal(u, s, v).entity = <<u, s>>
    BY EntityOfState
  <2>4. /\ <<u, "power">> # <<u, Main>> /\ <<u, "voltage">> # <<u, Main>>
        /\ <<u, "current">> # <<u, Main>> /\ <<u, "energy">> # <<u, Main>>
    BY DEF Main
  <2> QED BY <2>1, <2>2, <2>3, <2>4 DEF OutletState, SwitchState
<1>4. x = Word(IF now["isOn"] = TRUE THEN "ON" ELSE "OFF")
  BY <1>3 DEF ShowsState, OnOff, State
<1>5. CASE p = Word("ON")
  BY <1>2, <1>4, <1>5 DEF IsWord
<1>6. CASE p = Word("OFF")
  BY <1>2, <1>4, <1>6 DEF IsWord, Word
<1> QED BY <1>1, <1>5, <1>6

LEMMA BlindEcho ==
    ASSUME NEW u, NEW p, IsPayload(p), BlindCommand(p) # None, NEW now,
           \A b \in DOMAIN BlindCommand(p) : now[b] = BlindCommand(p)[b],
           NEW a, a # "blindsCurrentLevel", NEW x, ShowsState(BlindState(u, a, now[a]), u, Main, x)
    PROVE x = CASE IsWord(p, "OPEN") -> Number(100)
                [] IsWord(p, "CLOSE") -> Number(0)
                [] OTHER -> p
<1>1. a = "currentLevel" /\ BlindState(u, a, now[a]) = Position(u, now["currentLevel"])
  <2>1. BlindState(u, a, now[a]).entity = <<u, Main>> /\ BlindState(u, a, now[a]) # None
    BY DEF ShowsState
  <2>2. \A s, v : Whole(u, s, v) = None \/ Whole(u, s, v).entity = <<u, s>>
    BY EntityOfState
  <2>3. <<u, "battery">> # <<u, Main>>
    BY DEF Main
  <2> QED BY <2>1, <2>2, <2>3 DEF BlindState
<1>2. x = Number(100 - now["currentLevel"])
  BY <1>1 DEF ShowsState, Position, State
<1>3. CASE IsWord(p, "OPEN")
  <2>1. BlindCommand(p) = [currentLevel |-> 0] /\ ~ IsWord(p, "CLOSE")
    BY <1>3 DEF BlindCommand, IsWord, Word, IsNumber
  <2>2. now["currentLevel"] = 0
    BY <2>1
  <2> QED BY <1>2, <1>3, <2>1, <2>2
<1>4. CASE IsWord(p, "CLOSE")
  <2>1. BlindCommand(p) = [currentLevel |-> 100] /\ ~ IsWord(p, "OPEN")
    BY <1>4 DEF BlindCommand, IsWord, Word, IsNumber
  <2>2. now["currentLevel"] = 100
    BY <2>1
  <2> QED BY <1>2, <1>4, <2>1, <2>2
<1>5. CASE ~ IsWord(p, "OPEN") /\ ~ IsWord(p, "CLOSE")
  <2>1. IsNumber(p, 0, 100) /\ BlindCommand(p) = [currentLevel |-> 100 - p[2]]
    BY <1>5 DEF BlindCommand
  <2>2. p[2] \in 0..100 /\ p = Number(p[2])
    BY <2>1, PayloadIs DEF IsNumber
  <2>3. now["currentLevel"] = 100 - p[2] /\ 100 - (100 - p[2]) = p[2]
    BY <2>1, <2>2
  <2> QED BY <1>2, <1>5, <2>2, <2>3
<1> QED BY <1>3, <1>4, <1>5

\* The speed that is shown, as far as the hub has a name for it.
Speeds(x, n) == \E m \in 0..100 : x = Number(m) /\ SameSpeed(m, n)

LEMMA FanEcho ==
    ASSUME NEW u, NEW p, IsPayload(p), AirPurifierCommand(p) # None, NEW now,
           IsWord(p, "auto") => "auto" # None,
           \A b \in DOMAIN AirPurifierCommand(p) : now[b] = AirPurifierCommand(p)[b],
           NEW a, a # "motorSpeed", NEW x, ShowsState(AirPurifierState(u, a, now[a]), u, Main, x)
    PROVE CASE IsWord(p, "ON") -> ~ Speeds(x, 0)
            [] IsWord(p, "OFF") -> Speeds(x, 0)
            [] IsWord(p, "auto") -> x = p
            [] OTHER -> Speeds(x, p[2])
<1>1. a = "fanMode" /\ AirPurifierState(u, a, now[a]) = FanMode(u, now["fanMode"])
  <2>1. AirPurifierState(u, a, now[a]).entity = <<u, Main>> /\ AirPurifierState(u, a, now[a]) # None
    BY DEF ShowsState
  <2>2. \A s, v : /\ Whole(u, s, v) = None \/ Whole(u, s, v).entity = <<u, s>>
                  /\ Decimal(u, s, v).entity = <<u, s>>
    BY EntityOfState
  <2>3. <<u, "pm25">> # <<u, Main>> /\ <<u, "filter">> # <<u, Main>>
    BY DEF Main
  <2> QED BY <2>1, <2>2, <2>3 DEF AirPurifierState
<1>2. FanMode(u, now["fanMode"]) = [entity |-> <<u, Main>>, payload |-> x]
  BY <1>1 DEF ShowsState
<1>3. CASE IsWord(p, "ON")
  <2>1. AirPurifierCommand(p) = [fanMode |-> "low"] /\ ~ IsWord(p, "OFF") /\ ~ IsWord(p, "auto")
    BY <1>3 DEF AirPurifierCommand, IsWord, Word, IsNumber
  <2>2. now["fanMode"] = "low"
    BY <2>1
  <2>3. x = Number(25)
    BY <1>2, <2>2 DEF FanMode, State
  <2>4. ~ Speeds(x, 0)
    BY <2>3 DEF Speeds, SameSpeed, Number
  <2> QED BY <1>3, <2>1, <2>4
<1>4. CASE IsWord(p, "OFF")
  <2>1. AirPurifierCommand(p) = [fanMode |-> "off"] /\ ~ IsWord(p, "ON") /\ ~ IsWord(p, "auto")
    BY <1>4 DEF AirPurifierCommand, IsWord, Word, IsNumber
  <2>2. now["fanMode"] = "off"
    BY <2>1
  <2>3. x = Number(0)
    BY <1>2, <2>2 DEF FanMode, State
  <2>4. Speeds(x, 0)
    BY <2>3 DEF Speeds, SameSpeed
  <2> QED BY <1>4, <2>1, <2>4
<1>5. CASE IsWord(p, "auto")
  <2>1. AirPurifierCommand(p) = [fanMode |-> "auto"] /\ ~ IsWord(p, "ON") /\ ~ IsWord(p, "OFF")
    BY <1>5 DEF AirPurifierCommand, IsWord, Word, IsNumber
  <2>2. now["fanMode"] = "auto"
    BY <2>1
  <2>3. x = Word("auto")
    BY <1>2, <1>5, <2>2 DEF FanMode, Text, State
  <2> QED BY <1>5, <2>1, <2>3 DEF IsWord
<1>6. CASE ~ IsWord(p, "ON") /\ ~ IsWord(p, "OFF") /\ ~ IsWord(p, "auto")
  <2>1. IsNumber(p, 0, 100) /\ AirPurifierCommand(p) = [fanMode |-> PctToFanMode(p[2])]
    BY <1>6 DEF AirPurifierCommand
  <2>2. p[2] \in 0..100 /\ now["fanMode"] = PctToFanMode(p[2])
    BY <2>1 DEF IsNumber
  <2> DEFINE n == p[2]
  <2>3. \E m \in 0..100 : /\ AirPurifierState(u, "fanMode", PctToFanMode(n)) = State(u, Main, Number(m))
                          /\ PctToFanMode(m) = PctToFanMode(n)
    <3> HIDE DEF n
    <3>1. n \in 0..100
      BY <2>2 DEF n
    <3> QED BY <3>1, FanRoundTrip
  <2>4. PICK m \in 0..100 : /\ AirPurifierState(u, "fanMode", PctToFanMode(n)) = State(u, Main, Number(m))
                            /\ PctToFanMode(m) = PctToFanMode(n)
    BY <2>3
  <2>5. x = Number(m)
    BY <1>1, <1>2, <2>2, <2>4 DEF State
  <2>6. SameSpeed(m, n)
    <3> HIDE DEF n
    <3>1. n \in 0..100
      BY <2>2 DEF n
    <3> QED BY <2>4, <3>1 DEF SameSpeed, PctToFanMode
  <2>7. Speeds(x, n)
    BY <2>5, <2>6 DEF Speeds
  <2> QED BY <1>6, <2>7
<1> QED BY <1>3, <1>4, <1>5, <1>6

LEMMA SpeakerEcho ==
    ASSUME NEW u, NEW p, IsPayload(p), SpeakerCommand(p) # None, NEW now,
           ObeysButOnce(now, SpeakerCommand(p)), NEW a, NEW x, NEW s, ShowsState(SpeakerState(u, a, now[a]), u, s, x)
    PROVE /\ p[1] = "number" /\ s = "volume" => x = p
          /\ p \in {Word("ON"), Word("OFF")} /\ s = "power" => x = p
<1>0. \A b \in DOMAIN SpeakerCommand(p) :
         (b = "playback" /\ SpeakerCommand(p)[b] \in Momentary) \/ now[b] = SpeakerCommand(p)[b]
  BY DEF ObeysButOnce
<1>1. SpeakerState(u, a, now[a]).entity = <<u, s>> /\ SpeakerState(u, a, now[a]) # None
  BY DEF ShowsState
<1>2. \A t, v : /\ Whole(u, t, v) = None \/ Whole(u, t, v).entity = <<u, t>>
                /\ OnOff(u, t, v).entity = <<u, t>> /\ Text(u, t, v).entity = <<u, t>>
  BY EntityOfState
<1>3. /\ s = "volume" => a = "volume" /\ SpeakerState(u, a, now[a]) = Whole(u, "volume", now["volume"])
      /\ s = "power" => a = "isOn" /\ SpeakerState(u, a, now[a]) = OnOff(u, "power", now["isOn"])
  BY <1>1, <1>2 DEF SpeakerState
<1>4. ASSUME p[1] = "number", s = "volume" PROVE x = p
  <2>1. p = Number(p[2]) /\ p \notin {Word("ON"), Word("OFF")}
    BY <1>4, PayloadIs DEF Word, Number
  <2>2. IsNumber(p, 0, 100) /\ SpeakerCommand(p) = [volume |-> p[2]]
    BY <1>4, <2>1 DEF SpeakerCommand, IsWord, Word
  <2>3. now["volume"] = p[2]
    BY <1>0, <2>2
  <2>4. x = Number(now["volume"])
    BY <1>3, <1>4 DEF ShowsState, Whole, State
  <2> QED BY <2>1, <2>3, <2>4
<1>5. ASSUME p \in {Word("ON"), Word("OFF")}, s = "power" PROVE x = p
  <2>1. SpeakerCommand(p) = Power(p)
    <3>1. ~ IsWord(p, "NEXT") /\ ~ IsWord(p, "PREVIOUS") /\ ~ IsNumber(p, 0, 100)
      BY <1>5 DEF IsWord, Word, IsNumber
    <3> QED BY <1>5, <3>1 DEF SpeakerCommand
  <2>2. now["isOn"] = IsWord(p, "ON")
    BY <1>0, <2>1 DEF Power
  <2>3. x = Word(IF now["isOn"] = TRUE THEN "ON" ELSE "OFF")
    BY <1>3, <1>5 DEF ShowsState, OnOff, State
  <2>4. CASE p = Word("ON")
    BY <2>2, <2>3, <2>4 DEF IsWord
  <2>5. CASE p = Word("OFF")
    BY <2>2, <2>3, <2>5 DEF IsWord, Word
  <2> QED BY <1>5, <2>4, <2>5
<1> QED BY <1>4, <1>5

\* Once discovered, a unit has the entities that its handler makes in any case.
RegisteredInv ==
    entities # {} => \A u \in Units : MapDevice(TypeOf(u), u, fetched[u]) \subseteq entities

LEMMA RegisteredStep ==
    ASSUME RegisteredInv, [Next]_vars PROVE RegisteredInv'
<1>1. ASSUME UNCHANGED <<home, fetched, entities>> PROVE RegisteredInv'
  BY <1>1 DEF RegisteredInv, Units, TypeOf, Unit
<1>2. CASE Discover
  <2>1. /\ home' = home /\ fetched' = [u \in Units |-> RawAttributes(hub[u])]
        /\ entities' = entities \union
              UNION {MapDevice(TypeOf(u), u, RawAttributes(hub[u])) : u \in Units}
    BY <1>2 DEF Discover
  <2>2. Units' = Units /\ \A w : TypeOf(w)' = TypeOf(w)
    BY <2>1 DEF Units, TypeOf, Unit
  <2>3. \A u \in Units : MapDevice(TypeOf(u), u, fetched'[u]) \subseteq entities'
    BY <2>1
  <2> QED BY <2>2, <2>3 DEF RegisteredInv
<1> QED BY <1>1, <1>2 DEF Next, Bridge, PublishInitial, Receive, ByHand, HubChanges, Command, Callback,
           PatchArrives, PatchAnswered, PatchFails, PatchTimesOut, PatchLate, HubPatches, vars, mapping,
           devices

LEMMA AlwaysRegistered ==
    ASSUME FetchInv, RegisteredInv, entities # {}, NEW u \in Units, TypeOf(u) \in DOMAIN Registry,
           NEW s \in Registry[TypeOf(u)].always
    PROVE <<u, s>> \in entities
<1> DEFINE type == TypeOf(u)
           attrs == fetched[u]
<1>1. MapDevice(type, u, attrs) \subseteq entities
  BY DEF RegisteredInv
<1>2. Given(attrs, "batteryPercentage") => attrs["batteryPercentage"] \in 0..100
  <2>1. CASE fetched = NoCache
    BY <2>1 DEF NoCache, Given
  <2>2. CASE fetched # NoCache
    BY <2>2 DEF FetchInv, Given
  <2> QED BY <2>1, <2>2
<1>3. ~ Raises(type, u, attrs)
  BY <1>2 DEF Raises, HasBattery
<1> HIDE DEF attrs
<1>4. <<u, s>> \in MapDevice(type, u, attrs)
  BY <1>3 DEF MapDevice
<1> QED BY <1>1, <1>4

\* When all is quiet an entity of a unit shows what one of its attributes is now.
LEMMA QuietShows ==
    ASSUME Steady, HubInv, BridgeInv, Accurate, Fed, Quiet, NEW u \in Units, NEW s,
           s # "battery", HasStateTopic(TypeOf(u), s), <<u, s>> \in entities, ~ Contested(<<u, s>>)
    PROVE \E a \in DOMAIN Now(u) :
             ShowsState(MapState(TypeOf(u), u, a, Now(u)[a], Now(u)), u, s, ShownAs(u, s))
<1> DEFINE e == <<u, s>>
<1>1. e[1] = u /\ e[2] = s
  OBVIOUS
<1>2. e \in DOMAIN shown
  BY <1>1 DEF Fed, Quiet
<1>3. Voices(e) = {shown[e]}
  BY <1>2 DEF Accurate
<1> HIDE DEF e
<1>4. PICK f \in UNION {{w} \X Feeds(w) : w \in Units} :
          /\ StateOf(f[1], f[2]) # None /\ StateOf(f[1], f[2]).entity = e
          /\ StateOf(f[1], f[2]).payload = shown[e]
  BY <1>3 DEF Voices
<1> DEFINE w == f[1]
           a == f[2]
<1>5. w \in Units /\ a \in Feeds(w)
  OBVIOUS
<1>6. StateOf(w, a) # None /\ StateOf(w, a).entity = e /\ StateOf(w, a).payload = shown[e]
  BY <1>4
<1> HIDE DEF w, a
<1>7. StateOf(w, a) = MapState(TypeOf(w), w, a, Now(w)[a], Now(w))
  BY DEF StateOf, Now, Full
<1>8. w = u
  BY <1>1, <1>6, <1>7, OwnEntity
<1>9. StateOf(w, a) = [entity |-> e, payload |-> shown[e]]
  BY <1>6, <1>7, StateShape
<1>10. a \in DOMAIN Now(u)
  BY <1>5, <1>8, NowIs DEF Feeds
<1>11. ShownAs(u, s) = shown[e]
  BY <1>2 DEF ShownAs, e
<1> QED BY <1>6, <1>7, <1>8, <1>9, <1>10, <1>11 DEF ShowsState, e

LEMMA EchoHolds ==
    ASSUME Steady, Commandable, HubInv, FetchInv, CommandInv, BridgeInv, RegisteredInv, Accurate, Fed
    PROVE Echo
<1> SUFFICES ASSUME Quiet, NEW u \in Units, sure[u] # None, ~ Contested(<<u, Main>>)
             PROVE Shows(u, sure[u])
  BY DEF Echo, Echoed
<1> DEFINE p == sure[u]
           type == TypeOf(u)
           attrs == MapCommand(type, p)
           now == Now(u)
           state(a) == MapState(type, u, a, now[a], now)
<1>1. p \in Vocabulary[u] /\ attrs # None /\ Applied(hub, u, attrs)
  BY DEF CommandInv, SureInv, Asked
<1>2. PICK i \in DOMAIN home : home[i].id = u /\ Unit(u) = home[i]
  BY UnitListed
<1>3. /\ IsPayload(p)
      /\ \A a \in DOMAIN attrs : Publishable(a, attrs[a])
  <2>1. attrs = MapCommand(home[i].type, p)
    BY <1>2 DEF TypeOf
  <2> HIDE DEF p, attrs
  <2>2. p \in Vocabulary[home[i].id] /\ home \in Homes
    BY <1>1, <1>2 DEF HubInv
  <2> QED BY <1>1, <2>1, <2>2 DEF Commandable, IsPayload, Steady
<1>4. /\ DOMAIN now = DOMAIN hub[u] \union DOMAIN Typed \union {"isReachable"}
      /\ \A a \in DOMAIN hub[u] : now[a] = hub[u][a]
  BY NowIs
<1>5. /\ type \in {"blind", "blinds"} /\ "currentLevel" \in DOMAIN attrs
            => "blindsCurrentLevel" \notin DOMAIN now
      /\ type = "airPurifier" /\ "fanMode" \in DOMAIN attrs => "motorSpeed" \notin DOMAIN now
  <2>1. /\ "currentLevel" \in DOMAIN attrs => "currentLevel" \in DOMAIN hub[u]
        /\ "fanMode" \in DOMAIN attrs => "fanMode" \in DOMAIN hub[u]
    BY <1>1, AskedIsListed DEF Asked
  <2>2. /\ type \in {"blind", "blinds"} /\ "currentLevel" \in DOMAIN hub[u]
              => "blindsCurrentLevel" \notin DOMAIN hub[u]
        /\ type = "airPurifier" /\ "fanMode" \in DOMAIN hub[u] => "motorSpeed" \notin DOMAIN hub[u]
    BY DEF Contested
  <2> QED BY <1>4, <2>1, <2>2 DEF Typed
<1>6. \A a \in DOMAIN attrs : (a = "playback" /\ attrs[a] \in Momentary)
                              \/ (a \in DOMAIN now /\ now[a] = attrs[a])
  <2>1. \A a \in DOMAIN attrs : (a = "playback" /\ attrs[a] \in Momentary) \/ a \in DOMAIN hub[u]
    BY <1>1, AskedIsListed DEF Asked
  <2> QED BY <1>1, <1>4, <2>1 DEF Applied
<1>7. ASSUME NEW s, type \in DOMAIN Registry, s \in Registry[type].always,
             HasStateTopic(type, s), s # "battery"
      PROVE \E a \in DOMAIN now : ShowsState(state(a), u, s, ShownAs(u, s))
  <2>1. <<u, s>> \in entities
    BY <1>7, AlwaysRegistered DEF Quiet
  <2>2. ~ Contested(<<u, s>>)
    BY DEF Contested
  <2> QED BY <1>7, <2>1, <2>2, QuietShows
<1> HIDE DEF p, now
<1> SUFFICES Shows(u, p)
  BY DEF p
<1>8. CASE type = "light"
  <2>0. HasStateTopic(type, Main)
    BY <1>8 DEF HasStateTopic, Main
  <2>1. attrs = LightCommand(p) /\ \A a : state(a) = LightState(u, a, now)
    BY <1>8 DEF MapCommand, MapState
  <2>2. Main \in Registry[type].always /\ type \in DOMAIN Registry
    BY <1>8, HandlerOf, TypesKnown DEF Light
  <2>3. PICK a \in DOMAIN now : ShowsState(LightState(u, a, now), u, Main, ShownAs(u, Main))
    BY <1>7, <2>1, <2>2, <2>0 DEF Main
  <2>4. \A b \in DOMAIN LightCommand(p) : b # "playback"
    BY <1>1, <2>1, LightCommandSets
  <2>5. Obeys(now, LightCommand(p))
    BY <1>6, <2>1, <2>4 DEF Obeys
  <2>6. LightShows(ShownAs(u, Main), p)
    BY <1>1, <1>3, <2>1, <2>3, <2>5, LightEcho
  <2>7. /\ p[1] = "word" => Field(u, "state", p[2])
        /\ p[1] = "number" => Field(u, "brightness", p[2])
        /\ p[1] = "object" => \A k \in DOMAIN p[2] : Field(u, k, p[2][k])
    BY <2>6 DEF LightShows, Field, Object
  <2> QED BY <1>8, <2>7 DEF Shows
<1>9. CASE type \in {"outlet", "switch"}
  <2>0. HasStateTopic(type, Main)
    BY <1>9 DEF HasStateTopic, Main
  <2>1. attrs = SwitchCommand(p)
    BY <1>9 DEF MapCommand
  <2>2. Main \in Registry[type].always /\ type \in DOMAIN Registry
    BY <1>9, HandlerOf, TypesKnown DEF Outlet, ElectricalSensor, Switch
  <2>3. PICK a \in DOMAIN now : ShowsState(state(a), u, Main, ShownAs(u, Main))
    BY <1>7, <2>2, <2>0 DEF Main
  <2>4. \A b \in DOMAIN SwitchCommand(p) : b # "playback"
    BY <1>1, <2>1 DEF SwitchCommand, Power
  <2>5. \A b \in DOMAIN SwitchCommand(p) : now[b] = SwitchCommand(p)[b]
    BY <1>6, <2>1, <2>4
  <2>6. ShownAs(u, Main) = p
    BY <1>1, <1>9, <2>1, <2>3, <2>5, SwitchEcho
  <2> QED BY <1>9, <2>6 DEF Shows
<1>10. CASE type \in {"blind", "blinds"}
  <2>0. HasStateTopic(type, Main)
    BY <1>10 DEF HasStateTopic, Main
  <2>1. attrs = BlindCommand(p) /\ \A a : state(a) = BlindState(u, a, now[a])
    BY <1>10 DEF MapCommand, MapState
  <2>2. Main \in Registry[type].always /\ type \in DOMAIN Registry
    BY <1>10, HandlerOf, TypesKnown DEF Blind
  <2>3. PICK a \in DOMAIN now : ShowsState(BlindState(u, a, now[a]), u, Main, ShownAs(u, Main))
    BY <1>7, <2>1, <2>2, <2>0 DEF Main
  <2>4. \A b \in DOMAIN BlindCommand(p) : b # "playback"
    BY <1>1, <2>1 DEF BlindCommand
  <2>5. \A b \in DOMAIN BlindCommand(p) : now[b] = BlindCommand(p)[b]
    BY <1>6, <2>1, <2>4
  <2>6. a # "blindsCurrentLevel"
    <3>1. "currentLevel" \in DOMAIN attrs
      BY <1>1, <2>1 DEF BlindCommand
    <3> QED BY <1>5, <1>10, <3>1
  <2>7. ShownAs(u, Main) = CASE IsWord(p, "OPEN") -> Number(100)
                             [] IsWord(p, "CLOSE") -> Number(0)
                             [] OTHER -> p
    BY <1>1, <1>3, <2>1, <2>3, <2>5, <2>6, BlindEcho
  <2> QED BY <1>10, <2>7 DEF Shows
<1>11. CASE type = "airPurifier"
  <2>0. HasStateTopic(type, Main)
    BY <1>11 DEF HasStateTopic, Main
  <2>1. attrs = AirPurifierCommand(p) /\ \A a : state(a) = AirPurifierState(u, a, now[a])
    BY <1>11 DEF MapCommand, MapState
  <2>2. Main \in Registry[type].always /\ type \in DOMAIN Registry
    BY <1>11, HandlerOf, TypesKnown DEF AirPurifier
  <2>3. PICK a \in DOMAIN now : ShowsState(AirPurifierState(u, a, now[a]), u, Main, ShownAs(u, Main))
    BY <1>7, <2>1, <2>2, <2>0 DEF Main
  <2>4. \A b \in DOMAIN AirPurifierCommand(p) : b # "playback"
    BY <1>1, <2>1 DEF AirPurifierCommand
  <2>5. \A b \in DOMAIN AirPurifierCommand(p) : now[b] = AirPurifierCommand(p)[b]
    BY <1>6, <2>1, <2>4
  <2>6. a # "motorSpeed"
    <3>1. "fanMode" \in DOMAIN attrs
      BY <1>1, <2>1 DEF AirPurifierCommand
    <3> QED BY <1>5, <1>11, <3>1
  <2>7. IsWord(p, "auto") => "auto" # None
    <3> SUFFICES ASSUME IsWord(p, "auto") PROVE "auto" # None
      OBVIOUS
    <3>1. AirPurifierCommand(p) = [fanMode |-> "auto"]
      BY DEF AirPurifierCommand, IsWord, Word, IsNumber
    <3> QED BY <1>3, <2>1, <3>1 DEF Publishable
  <2>8. (CASE IsWord(p, "ON") -> ~ Speeds(ShownAs(u, Main), 0)
           [] IsWord(p, "OFF") -> Speeds(ShownAs(u, Main), 0)
           [] IsWord(p, "auto") -> ShownAs(u, Main) = p
           [] OTHER -> Speeds(ShownAs(u, Main), p[2]))
    BY <1>1, <1>3, <2>1, <2>3, <2>5, <2>6, <2>7, FanEcho
  <2>9. \A n : Speed(u, n) <=> Speeds(ShownAs(u, Main), n)
    BY DEF Speed, Speeds
  <2> QED BY <1>11, <2>8, <2>9 DEF Shows
<1>12. CASE type = "speaker"
  <2>0. HasStateTopic(type, "volume") /\ HasStateTopic(type, "power")
    BY <1>12 DEF HasStateTopic
  <2>1. attrs = SpeakerCommand(p) /\ \A a : state(a) = SpeakerState(u, a, now[a])
    BY <1>12 DEF MapCommand, MapState
  <2>2. {"volume", "power"} \subseteq Registry[type].always /\ type \in DOMAIN Registry
    BY <1>12, HandlerOf, TypesKnown DEF Speaker
  <2>3. ObeysButOnce(now, SpeakerCommand(p))
    BY <1>6, <2>1 DEF ObeysButOnce
  <2>4. PICK a \in DOMAIN now : ShowsState(SpeakerState(u, a, now[a]), u, "volume", ShownAs(u, "volume"))
    BY <1>7, <2>1, <2>2, <2>0
  <2>5. PICK b \in DOMAIN now : ShowsState(SpeakerState(u, b, now[b]), u, "power", ShownAs(u, "power"))
    BY <1>7, <2>1, <2>2, <2>0
  <2>6. IsPayload(p) /\ SpeakerCommand(p) # None
    BY <1>1, <1>3, <2>1
  <2>7. p[1] = "number" => ShownAs(u, "volume") = p
    BY <2>3, <2>4, <2>6, SpeakerEcho
  <2>8. p \in {Word("ON"), Word("OFF")} => ShownAs(u, "power") = p
    BY <2>3, <2>5, <2>6, SpeakerEcho
  <2> QED BY <1>12, <2>7, <2>8 DEF Shows
<1>13. CASE type \notin {"light", "outlet", "switch", "blind", "blinds", "airPurifier", "speaker"}
  BY <1>1, <1>13 DEF MapCommand
<1> QED BY <1>8, <1>9, <1>10, <1>11, <1>12, <1>13

-----------------------------------------------------------------------------
(***************************************************************************)
(* Theorems                                                                *)
(***************************************************************************)
Inv == HubInv /\ FetchInv /\ CommandInv /\ BridgeInv

LEMMA InitInv ==
    ASSUME CommandsInit PROVE Inv
<1>1. home \in Homes /\ hub = [u \in Units |-> Unit(u).attrs] /\ fetched = NoCache
  BY DEF CommandsInit, Init
<1>2. ASSUME NEW u \in Units PROVE Level(Unit(u).attrs)
  <2>1. PICK i \in DOMAIN home : Unit(u) = home[i]
    BY UnitListed
  <2> QED BY <1>1, <2>1, BatteryAssumption DEF Level
<1>3. HubInv
  BY <1>1, <1>2 DEF HubInv
<1>4. flight = [s \in Slots |-> Idle] /\ late = {} /\ sure = [u \in Units |-> None]
  BY DEF CommandsInit
<1>5. FlightInv
  BY <1>4 DEF FlightInv, IsFlight, Idle, Goes
<1>6. LateInv /\ AloneInv /\ SureInv
  BY <1>4 DEF LateInv, AloneInv, SureInv, Goes
<1>7. /\ cache = NoCache /\ entities = {} /\ todo = <<>> /\ wire = <<>>
      /\ shown = [e \in {} |-> None] /\ disturbances = 0 /\ commands = 0
  BY DEF CommandsInit, Init
<1>8. DOMAIN shown = {} /\ IsSeq(<<>>) /\ Range(<<>>) = {}
  BY <1>7 DEF IsSeq, Range
<1>9. cache = [u \in Units |-> cache[u]] /\ DOMAIN fetched = Units
  BY <1>1, <1>7 DEF NoCache
<1>10. MaxCommands \in Nat /\ MaxDisturbances \in Nat
  BY DeviceMappingAssumption, CommandsAssumption
<1>11. BridgeInv
  BY <1>7, <1>8, <1>9, <1>10 DEF BridgeInv
<1> QED BY <1>1, <1>3, <1>5, <1>6, <1>11 DEF Inv, FetchInv, CommandInv

\* FetchInv and HubInv speak of the home, the hub and what the bridge fetched.
LEMMA FetchKept ==
    ASSUME FetchInv, UNCHANGED <<home, fetched, entities>> PROVE FetchInv'
<1>1. Units' = Units /\ \A w : Unit(w)' = Unit(w) /\ TypeOf(w)' = TypeOf(w)
  BY DEF Units, Unit, TypeOf
<1> QED BY <1>1 DEF FetchInv, NoCache

LEMMA HubKept ==
    ASSUME HubInv, UNCHANGED <<home, hub>> PROVE HubInv'
<1>1. Units' = Units /\ \A w : Unit(w)' = Unit(w)
  BY DEF Units, Unit
<1> QED BY <1>1 DEF HubInv, Level

LEMMA NextInvariant ==
    ASSUME Inv, [Next]_vars PROVE Inv'
<1>0. BridgeInv'
  BY BridgeStep DEF Inv
<1> USE DEF Inv
<1>1. CASE UNCHANGED vars
  BY <1>0, <1>1, OtherStep, FetchKept, HubKept DEF vars, mapping, net
<1>2. CASE Bridge
  <2>1. CASE Discover
    BY <1>0, <1>2, <2>1, OtherStep, DiscoverFetches, HubKept DEF Bridge, net, Discover
  <2>2. CASE PublishInitial \/ Receive
    BY <1>0, <1>2, <2>2, OtherStep, FetchKept, HubKept DEF Bridge, net, PublishInitial, Receive
  <2> QED BY <1>0, <1>2, <2>1, <2>2 DEF Bridge
<1>3. ASSUME NEW u \in Units, ByHand(u) PROVE Inv'
  BY <1>0, <1>3, ByHandStep, FetchKept
<1>4. ASSUME NEW u \in Units, NEW s \in Slots, NEW p \in Vocabulary[u], Command(s, u, p) PROVE Inv'
  BY <1>0, <1>4, CommandStep, FetchKept, HubKept DEF Command, devices
<1>5. ASSUME NEW s \in Slots, PatchArrives(s) PROVE Inv'
  BY <1>0, <1>5, PatchArrivesStep, FetchKept
<1>6. ASSUME NEW s \in Slots, PatchAnswered(s) PROVE Inv'
  BY <1>0, <1>6, PatchAnsweredStep, FetchKept, HubKept DEF PatchAnswered, mapping
<1>7. ASSUME NEW s \in Slots, PatchFails(s) PROVE Inv'
  BY <1>0, <1>7, PatchFailsStep, FetchKept, HubKept DEF PatchFails, devices
<1>8. ASSUME NEW s \in Slots, PatchTimesOut(s) PROVE Inv'
  BY <1>0, <1>8, PatchTimesOutStep, FetchKept, HubKept DEF PatchTimesOut, devices
<1>9. ASSUME NEW l \in late, PatchLate(l) PROVE Inv'
  BY <1>0, <1>9, PatchLateStep, FetchKept
<1> QED BY <1>1, <1>2, <1>3, <1>4, <1>5, <1>6, <1>7, <1>8, <1>9 DEF Next, Callback

\* Inv is kept by every step of the bridge, of Home Assistant and of the hub.
THEOREM CommandsInvariance == Spec => []Inv
<1>1. CommandsInit => Inv
  BY InitInv
<1>2. Inv /\ [Next]_vars => Inv'
  BY NextInvariant
<1> QED BY <1>1, <1>2, PTL DEF Spec

\* Whatever arrives when, the bridge keeps nothing of a unit the home does not have,
\* Home Assistant shows nothing that was not registered, and a command in flight has
\* one PATCH left or two.
THEOREM TypeCorrect == Spec => []TypeOK
<1>1. ASSUME Inv PROVE TypeOK
  <2>1. ASSUME NEW s \in Slots, Goes(s)
        PROVE /\ flight[s].unit \in Units /\ Len(flight[s].left) \in 1..2
              /\ flight[s].payload \in Vocabulary[flight[s].unit]
    <3>1. OpenFlight(flight[s])
      BY <1>1, <2>1 DEF Inv, CommandInv, FlightInv
    <3>2. Len(flight[s].left) = 1 \/ Len(flight[s].left) = 2
      BY <1>1, <3>1, Stages DEF Inv
    <3> QED BY <3>1, <3>2 DEF OpenFlight
  <2>2. \A u \in Units : sure[u] # None => sure[u] \in Vocabulary[u]
    BY <1>1 DEF Inv, CommandInv, SureInv
  <2>3. HubInv /\ BridgeInv
    BY <1>1 DEF Inv
  <2>4. DOMAIN cache = Units
    BY <2>3 DEF BridgeInv
  <2> QED BY <2>1, <2>2, <2>3, <2>4 DEF HubInv, BridgeInv, TypeOK
<1> QED BY <1>1, CommandsInvariance, PTL

\* Whatever the hub lists of its units, what the state mapper publishes of what was
\* fetched has its entity registered.
THEOREM DeliveredCorrect == Spec => []Delivered
<1>1. Inv => Delivered
  BY FetchedIsDelivered DEF Inv
<1> QED BY <1>1, CommandsInvariance, PTL

\* When the callback of a command is done and nothing else happened to the unit,
\* the hub has all that the command asked for, sent as one PATCH or as two, with any
\* number of commands, timeouts and changes on the other units.
THEOREM AppliedCorrect == Spec => []DoneIsApplied
<1>1. Inv => DoneIsApplied
  BY DEF Inv, CommandInv, SureInv, Applied, Asked, DoneIsApplied
<1> QED BY <1>1, CommandsInvariance, PTL

\* No entity that can have a state stays without one, in a home whose units list, and go
\* on listing, what the entities live on that their handlers make in any case: whatever
\* else a handler makes is fed by what it is made for, because a discovery publishes it
\* all.  Events and buttons have no topic for a state, and are not claimed to have one.
THEOREM FedCorrect == ASSUME NoneIsNoState, Equipped PROVE Spec => []Fed
<1>1. CommandsInit => SatedInv /\ FedInv
  <2> SUFFICES ASSUME CommandsInit PROVE SatedInv /\ FedInv
    OBVIOUS
  <2>1. /\ home \in Homes /\ hub = [u \in Units |-> Unit(u).attrs]
        /\ late = {} /\ entities = {}
    BY DEF CommandsInit, Init
  <2>2. ASSUME NEW u \in Units PROVE Sated(TypeOf(u), hub[u])
    <3>1. PICK i \in DOMAIN home : Unit(u) = home[i]
      BY UnitListed
    <3> QED BY <2>1, <3>1 DEF TypeOf, Equipped
  <2> QED BY <2>1, <2>2 DEF SatedInv, FedInv
<1>2. Inv /\ SatedInv /\ FedInv /\ [Next]_vars => SatedInv' /\ FedInv'
  BY SatedStep, FedStep DEF Inv
<1>3. BridgeInv /\ FedInv => Fed
  <2> SUFFICES ASSUME FedInv, todo = <<>>, NEW e \in entities
               PROVE \/ ~ HasStateTopic(TypeOf(e[1]), e[2])
                     \/ TypeOf(e[1]) = "lightSensor" /\ e[2] = "battery"
                     \/ e \in DOMAIN shown
    BY DEF Fed
  <2>1. Handled(e)
    BY DEF FedInv
  <2>2. Range(todo) = {}
    BY DEF Range
  <2> QED BY <2>1, <2>2 DEF Handled, Exempt
<1>4. Inv => BridgeInv
  BY DEF Inv
<1> QED BY <1>1, <1>2, <1>3, <1>4, CommandsInvariance, PTL DEF Spec

\* When all the hub reported is handled, no entity of Home Assistant shows what was
\* once so: it shows what the hub says now, and all that feeds it says the same, whatever
\* overtook what, a discovery with its own copy of the attributes the reports of the hub
\* included.  Of the fans and blinds that two attributes feed it says nothing: they show
\* what was published last.  Where an attribute may turn into what the state mapper drops, an entity
\* stays at what it showed; Steady is that none may.
THEOREM AccurateCorrect == ASSUME NoneIsNoState, Steady PROVE Spec => []Accurate
<1>1. CommandsInit => ViewInv /\ LateSteady /\ PairInv
  BY ViewStarts, PairStarts
<1>2. Inv /\ Inv' /\ ViewInv /\ LateSteady /\ PairInv /\ [Next]_vars
        => ViewInv' /\ LateSteady' /\ PairInv'
  BY ViewStep, PairStep DEF Inv
<1>3. Inv /\ ViewInv /\ PairInv => Accurate
  BY QuietIsAccurate DEF Inv
<1> QED BY <1>1, <1>2, <1>3, CommandsInvariance, PTL DEF Spec

\* Home Assistant ends up showing what it asked for: the hub has what the command set,
\* all of it has been reported and published, and the state mapper undoes what the
\* command mapper did, for every payload of Vocabulary, of every unit whose entity is not
\* fed by a second attribute.
THEOREM EchoCorrect == ASSUME NoneIsNoState, Equipped, Steady, Commandable PROVE Spec => []Echo
<1>1. CommandsInit => RegisteredInv
  BY DEF CommandsInit, Init, RegisteredInv
<1>2. RegisteredInv /\ [Next]_vars => RegisteredInv'
  BY RegisteredStep
<1>3. Inv /\ RegisteredInv /\ Accurate /\ Fed => Echo
  BY EchoHolds DEF Inv
<1>4. Spec => []Accurate
  BY AccurateCorrect
<1>5. Spec => []Fed
  BY FedCorrect
<1> QED BY <1>1, <1>2, <1>3, <1>4, <1>5, CommandsInvariance, PTL DEF Spec
=============================================================================
