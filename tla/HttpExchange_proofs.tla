------------------------ MODULE HttpExchange_proofs ------------------------
(***************************************************************************)
(* Proofs about the exchange, for every list of locations, every request   *)
(* and reply, and every file system.                                       *)
(***************************************************************************)
EXTENDS HttpExchange, SequenceTheorems, FiniteSetTheorems, TLAPS

Kept(s, l) == add_location(s, l.type, l.location)

\* the fold that builds the lists of locations
Configuring == INSTANCE FoldLemmas WITH Op <- Kept, Base <- NewServer

---------------------------------------------------------------------------
(* Which location get_location finds.                                      *)

\* l stops the search of its list: it matches, or std::regex throws
Bad(type, l) == type = "REGEX_MATCH" /\ l.url \in BadPatterns

Stops(type, url, l) == Bad(type, l) \/ Matches(type, url, l)

\* i is the first place of the list that stops the search, 0 if none does
IsFirst(list, type, url, i) ==
    \/ i = 0 /\ \A k \in 1 .. Len(list) : ~Stops(type, url, list[k])
    \/ /\ i \in 1 .. Len(list)
       /\ Stops(type, url, list[i])
       /\ \A k \in 1 .. i - 1 : ~Stops(type, url, list[k])

LEMMA FirstIsFirst ==
    ASSUME NEW s, NEW type, NEW url, Len(s.locations[type]) \in Nat
    PROVE  IsFirst(s.locations[type], type, url, FirstOf(s, type, url))
<1> DEFINE list == s.locations[type]
           I == {i \in 1 .. Len(list) : Stops(type, url, list[i])}
<1>1. FirstOf(s, type, url) = IF I # {} THEN Min(I) ELSE 0
  BY DEF FirstOf, SelectInSeq, Stops, Bad
<1>2. I \in SUBSET Nat /\ I \subseteq 1 .. Len(list)
  OBVIOUS
<1>3. \A i \in 1 .. Len(list) : i \in I <=> Stops(type, url, list[i])
  OBVIOUS
<1> HIDE DEF I, list
<1>4. CASE I = {}
  BY <1>1, <1>3, <1>4 DEF IsFirst, list
<1>5. CASE I # {}
  <2> DEFINE m == Min(I)
  <2>1. m \in I /\ \A j \in I : m <= j
    BY <1>2, <1>5, Configuring!LeastOf DEF Min, Configuring!Min
  <2>2. FirstOf(s, type, url) = m
    BY <1>1, <1>5
  <2> HIDE DEF m
  <2>3. m \in 1 .. Len(list)
    BY <1>2, <2>1
  <2>4. \A k \in 1 .. m - 1 : ~Stops(type, url, list[k])
    BY <1>3, <2>1, <2>3, Len(list) \in Nat DEF list
  <2> QED
    BY <1>3, <2>1, <2>2, <2>3, <2>4 DEF IsFirst, list
<1> QED
  BY <1>4, <1>5

(* The number of the pass that looks at a list.                            *)
Pass == [EXACT_MATCH |-> 1, PREFERENTIAL_PREFIX |-> 2, REGEX_MATCH |-> 3, PREFIX_MATCH |-> 4]

LEMMA PassesInOrder ==
    /\ Len(Passes) = 4
    /\ \A p \in 1 .. 4 : Passes[p] \in location_type_t /\ Pass[Passes[p]] = p
    /\ \A t \in location_type_t : Pass[t] \in 1 .. 4 /\ Passes[Pass[t]] = t
<1>1. Len(Passes) = 4
  BY DEF Passes
<1>2. \A p \in 1 .. 4 : Passes[p] \in location_type_t /\ Pass[Passes[p]] = p
  <2>1. \A p \in 1 .. 4 : p = 1 \/ p = 2 \/ p = 3 \/ p = 4
    OBVIOUS
  <2> QED
    BY <2>1 DEF Passes, Pass, location_type_t
<1>3. \A t \in location_type_t : Pass[t] \in 1 .. 4 /\ Passes[Pass[t]] = t
  BY DEF Passes, Pass, location_type_t
<1> QED
  BY <1>1, <1>2, <1>3

(* get_location finds the first place that stops the search of the first   *)
(* list that has one, and nothing if the pattern there does not compile.   *)
LEMMA FoundLocation ==
    ASSUME NEW s, NEW url, \A t \in location_type_t : Len(s.locations[t]) \in Nat
    PROVE  LET first == [t \in location_type_t |-> FirstOf(s, t, url)]
           IN  \/ /\ get_location(s, url) = NoLocation
                  /\ \A t \in location_type_t : first[t] = 0
               \/ \E t \in location_type_t :
                    /\ first[t] # 0
                    /\ \A u \in location_type_t : Pass[u] < Pass[t] => first[u] = 0
                    /\ get_location(s, url) =
                         IF Bad(t, s.locations[t][first[t]]) THEN NoLocation
                         ELSE [type |-> t, place |-> first[t]]
<1> DEFINE first == [t \in location_type_t |-> FirstOf(s, t, url)]
           I == {p \in 1 .. Len(Passes) : FirstOf(s, Passes[p], url) # 0}
           pass == IF I # {} THEN Min(I) ELSE 0
<1>1. get_location(s, url) =
        LET type == Passes[pass]
            place == FirstOf(s, type, url)
        IN  IF \/ pass = 0
               \/ type = "REGEX_MATCH" /\ s.locations[type][place].url \in BadPatterns
              THEN NoLocation
              ELSE [type |-> type, place |-> place]
  BY DEF get_location, SelectInSeq
<1>2. I \in SUBSET Nat
  OBVIOUS
<1>3. \A p \in 1 .. 4 : p \in I <=> first[Passes[p]] # 0
  BY PassesInOrder
<1>4. I \subseteq 1 .. 4
  BY PassesInOrder
<1>5. \A t \in location_type_t : first[t] = FirstOf(s, t, url)
  OBVIOUS
<1> HIDE DEF I, first
<1>6. CASE I = {}
  <2>1. \A t \in location_type_t : first[t] = 0
    BY <1>3, <1>6, PassesInOrder
  <2>2. get_location(s, url) = NoLocation
    BY <1>1, <1>6
  <2> QED
    BY <2>1, <2>2 DEF first
<1>7. CASE I # {}
  <2>1. Min(I) \in I /\ \A j \in I : Min(I) <= j
    BY <1>2, <1>7, Configuring!LeastOf DEF Min, Configuring!Min
  <2> DEFINE m == Min(I)
             t == Passes[m]
  <2>2. pass = m /\ m \in 1 .. 4
    BY <1>4, <1>7, <2>1
  <2> HIDE DEF m, pass
  <2>3. t \in location_type_t /\ Pass[t] = m
    BY <2>2, PassesInOrder
  <2>4. first[t] # 0
    BY <1>3, <2>1, <2>2 DEF m
  <2>5. ASSUME NEW u \in location_type_t, Pass[u] < Pass[t]
        PROVE  first[u] = 0
    <3>1. Pass[u] \in 1 .. 4 /\ Passes[Pass[u]] = u
      BY PassesInOrder
    <3>2. Pass[u] \notin I
      BY <2>1, <2>2, <2>3, <2>5, <3>1 DEF m
    <3> QED
      BY <1>3, <3>1, <3>2
  <2>6. get_location(s, url) =
          IF Bad(t, s.locations[t][first[t]]) THEN NoLocation
          ELSE [type |-> t, place |-> first[t]]
    <3>1. pass # 0 /\ Passes[pass] = t
      BY <2>2
    <3>2. first[t] = FirstOf(s, t, url)
      BY <1>5, <2>3
    <3> HIDE DEF t
    <3> QED
      BY <1>1, <3>1, <3>2 DEF Bad
  <2> HIDE DEF t
  <2> QED
    BY <2>3, <2>4, <2>5, <2>6 DEF first
<1> QED
  BY <1>6, <1>7

---------------------------------------------------------------------------
(* How the lists of locations come from the file: the place of a location  *)
(* is the number of those of its type up to it.                            *)

OfType(config, t, k) == {i \in 1 .. k : config[i].type = t}

NumberOf(config, t, k) == Cardinality(OfType(config, t, k))

LEMMA NumbersCount ==
    ASSUME NEW config, NEW t, NEW k \in Nat
    PROVE  /\ NumberOf(config, t, k) \in Nat
           /\ NumberOf(config, t, 0) = 0
           /\ NumberOf(config, t, k + 1) =
                IF config[k + 1].type = t THEN NumberOf(config, t, k) + 1
                ELSE NumberOf(config, t, k)
<1>1. IsFiniteSet(OfType(config, t, k))
  <2>1. IsFiniteSet(1 .. k)
    BY FS_Interval
  <2>2. OfType(config, t, k) \in SUBSET (1 .. k)
    BY DEF OfType
  <2> QED
    BY <2>1, <2>2, FS_Subset
<1>2. OfType(config, t, 0) = {}
  BY DEF OfType
<1>3. OfType(config, t, k + 1) =
        IF config[k + 1].type = t THEN OfType(config, t, k) \cup {k + 1}
        ELSE OfType(config, t, k)
  BY DEF OfType
<1>4. k + 1 \notin OfType(config, t, k)
  BY DEF OfType
<1>5. NumberOf(config, t, k) \in Nat
  BY <1>1, FS_CardinalityType DEF NumberOf
<1>6. NumberOf(config, t, 0) = 0
  BY <1>2, FS_EmptySet DEF NumberOf
<1>7. Cardinality(OfType(config, t, k) \cup {k + 1}) = NumberOf(config, t, k) + 1
  BY <1>1, <1>4, FS_AddElement DEF NumberOf
<1> QED
  BY <1>3, <1>5, <1>6, <1>7 DEF NumberOf

(* The lists after the first k locations of the file.                      *)
ListsOf(lists, config, k) ==
    \A t \in location_type_t :
      /\ lists[t] \in Seq({config[i].location : i \in OfType(config, t, k)})
      /\ Len(lists[t]) = NumberOf(config, t, k)
      /\ \A i \in OfType(config, t, k) :
           /\ NumberOf(config, t, i) \in 1 .. Len(lists[t])
           /\ lists[t][NumberOf(config, t, i)] = config[i].location
      /\ \A n \in 1 .. Len(lists[t]) :
           \E i \in OfType(config, t, k) : NumberOf(config, t, i) = n

LEMMA ListsGrow ==
    ASSUME NEW config, NEW k \in Nat, NEW s, ListsOf(s.locations, config, k),
           "locations" \in DOMAIN s, DOMAIN s.locations = location_type_t,
           config[k + 1].type \in location_type_t
    PROVE  ListsOf(Kept(s, config[k + 1]).locations, config, k + 1)
<1> DEFINE u == config[k + 1].type
           l == config[k + 1].location
           after == Kept(s, config[k + 1]).locations
<1>1. after = [s.locations EXCEPT ![u] = Append(@, l)]
  BY DEF Kept, add_location
<1>2. \A t \in location_type_t \ {u} : after[t] = s.locations[t]
  BY <1>1
<1>3. after[u] = Append(s.locations[u], l)
  BY <1>1
<1> HIDE DEF after
<1> SUFFICES ASSUME NEW t \in location_type_t
             PROVE  /\ after[t] \in Seq({config[i].location : i \in OfType(config, t, k + 1)})
                    /\ Len(after[t]) = NumberOf(config, t, k + 1)
                    /\ \A i \in OfType(config, t, k + 1) :
                         /\ NumberOf(config, t, i) \in 1 .. Len(after[t])
                         /\ after[t][NumberOf(config, t, i)] = config[i].location
                    /\ \A n \in 1 .. Len(after[t]) :
                         \E i \in OfType(config, t, k + 1) : NumberOf(config, t, i) = n
  BY DEF ListsOf, after
<1>4. /\ s.locations[t] \in Seq({config[i].location : i \in OfType(config, t, k)})
      /\ Len(s.locations[t]) = NumberOf(config, t, k)
      /\ \A i \in OfType(config, t, k) :
           /\ NumberOf(config, t, i) \in 1 .. Len(s.locations[t])
           /\ s.locations[t][NumberOf(config, t, i)] = config[i].location
      /\ \A n \in 1 .. Len(s.locations[t]) :
           \E i \in OfType(config, t, k) : NumberOf(config, t, i) = n
  BY DEF ListsOf
<1>5. CASE t # u
  <2>1. OfType(config, t, k + 1) = OfType(config, t, k)
    BY <1>5 DEF OfType
  <2>2. NumberOf(config, t, k + 1) = NumberOf(config, t, k)
    BY <2>1 DEF NumberOf
  <2> QED
    BY <1>2, <1>4, <1>5, <2>1, <2>2
<1>6. CASE t = u
  <2> DEFINE L == {config[i].location : i \in OfType(config, t, k)}
             M == {config[i].location : i \in OfType(config, t, k + 1)}
             list == s.locations[t]
  <2>1. OfType(config, t, k + 1) = OfType(config, t, k) \cup {k + 1}
    BY <1>6 DEF OfType
  <2>2. NumberOf(config, t, k + 1) = NumberOf(config, t, k) + 1
    BY <1>6, NumbersCount
  <2>3. L \subseteq M /\ l \in M
    BY <2>1
  <2>4. list \in Seq(L) /\ Len(list) = NumberOf(config, t, k) /\ after[t] = Append(list, l)
    BY <1>3, <1>4, <1>6
  <2>5. list \in Seq(M)
    <3> HIDE DEF L, M, list
    <3> QED
      BY <2>3, <2>4
  <2> HIDE DEF M, L
  <2>6. after[t] \in Seq(M)
    BY <2>3, <2>4, <2>5
  <2>7. /\ Len(after[t]) = Len(list) + 1
        /\ \A n \in 1 .. Len(list) : after[t][n] = list[n]
        /\ after[t][Len(list) + 1] = l
    BY <2>4, <2>5, <2>3
  <2>8. Len(list) \in Nat
    BY <2>5
  <2>9. /\ \A i \in OfType(config, t, k) :
             NumberOf(config, t, i) \in 1 .. Len(list) /\ list[NumberOf(config, t, i)] = config[i].location
        /\ \A n \in 1 .. Len(list) :
             \E i \in OfType(config, t, k) : NumberOf(config, t, i) = n
    BY <1>4
  <2> HIDE DEF list, l
  <2>10. ASSUME NEW i \in OfType(config, t, k + 1)
         PROVE  /\ NumberOf(config, t, i) \in 1 .. Len(after[t])
                /\ after[t][NumberOf(config, t, i)] = config[i].location
    <3>1. CASE i \in OfType(config, t, k)
      BY <2>7, <2>8, <2>9, <3>1
    <3>2. CASE i = k + 1
      BY <2>2, <2>4, <2>7, <2>8, <3>2 DEF l
    <3> QED
      BY <2>1, <3>1, <3>2
  <2>11. ASSUME NEW n \in 1 .. Len(after[t])
         PROVE  \E i \in OfType(config, t, k + 1) : NumberOf(config, t, i) = n
    <3>1. n \in 1 .. Len(list) \/ n = Len(list) + 1
      BY <2>7, <2>8
    <3> QED
      BY <2>1, <2>2, <2>4, <2>9, <3>1
  <2> QED
    BY <2>2, <2>4, <2>6, <2>7, <2>10, <2>11 DEF M
<1> QED
  BY <1>5, <1>6
(* The lists of a whole file.                                              *)
LEMMA ListsOfConfig ==
    ASSUME NEW E, \A l \in E : l.type \in location_type_t, NEW config \in Seq(E)
    PROVE  LET lists == Configured(config).locations
           IN  DOMAIN lists = location_type_t /\ ListsOf(lists, config, Len(config))
<1> DEFINE Upto(k) == Configuring!Folded(SubSeq(config, 1, k))
           Grown(k) == /\ "locations" \in DOMAIN Upto(k)
                       /\ DOMAIN Upto(k).locations = location_type_t
                       /\ ListsOf(Upto(k).locations, config, k)
           T == {k \in Nat : k =< Len(config) => Grown(k)}
<1>1. 0 \in T
  <2>1. SubSeq(config, 1, 0) = <<>>
    OBVIOUS
  <2>2. Upto(0) = NewServer
    BY <2>1, Configuring!FoldedEmpty
  <2> DEFINE lists == [t \in location_type_t |-> <<>>]
  <2>3. "locations" \in DOMAIN NewServer /\ NewServer.locations = lists
    BY DEF NewServer
  <2>4. \A t \in location_type_t : /\ OfType(config, t, 0) = {}
                                   /\ NumberOf(config, t, 0) = 0
    BY NumbersCount DEF OfType
  <2>5. ListsOf(lists, config, 0)
    BY <2>4 DEF ListsOf
  <2> HIDE DEF lists
  <2>6. DOMAIN lists = location_type_t
    BY DEF lists
  <2> QED
    BY <2>2, <2>3, <2>5, <2>6
<1>2. ASSUME NEW k \in Nat, k \in T
      PROVE  k + 1 \in T
  <2> SUFFICES ASSUME k + 1 =< Len(config)
               PROVE  Grown(k + 1)
    OBVIOUS
  <2>1. Grown(k)
    BY <1>2
  <2>2. config[k + 1] \in E /\ config[k + 1].type \in location_type_t
    OBVIOUS
  <2>3. /\ SubSeq(config, 1, k) \in Seq(E)
        /\ SubSeq(config, 1, k + 1) = Append(SubSeq(config, 1, k), config[k + 1])
    OBVIOUS
  <2>4. Upto(k + 1) = Kept(Upto(k), config[k + 1])
    BY <2>2, <2>3, Configuring!FoldedAppend
  <2> DEFINE s == Upto(k)
  <2> HIDE DEF Upto, s
  <2>5. ListsOf(Kept(s, config[k + 1]).locations, config, k + 1)
    BY <2>1, <2>2, ListsGrow DEF s
  <2>6. /\ "locations" \in DOMAIN Kept(s, config[k + 1])
        /\ DOMAIN Kept(s, config[k + 1]).locations = location_type_t
    BY <2>1 DEF s, Kept, add_location
  <2> QED
    BY <2>4, <2>5, <2>6 DEF s
<1>3. Grown(Len(config))
  <2>1. \A k \in Nat : k \in T
    <3> HIDE DEF T
    <3> QED
      BY <1>1, <1>2, Configuring!AllNumbers
  <2>2. Len(config) \in Nat /\ Len(config) =< Len(config)
    OBVIOUS
  <2> QED
    BY <2>1, <2>2
<1>4. SubSeq(config, 1, Len(config)) = config
  OBVIOUS
<1>5. Configured(config) = Configuring!Folded(config)
  BY DEF Configured, Configuring!Folded, FoldLeft, Configuring!FoldLeft, MapThenFoldSet,
         Configuring!MapThenFoldSet, Kept, Max, Configuring!Max
<1> QED
  BY <1>3, <1>4, <1>5
(* The numbers of the locations of a type grow with their places.          *)
LEMMA NumbersGrow ==
    ASSUME NEW config, NEW t, NEW j \in Nat, config[j].type = t, NEW i \in 1 .. j - 1
    PROVE  NumberOf(config, t, i) < NumberOf(config, t, j)
<1>1. j - 1 \in Nat /\ (j - 1) + 1 = j /\ i \in Nat
  OBVIOUS
<1>2. NumberOf(config, t, j) = NumberOf(config, t, j - 1) + 1
  BY <1>1, NumbersCount
<1>3. NumberOf(config, t, i) =< NumberOf(config, t, j - 1)
  <2>1. OfType(config, t, i) \in SUBSET OfType(config, t, j - 1)
    BY <1>1 DEF OfType
  <2>2. IsFiniteSet(OfType(config, t, j - 1))
    <3>1. IsFiniteSet(1 .. j - 1)
      BY <1>1, FS_Interval
    <3>2. OfType(config, t, j - 1) \in SUBSET (1 .. j - 1)
      BY DEF OfType
    <3> QED
      BY <3>1, <3>2, FS_Subset
  <2> QED
    BY <2>1, <2>2, FS_Subset DEF NumberOf
<1>4. NumberOf(config, t, i) \in Nat /\ NumberOf(config, t, j - 1) \in Nat
  BY <1>1, NumbersCount
<1> QED
  BY <1>2, <1>3, <1>4

IsFirstFit(config, url) ==
  LET Rank(i) == CASE config[i].type = "EXACT_MATCH" -> 1
                   [] config[i].type = "PREFERENTIAL_PREFIX" -> 2
                   [] config[i].type = "REGEX_MATCH" -> 3
                   [] config[i].type = "PREFIX_MATCH" -> 4
      IsBad(i) == Rank(i) = 3 /\ config[i].location.url \in BadPatterns
      fitting == {i \in DOMAIN config :
                    IsBad(i) \/ Matches(config[i].type, url, config[i].location)}
      first == CHOOSE i \in fitting :
                 \A j \in fitting \ {i} :
                   Rank(i) < Rank(j) \/ (Rank(i) = Rank(j) /\ i < j)
  IN  get_location(Configured(config), url) =
        IF fitting = {} \/ IsBad(first) THEN NoLocation
        ELSE [type |-> config[first].type,
              place |-> Cardinality({i \in 1 .. first :
                                       config[i].type = config[first].type})]

LEMMA FirstFit ==
    ASSUME NEW E, \A l \in E : l.type \in location_type_t, NEW config \in Seq(E), NEW url
    PROVE  IsFirstFit(config, url)
<1> DEFINE Rank(i) == CASE config[i].type = "EXACT_MATCH" -> 1
                        [] config[i].type = "PREFERENTIAL_PREFIX" -> 2
                        [] config[i].type = "REGEX_MATCH" -> 3
                        [] config[i].type = "PREFIX_MATCH" -> 4
           IsBad(i) == Rank(i) = 3 /\ config[i].location.url \in BadPatterns
           fitting == {i \in DOMAIN config :
                         IsBad(i) \/ Matches(config[i].type, url, config[i].location)}
           Earliest(i) == \A j \in fitting \ {i} :
                            Rank(i) < Rank(j) \/ (Rank(i) = Rank(j) /\ i < j)
           first == CHOOSE i \in fitting : Earliest(i)
           s == Configured(config)
           n == Len(config)
           at == [t \in location_type_t |-> FirstOf(s, t, url)]
<1>1. /\ DOMAIN config = 1 .. n /\ n \in Nat
      /\ \A i \in 1 .. n : config[i].type \in location_type_t
  OBVIOUS
<1>2. ASSUME NEW i \in 1 .. n
      PROVE  /\ Rank(i) = Pass[config[i].type] /\ Rank(i) \in 1 .. 4
             /\ Rank(i) = 3 <=> config[i].type = "REGEX_MATCH"
  <2> DEFINE t == config[i].type
  <2>1. t \in location_type_t
    BY <1>1
  <2>2. /\ t = "EXACT_MATCH" => Rank(i) = 1
        /\ t = "PREFERENTIAL_PREFIX" => Rank(i) = 2
        /\ t = "REGEX_MATCH" => Rank(i) = 3
        /\ t = "PREFIX_MATCH" => Rank(i) = 4
    OBVIOUS
  <2> HIDE DEF Rank, t
  <2>3. Rank(i) = Pass[t] /\ Rank(i) \in 1 .. 4 /\ (Rank(i) = 3 <=> t = "REGEX_MATCH")
    BY <2>1, <2>2 DEF location_type_t, Pass
  <2> QED
    BY <2>3 DEF t
<1> HIDE DEF Rank
<1>3. ASSUME NEW i \in 1 .. n
       PROVE  /\ IsBad(i) <=> Bad(config[i].type, config[i].location)
              /\ i \in fitting <=> Stops(config[i].type, url, config[i].location)
  <2>1. IsBad(i) <=> Bad(config[i].type, config[i].location)
    BY <1>2 DEF Bad
  <2>2. i \in fitting <=>
          IsBad(i) \/ Matches(config[i].type, url, config[i].location)
    BY <1>1
  <2> HIDE DEF IsBad, fitting
  <2> QED
    BY <2>1, <2>2, Zenon DEF Stops
<1>4. fitting \subseteq 1 .. n
  BY <1>1
<1>5. \A t \in location_type_t : at[t] = FirstOf(s, t, url)
  OBVIOUS
<1>6. ListsOf(s.locations, config, n)
  BY ListsOfConfig
<1> HIDE DEF IsBad, fitting, s, n, at
<1>7. \A t \in location_type_t : Len(s.locations[t]) \in Nat
  BY <1>1, <1>6, NumbersCount DEF ListsOf
<1>8. \A t \in location_type_t : IsFirst(s.locations[t], t, url, at[t])
  BY <1>5, <1>7, FirstIsFirst
<1>9. ASSUME NEW i \in 1 .. n
      PROVE  LET t == config[i].type IN
             /\ i \in OfType(config, t, n)
             /\ NumberOf(config, t, i) \in 1 .. Len(s.locations[t])
             /\ s.locations[t][NumberOf(config, t, i)] = config[i].location
  BY <1>1, <1>6 DEF ListsOf, OfType
<1>10. ASSUME NEW i \in fitting
       PROVE  LET t == config[i].type IN
              at[t] \in 1 .. Len(s.locations[t]) /\ at[t] =< NumberOf(config, t, i)
  <2> DEFINE t == config[i].type
             place == NumberOf(config, t, i)
  <2>1. i \in 1 .. n /\ t \in location_type_t
    BY <1>1, <1>4
  <2>2. place \in 1 .. Len(s.locations[t]) /\ Stops(t, url, s.locations[t][place])
    BY <1>3, <1>9, <2>1
  <2>3. IsFirst(s.locations[t], t, url, at[t]) /\ Len(s.locations[t]) \in Nat
    BY <1>7, <1>8, <2>1
  <2> HIDE DEF t, place
  <2>4. at[t] \in 1 .. Len(s.locations[t]) /\ at[t] =< place
    BY <2>2, <2>3 DEF IsFirst
  <2> QED
    BY <2>4 DEF t, place
<1>11. CASE fitting = {}
  <2>1. ASSUME NEW t \in location_type_t PROVE at[t] = 0
    <3>1. CASE at[t] # 0
      <4>1. at[t] \in 1 .. Len(s.locations[t]) /\ Stops(t, url, s.locations[t][at[t]])
        BY <1>8, <3>1 DEF IsFirst
      <4>2. PICK i \in OfType(config, t, n) : NumberOf(config, t, i) = at[t]
        BY <1>6, <4>1 DEF ListsOf
      <4>3. i \in 1 .. n /\ config[i].type = t
        BY DEF OfType
      <4>4. i \in fitting
        BY <1>3, <1>9, <4>1, <4>2, <4>3
      <4> QED
        BY <1>11, <4>4
    <3> QED
      BY <3>1
  <2>2. get_location(s, url) = NoLocation
    BY <1>7, <2>1, FoundLocation DEF at
  <2> QED
    BY <1>11, <2>2 DEF IsFirstFit, s, Rank, IsBad, fitting
<1>12. CASE fitting # {}
  <2>1. PICK t \in location_type_t :
          /\ at[t] # 0
          /\ \A u \in location_type_t : Pass[u] < Pass[t] => at[u] = 0
          /\ get_location(s, url) = IF Bad(t, s.locations[t][at[t]]) THEN NoLocation
                                    ELSE [type |-> t, place |-> at[t]]
    <3>1. ~ \A u \in location_type_t : at[u] = 0
      <4>1. PICK j \in fitting : TRUE
        BY <1>12
      <4>2. config[j].type \in location_type_t /\ at[config[j].type] # 0
        BY <1>1, <1>4, <1>7, <1>10, <4>1
      <4> QED
        BY <4>2
    <3> QED
      BY <1>7, <3>1, FoundLocation DEF at
  <2>2. at[t] \in 1 .. Len(s.locations[t]) /\ Stops(t, url, s.locations[t][at[t]])
    BY <1>8, <2>1 DEF IsFirst
  <2>3. PICK i \in OfType(config, t, n) : NumberOf(config, t, i) = at[t]
    BY <1>6, <2>2 DEF ListsOf
  <2>4. i \in 1 .. n /\ config[i].type = t
    BY DEF OfType
  <2>5. i \in fitting /\ config[i].location = s.locations[t][at[t]]
    BY <1>3, <1>9, <2>2, <2>3, <2>4
  <2>6. ASSUME NEW j \in fitting \ {i}
        PROVE  Rank(i) < Rank(j) \/ (Rank(i) = Rank(j) /\ i < j)
    <3>1. j \in 1 .. n /\ j # i /\ config[j].type \in location_type_t
      BY <1>1, <1>4
    <3>2. /\ Rank(j) = Pass[config[j].type] /\ Rank(i) = Pass[t]
          /\ Rank(i) \in 1 .. 4 /\ Rank(j) \in 1 .. 4
      BY <1>2, <2>4, <3>1
    <3>3. ~(Rank(j) < Rank(i))
      BY <1>10, <2>1, <3>1, <3>2
    <3>4. CASE Rank(j) = Rank(i)
      <4>1. config[j].type = t
        BY <3>1, <3>2, <3>4, PassesInOrder
      <4>2. at[t] =< NumberOf(config, t, j)
        BY <1>10, <4>1
      <4>3. ASSUME j < i PROVE FALSE
        <5>1. i \in Nat /\ j \in 1 .. i - 1
          BY <1>1, <2>4, <3>1, <4>3
        <5>2. NumberOf(config, t, j) < NumberOf(config, t, i)
          BY <2>4, <5>1, NumbersGrow
        <5>3. j \in Nat /\ NumberOf(config, t, j) \in Nat /\ NumberOf(config, t, i) \in Nat
          BY <5>1, NumbersCount
        <5> QED
          BY <2>3, <4>2, <5>2, <5>3
      <4> QED
        BY <1>1, <2>4, <3>1, <3>4, <4>3
    <3> QED
      BY <3>2, <3>3, <3>4
  <2>7. first = i
    <3>1. Earliest(i)
      BY <2>6
    <3>2. ASSUME NEW j \in fitting, Earliest(j) PROVE j = i
      <4>1. i \in 1 .. n /\ j \in 1 .. n /\ Rank(i) \in 1 .. 4 /\ Rank(j) \in 1 .. 4
        BY <1>2, <1>4, <2>4
      <4>2. CASE j # i
        <5>1. Rank(i) < Rank(j) \/ (Rank(i) = Rank(j) /\ i < j)
          BY <3>1, <4>2
        <5>2. Rank(j) < Rank(i) \/ (Rank(j) = Rank(i) /\ j < i)
          BY <2>5, <3>2, <4>2
        <5> QED
          BY <1>1, <4>1, <5>1, <5>2
      <4> QED
        BY <4>2
    <3> HIDE DEF Earliest
    <3>3. first \in fitting /\ Earliest(first)
      BY <2>5, <3>1
    <3> QED
      BY <3>2, <3>3
  <2> HIDE DEF first
  <2>8. IsBad(first) <=> Bad(t, s.locations[t][at[t]])
    <3>1. IsBad(i) <=> Bad(config[i].type, config[i].location)
      BY <1>3, <2>4, Zenon
    <3> QED
      BY <2>4, <2>5, <2>7, <3>1
  <2>9. Cardinality({k \in 1 .. first : config[k].type = config[first].type}) = at[t]
    BY <2>3, <2>4, <2>7 DEF NumberOf, OfType
  <2>10. get_location(s, url) =
           IF fitting = {} \/ IsBad(first) THEN NoLocation
           ELSE [type |-> config[first].type,
                 place |-> Cardinality({k \in 1 .. first :
                                          config[k].type = config[first].type})]
    BY <1>12, <2>1, <2>4, <2>7, <2>8, <2>9
  <2> QED
    BY <2>10 DEF IsFirstFit, s, Rank, IsBad, fitting, first
<1> QED
  BY <1>11, <1>12

(* An exact match comes before a preferential prefix, that before a        *)
(* pattern, that before a prefix, and among those of a kind the one listed *)
(* first: for every list of locations a file may have, of any length.      *)
THEOREM FirstFitIsFound == Spec => []LocationIsTheFirstFit
<1>1. ASSUME NEW config \in SeqOf(Listed, MaxListed) PROVE config \in Seq(Listed)
  BY DEF SeqOf
<1>2. \A l \in Listed : l.type \in location_type_t
  BY ListedAssumption
<1>3. \A config \in SeqOf(Listed, MaxListed), url \in Urls : IsFirstFit(config, url)
  BY <1>1, <1>2, FirstFit
<1>4. LocationIsTheFirstFit
  BY <1>3, Zenon DEF LocationIsTheFirstFit, IsFirstFit
<1> QED
  BY <1>4, PTL
---------------------------------------------------------------------------
(* The inductive invariant.                                                *)

RequestFields ==
    {"method", "url", "version", "headers", "first_line_added", "headers_read", "ended"}

ResponseFields ==
    {"status", "message", "headers", "content_length", "first_line_added", "headers_read",
     "ended"}

Statuses == {0, 200, 404, 415} \cup {l.status : l \in {r \in Replies : r.t = "status"}}

LowerKeys(headers) == DOMAIN headers \cap DOMAIN LowerCase = {}

IsRequest(r) ==
    /\ DOMAIN r = RequestFields
    /\ r.url \in Seq(STRING) /\ r.version \in AnyVersion /\ LowerKeys(r.headers)
    /\ r.first_line_added \in BOOLEAN /\ r.headers_read \in BOOLEAN /\ r.ended \in BOOLEAN

IsResponse(r) ==
    /\ DOMAIN r = ResponseFields
    /\ r.status \in Statuses /\ LowerKeys(r.headers)
    /\ r.first_line_added \in BOOLEAN /\ r.headers_read \in BOOLEAN /\ r.ended \in BOOLEAN

Typed ==
    /\ \E config \in Configs : server = Configured(config)
    /\ files \in FileSystems /\ changes \in Nat
    /\ stage \in Stages /\ line_ \in BOOLEAN /\ upstream_buffer \in BOOLEAN
    /\ pc \in {"get_request", "header", "open", "page", "connect_to_upstream",
               "get_proxy_header", "done"}
    /\ IsRequest(request_) /\ IsResponse(response_)
    /\ location_.type \in location_type_t \cup {"none"}

(* What the lines of the client have made of the request.                  *)
RequestBegun == Len(sent) > 0 /\ sent[1].t = "request"

HeadersOnly(lines) == \A i \in 2 .. Len(lines) : lines[i].t = "header"

SentInv ==
    /\ sent \in Seq(Lines)
    /\ Len(sent) = 0 => /\ ~request_.first_line_added /\ ~request_.headers_read
                        /\ ~request_.ended /\ request_.headers = <<>>
                        /\ pc = "get_request" => ~line_
    /\ RequestBegun => /\ request_.first_line_added
                       /\ request_.method = <<sent[1].method>>
                       /\ request_.url = sent[1].url /\ request_.version = sent[1].version
    /\ RequestBegun /\ HeadersOnly(sent) /\ pc = "get_request" =>
         /\ ~line_ /\ ~request_.headers_read /\ ~request_.ended
         /\ request_.headers = HeadersSent(SubSeq(sent, 2, Len(sent)), string_to_lower)
    /\ \A k \in DOMAIN sent : OrderlyHead(k) =>
         request_.ended /\ HeadersPassed(k)

(* Where the connection is, by the request and its location.               *)
Found == get_location(server, request_.url)

IsProxied == server.locations[Found.type][Found.place].is_proxy

IsFile == ~WrongVersion /\ request_.method \in {<<"GET">>, <<"HEAD">>}

HeaderMade ==
    \/ /\ response_.status = 404 /\ response_.content_length = NoSize
       /\ changes = 0 => Size(Path) = NoSize
    \/ /\ response_.status = 415 /\ response_.content_length = NoSize
       /\ get_content_type_throws(request_.url)
       /\ changes = 0 => Size(Path) # NoSize
    \/ /\ response_.status = 200
       /\ ~get_content_type_throws(request_.url)
       /\ changes = 0 => Size(Path) # NoSize /\ response_.content_length = Size(Path)

FileLocation == Found # NoLocation /\ ~IsProxied /\ location_ = Found

(* What the upstream may do to the stage.                                  *)
ProxyOutcome ==
    \/ stage = "FAILED_TO_CONNECT"
    \/ request_.method = <<"GET">> /\ stage \in {"GET_RESPONSE_FROM_PROXY", "ERROR_STAGE"}
    \/ stage = "uncaught" /\ (request_.method = <<"GET">> => replied # <<>>)

Outcome ==
    \/ stage = "BAD_REQUEST" /\ \A k \in DOMAIN sent : OrderlyHead(k) => k < Len(sent)
    \/ stage \in {"ERROR_STAGE", "GET_REQUEST"} /\ ~request_.ended
    \/ Found = NoLocation /\ WrongVersion /\ stage = "uncaught"
    \/ Found = NoLocation /\ ~WrongVersion /\ Answered(404, NoSize, PAGE_404)
    \/ Found # NoLocation /\ IsProxied /\ ProxyOutcome
    \/ FileLocation /\ ~IsFile /\ stage = "uncaught"
    \/ FileLocation /\ IsFile /\ Answered(404, NoSize, PAGE_404)
       /\ (changes = 0 => Size(Path) = NoSize)
    \/ FileLocation /\ IsFile /\ HeaderMade /\ Size(Path) # NoSize
       /\ stage = "SEND_HTTP_HEADER_RESPONSE" /\ file_fd = Path

PhaseInv ==
    /\ pc # "done" => stage # "SEND_HTTP_HEADER_RESPONSE"
    /\ pc = "header" => FileLocation
    /\ pc = "open" => FileLocation /\ IsFile /\ HeaderMade
    /\ pc = "page" => \/ Found = NoLocation
                      \/ FileLocation /\ IsFile /\ (changes = 0 => Size(Path) = NoSize)
    /\ pc \in {"connect_to_upstream", "get_proxy_header"} => Found # NoLocation /\ IsProxied
    /\ pc = "get_proxy_header" =>
         request_.method = <<"GET">> /\ stage = "GET_RESPONSE_FROM_PROXY"
    /\ pc = "done" => Outcome

(* What the lines of the upstream have made of the response.               *)
ReplyBegun == Len(replied) > 0 /\ replied[1].t = "status"

OrderlyReply ==
    /\ Len(replied) > 1 /\ replied[1].t = "status" /\ replied[Len(replied)].t = "blank"
    /\ \A i \in 2 .. Len(replied) - 1 : replied[i].t = "header"

ReplyInv ==
    /\ replied \in Seq(Replies)
    /\ pc \in {"get_request", "connect_to_upstream"} =>
         replied = <<>> /\ response_ = NewResponse /\ ~upstream_buffer
    /\ pc \in {"header", "open", "page"} => replied = <<>>
    /\ pc = "get_proxy_header" /\ Len(replied) = 0 =>
         response_ = NewResponse /\ ~upstream_buffer
    /\ pc = "get_proxy_header" /\ ReplyBegun =>
         response_.first_line_added /\ response_.status = replied[1].status
    /\ pc = "get_proxy_header" /\ ReplyBegun /\ HeadersOnly(replied) =>
         /\ ~upstream_buffer /\ ~response_.headers_read /\ ~response_.ended
         /\ response_.headers = HeadersSent(SubSeq(replied, 2, Len(replied)), AsItIs)
    /\ OrderlyReply =>
         /\ response_.ended /\ response_.status = replied[1].status
         /\ response_.headers = HeadersSent(SubSeq(replied, 2, Len(replied) - 1), AsItIs)

ExchangeInv == Typed /\ SentInv /\ PhaseInv /\ ReplyInv

---------------------------------------------------------------------------
(* Adding a line.                                                          *)

LEMMA PutIs ==
    ASSUME NEW table, NEW key, NEW value
    PROVE  /\ DOMAIN Put(table, key, value) = {key} \cup DOMAIN table
           /\ LowerKeys(table) /\ key \notin DOMAIN LowerCase => LowerKeys(Put(table, key, value))
BY DEF Put, LowerKeys

LEMMA LowerIsLower ==
    ASSUME NEW name
    PROVE  string_to_lower(name) \notin DOMAIN LowerCase
BY LinesAssumption DEF string_to_lower

FirstLineMakes(r, line, lf, a) ==
    /\ IsRequest(a.message) /\ a.throws \in BOOLEAN
    /\ a.message.headers = r.headers /\ a.message.headers_read = r.headers_read
    /\ a.message.ended = r.ended
    /\ line.t = "request" /\ ~lf =>
         /\ ~a.throws /\ a.message.first_line_added
         /\ a.message.method = <<line.method>> /\ a.message.url = line.url
         /\ a.message.version = line.version

LEMMA FirstLineIs ==
    ASSUME NEW r, IsRequest(r), NEW line \in Lines, NEW lf \in BOOLEAN
    PROVE  FirstLineMakes(r, line, lf, request_add_first_line(r, line, lf))
<1> DEFINE word == IF line.t = "header" THEN line.name ELSE line.method
           method == IF lf THEN <<"\n", word>> ELSE <<word>>
           whole == [r EXCEPT !.method = method, !.url = line.url, !.version = line.version,
                              !.first_line_added = TRUE]
           half == [r EXCEPT !.method = method, !.url = line.url]
           start == [r EXCEPT !.method = method]
           a == request_add_first_line(r, line, lf)
<1>1. /\ line.t = "request" => line.version \in AnyVersion
      /\ line.t \in {"request", "unversioned"} => line.url \in Seq(STRING)
  BY LinesAssumption
<1>2. ~lf => method = <<line.method>> \/ line.t = "header"
  OBVIOUS
<1>3. \/ line.t = "request" /\ a = [message |-> whole, throws |-> FALSE]
      \/ line.t = "unversioned" /\ a = [message |-> half, throws |-> TRUE]
      \/ line.t # "request" /\ a = [message |-> start, throws |-> TRUE]
      \/ line.t # "request" /\ a = [message |-> r, throws |-> TRUE]
  <2> HIDE DEF method
  <2>1. CASE line.t = "request"
    BY <2>1 DEF request_add_first_line, Added, method
  <2>2. CASE line.t = "unversioned"
    BY <2>2 DEF request_add_first_line, Thrown, method
  <2>3. CASE line.t \in {"one_space", "header"}
    BY <2>3 DEF request_add_first_line, Thrown, method
  <2>4. CASE line.t \notin {"request", "unversioned", "one_space", "header"}
    BY <2>4 DEF request_add_first_line, Thrown
  <2> QED
    BY <2>1, <2>2, <2>3, <2>4
<1>4. DOMAIN r = RequestFields
  BY DEF IsRequest
<1> HIDE DEF method, a
<1>5. line.t = "request" =>
        /\ IsRequest(whole) /\ whole.headers = r.headers /\ whole.headers_read = r.headers_read
        /\ whole.ended = r.ended /\ whole.first_line_added = TRUE /\ whole.method = method
        /\ whole.url = line.url /\ whole.version = line.version
  BY <1>1, <1>4 DEF IsRequest, RequestFields
<1>6. line.t = "unversioned" =>
        /\ IsRequest(half) /\ half.headers = r.headers /\ half.headers_read = r.headers_read
        /\ half.ended = r.ended
  BY <1>1, <1>4 DEF IsRequest, RequestFields
<1>7. /\ IsRequest(start) /\ start.headers = r.headers /\ start.headers_read = r.headers_read
      /\ start.ended = r.ended
  BY <1>4 DEF IsRequest, RequestFields
<1> HIDE DEF whole, half, start
<1>8. /\ IsRequest(a.message) /\ a.throws \in BOOLEAN
      /\ a.message.headers = r.headers /\ a.message.headers_read = r.headers_read
      /\ a.message.ended = r.ended
  <2>1. CASE line.t = "request" /\ a = [message |-> whole, throws |-> FALSE]
    <3>1. a.message = whole /\ a.throws = FALSE
      BY <2>1
    <3> QED
      BY <1>5, <2>1, <3>1
  <2>2. CASE line.t = "unversioned" /\ a = [message |-> half, throws |-> TRUE]
    <3>1. a.message = half /\ a.throws = TRUE
      BY <2>2
    <3> QED
      BY <1>6, <2>2, <3>1
  <2>3. CASE a = [message |-> start, throws |-> TRUE]
    <3>1. a.message = start /\ a.throws = TRUE
      BY <2>3
    <3> QED
      BY <1>7, <3>1
  <2>4. CASE a = [message |-> r, throws |-> TRUE]
    <3>1. a.message = r /\ a.throws = TRUE
      BY <2>4
    <3> QED
      BY <3>1
  <2> QED
    BY <1>3, <2>1, <2>2, <2>3, <2>4
<1>9. line.t = "request" /\ ~lf =>
        /\ ~a.throws /\ a.message.first_line_added
        /\ a.message.method = <<line.method>> /\ a.message.url = line.url
        /\ a.message.version = line.version
  <2> SUFFICES ASSUME line.t = "request", ~lf
               PROVE  /\ ~a.throws /\ a.message.first_line_added
                      /\ a.message.method = <<line.method>> /\ a.message.url = line.url
                      /\ a.message.version = line.version
    OBVIOUS
  <2>1. a = [message |-> whole, throws |-> FALSE]
    BY <1>3
  <2>2. a.message = whole /\ a.throws = FALSE
    BY <2>1
  <2>3. method = <<line.method>>
    BY <1>2
  <2> QED
    BY <1>5, <2>2, <2>3
<1> QED
  BY <1>8, <1>9 DEF a, FirstLineMakes
(* A header goes into the table, whatever message it belongs to.           *)
LEMMA HeaderIs ==
    ASSUME NEW m, {"headers", "headers_read"} \subseteq DOMAIN m, LowerKeys(m.headers),
           NEW line, NEW lf \in BOOLEAN, NEW value
    PROVE  LET a == add_header(m, line, lf, value)
           IN  \/ lf /\ a = [message |-> [m EXCEPT !.headers_read = TRUE], throws |-> FALSE]
               \/ \E headers :
                    /\ ~lf /\ line.t = "header" /\ LowerKeys(headers)
                    /\ headers = Put(m.headers, string_to_lower(line.name), value)
                    /\ a = [message |-> [m EXCEPT !.headers = headers], throws |-> FALSE]
               \/ ~lf /\ line.t # "header" /\ a = [message |-> m, throws |-> TRUE]
<1> DEFINE headers == Put(m.headers, string_to_lower(line.name), value)
           a == add_header(m, line, lf, value)
<1>1. CASE lf
  BY <1>1 DEF add_header, Added
<1>2. CASE ~lf /\ line.t = "header"
  <2>1. a = Added([m EXCEPT !.headers = Put(@, string_to_lower(line.name), value)])
    BY <1>2 DEF add_header
  <2>2. a = [message |-> [m EXCEPT !.headers = headers], throws |-> FALSE]
    BY <2>1 DEF Added
  <2>3. LowerKeys(headers)
    BY PutIs, LowerIsLower
  <2> HIDE DEF headers
  <2>4. headers = Put(m.headers, string_to_lower(line.name), value)
    BY DEF headers
  <2> QED
    BY <1>2, <2>2, <2>3, <2>4
<1>3. CASE ~lf /\ line.t # "header"
  BY <1>3 DEF add_header, Thrown
<1> QED
  BY <1>1, <1>2, <1>3

(* What a line does to a request.                                          *)
RequestLineMakes(r, line, lf, a) ==
    /\ IsRequest(a.message) /\ a.throws \in BOOLEAN
    /\ r.ended => a.message.ended
    /\ \/ a.message.headers = r.headers
       \/ /\ line.t = "header"
          /\ a.message.headers = Put(r.headers, string_to_lower(line.name),
                                     string_to_lower(line.value))
    /\ r.first_line_added =>
         /\ a.message.first_line_added /\ a.message.method = r.method
         /\ a.message.url = r.url /\ a.message.version = r.version
    /\ ~lf /\ line.t = "request" /\ ~r.first_line_added =>
         /\ ~a.throws /\ a.message.first_line_added
         /\ a.message.method = <<line.method>> /\ a.message.url = line.url
         /\ a.message.version = line.version /\ a.message.headers = r.headers
         /\ a.message.headers_read = r.headers_read
         /\ a.message.ended = r.ended
    /\ ~lf /\ line.t = "header" /\ r.first_line_added /\ ~r.headers_read =>
         /\ ~a.throws
         /\ a.message.headers = Put(r.headers, string_to_lower(line.name),
                                    string_to_lower(line.value))
         /\ a.message.headers_read = r.headers_read
         /\ a.message.ended = r.ended
    /\ ~lf /\ line.t \in {"blank", "short"} =>
         /\ ~a.throws /\ a.message.ended /\ a.message.headers = r.headers

LEMMA RequestLineIs ==
    ASSUME NEW r, IsRequest(r), NEW line \in Lines, NEW lf \in BOOLEAN
    PROVE  RequestLineMakes(r, line, lf, request_add_line(r, line, lf))
<1> DEFINE empty == line.t = "blank" \/ (line.t = "short" /\ ~lf)
           a == request_add_line(r, line, lf)
           end == [r EXCEPT !.ended = TRUE]
<1>1. DOMAIN r = RequestFields
  BY DEF IsRequest
<1>2. CASE empty \/ (r.first_line_added /\ r.headers_read)
  <2>1. a = [message |-> end, throws |-> FALSE]
    BY <1>2 DEF request_add_line, Added
  <2>2. a.message = end /\ a.throws = FALSE
    BY <2>1
  <2>3. /\ IsRequest(end) /\ end.ended = TRUE /\ end.first_line_added = r.first_line_added
        /\ end.method = r.method /\ end.url = r.url /\ end.version = r.version
        /\ end.headers = r.headers
    BY <1>1 DEF IsRequest, RequestFields
  <2> HIDE DEF a, end
  <2> QED
    BY <1>2, <2>2, <2>3 DEF a, RequestLineMakes
<1>3. CASE ~empty /\ ~r.first_line_added
  <2>1. a = request_add_first_line(r, line, lf)
    BY <1>3 DEF request_add_line
  <2>2. ~(~lf /\ line.t \in {"blank", "short"})
    BY <1>3
  <2> HIDE DEF a, RequestLineMakes
  <2>3. FirstLineMakes(r, line, lf, a)
    BY <2>1, FirstLineIs
  <2>4. ~r.first_line_added
    BY <1>3
  <2>5. r.ended => a.message.ended
    BY <2>3 DEF FirstLineMakes
  <2> HIDE DEF empty
  <2> QED
    BY <2>2, <2>3, <2>4, <2>5 DEF a, FirstLineMakes, RequestLineMakes
<1>4. CASE ~empty /\ r.first_line_added /\ ~r.headers_read
  <2> DEFINE value == string_to_lower(line.value)
  <2>1. a = add_header(r, line, lf, value)
    BY <1>4 DEF request_add_line
  <2> HIDE DEF a, value, RequestLineMakes
  <2>2. {"headers", "headers_read"} \subseteq DOMAIN r /\ LowerKeys(r.headers)
    BY <1>1 DEF RequestFields, IsRequest
  <2>3. CASE lf /\ a = [message |-> [r EXCEPT !.headers_read = TRUE], throws |-> FALSE]
    <3> DEFINE m == [r EXCEPT !.headers_read = TRUE]
    <3>1. a.message = m /\ a.throws = FALSE
      BY <2>3
    <3>2. /\ IsRequest(m) /\ m.ended = r.ended /\ m.first_line_added = r.first_line_added
          /\ m.method = r.method /\ m.url = r.url /\ m.version = r.version
          /\ m.headers = r.headers
      BY <1>1 DEF IsRequest, RequestFields
    <3> HIDE DEF m
    <3> QED
      BY <1>4, <2>3, <3>1, <3>2 DEF a, RequestLineMakes
  <2>4. CASE \E headers :
               /\ ~lf /\ line.t = "header" /\ LowerKeys(headers)
               /\ headers = Put(r.headers, string_to_lower(line.name), value)
               /\ a = [message |-> [r EXCEPT !.headers = headers], throws |-> FALSE]
    <3>1. PICK headers :
            /\ ~lf /\ line.t = "header" /\ LowerKeys(headers)
            /\ headers = Put(r.headers, string_to_lower(line.name), value)
            /\ a = [message |-> [r EXCEPT !.headers = headers], throws |-> FALSE]
      BY <2>4
    <3> DEFINE m == [r EXCEPT !.headers = headers]
    <3>2. a.message = m /\ a.throws = FALSE
      BY <3>1
    <3>3. /\ IsRequest(m) /\ m.ended = r.ended /\ m.first_line_added = r.first_line_added
          /\ m.method = r.method /\ m.url = r.url /\ m.version = r.version
          /\ m.headers = headers /\ m.headers_read = r.headers_read
      BY <1>1, <3>1 DEF IsRequest, RequestFields
    <3> HIDE DEF m
    <3> QED
      BY <1>4, <3>1, <3>2, <3>3 DEF a, value, RequestLineMakes
  <2>5. CASE ~lf /\ line.t # "header" /\ a = [message |-> r, throws |-> TRUE]
    <3>1. a.message = r /\ a.throws = TRUE
      BY <2>5
    <3> QED
      BY <1>4, <2>5, <3>1 DEF a, RequestLineMakes
  <2>6. \/ lf /\ a = [message |-> [r EXCEPT !.headers_read = TRUE], throws |-> FALSE]
        \/ \E headers :
             /\ ~lf /\ line.t = "header" /\ LowerKeys(headers)
             /\ headers = Put(r.headers, string_to_lower(line.name), value)
             /\ a = [message |-> [r EXCEPT !.headers = headers], throws |-> FALSE]
        \/ ~lf /\ line.t # "header" /\ a = [message |-> r, throws |-> TRUE]
    <3> DEFINE b == add_header(r, line, lf, value)
    <3>1. \/ lf /\ b = [message |-> [r EXCEPT !.headers_read = TRUE], throws |-> FALSE]
          \/ \E headers :
               /\ ~lf /\ line.t = "header" /\ LowerKeys(headers)
               /\ headers = Put(r.headers, string_to_lower(line.name), value)
               /\ b = [message |-> [r EXCEPT !.headers = headers], throws |-> FALSE]
          \/ ~lf /\ line.t # "header" /\ b = [message |-> r, throws |-> TRUE]
      BY <2>2, HeaderIs
    <3>2. a = b
      BY <2>1
    <3> HIDE DEF b
    <3> QED
      BY <3>1, <3>2
  <2> QED
    BY <2>3, <2>4, <2>5, <2>6, Zenon
<1> QED
  BY <1>2, <1>3, <1>4 DEF IsRequest
(* What a line does to a response.                                         *)
ResponseLineMakes(r, line, lf, a) ==
    /\ IsResponse(a.message) /\ a.throws \in BOOLEAN
    /\ r.first_line_added =>
         a.message.first_line_added /\ a.message.status = r.status
    /\ ~lf /\ line.t = "status" /\ ~r.first_line_added =>
         /\ ~a.throws /\ a.message.first_line_added
         /\ a.message.status = line.status /\ a.message.headers = r.headers
         /\ a.message.headers_read = r.headers_read
         /\ a.message.ended = r.ended
    /\ ~lf /\ line.t = "header" /\ r.first_line_added /\ ~r.headers_read =>
         /\ ~a.throws
         /\ a.message.headers = Put(r.headers, string_to_lower(line.name), line.value)
         /\ a.message.headers_read = r.headers_read
         /\ a.message.ended = r.ended
    /\ ~lf /\ line.t = "blank" =>
         /\ ~a.throws /\ a.message.ended /\ a.message.headers = r.headers
    /\ lf /\ ~r.first_line_added => a.throws

LEMMA ResponseLineIs ==
    ASSUME NEW r, IsResponse(r), NEW line \in Replies, NEW lf \in BOOLEAN
    PROVE  ResponseLineMakes(r, line, lf, response_add_line(r, line, lf))
<1> DEFINE empty == line.t = "blank" /\ ~lf
           a == response_add_line(r, line, lf)
<1>1. DOMAIN r = ResponseFields
  BY DEF IsResponse
<1>2. CASE empty
  <2> DEFINE end == [r EXCEPT !.ended = TRUE]
  <2>1. a = [message |-> end, throws |-> FALSE]
    BY <1>2 DEF response_add_line, Added
  <2>2. a.message = end /\ a.throws = FALSE
    BY <2>1
  <2>3. /\ IsResponse(end) /\ end.ended = TRUE /\ end.first_line_added = r.first_line_added
        /\ end.status = r.status /\ end.headers = r.headers
    BY <1>1 DEF IsResponse, ResponseFields
  <2> HIDE DEF a, end
  <2> QED
    BY <1>2, <2>2, <2>3 DEF a, ResponseLineMakes
<1>3. CASE ~empty /\ ~r.first_line_added
  <2>1. a = response_add_first_line(r, line, lf)
    BY <1>3 DEF response_add_line
  <2> HIDE DEF a, ResponseLineMakes
  <2>2. CASE line.t = "status" /\ ~lf
    <3> DEFINE m == [r EXCEPT !.status = line.status, !.message = Last(line.message),
                              !.first_line_added = TRUE]
    <3>1. a = [message |-> m, throws |-> FALSE]
      BY <2>1, <2>2 DEF response_add_first_line, Added
    <3>2. a.message = m /\ a.throws = FALSE
      BY <3>1
    <3>3. line.status \in Statuses
      BY <2>2 DEF Statuses
    <3>4. /\ IsResponse(m) /\ m.first_line_added = TRUE /\ m.status = line.status
          /\ m.headers = r.headers /\ m.headers_read = r.headers_read /\ m.ended = r.ended
      BY <1>1, <3>3 DEF IsResponse, ResponseFields
    <3> HIDE DEF m
    <3> QED
      BY <1>3, <2>2, <3>2, <3>4 DEF a, ResponseLineMakes
  <2>3. CASE ~(line.t = "status" /\ ~lf)
    <3>1. a = [message |-> r, throws |-> TRUE]
      BY <2>1, <2>3 DEF response_add_first_line, Thrown
    <3>2. a.message = r /\ a.throws = TRUE
      BY <3>1
    <3> QED
      BY <1>3, <2>3, <3>2 DEF a, ResponseLineMakes
  <2> QED
    BY <2>2, <2>3
<1>4. CASE ~empty /\ r.first_line_added /\ ~r.headers_read
  <2>1. a = add_header(r, line, lf, line.value)
    BY <1>4 DEF response_add_line
  <2> HIDE DEF a, ResponseLineMakes
  <2>2. {"headers", "headers_read"} \subseteq DOMAIN r /\ LowerKeys(r.headers)
    BY <1>1 DEF ResponseFields, IsResponse
  <2>3. CASE lf /\ a = [message |-> [r EXCEPT !.headers_read = TRUE], throws |-> FALSE]
    <3> DEFINE m == [r EXCEPT !.headers_read = TRUE]
    <3>1. a.message = m /\ a.throws = FALSE
      BY <2>3
    <3>2. /\ IsResponse(m) /\ m.first_line_added = r.first_line_added /\ m.status = r.status
      BY <1>1 DEF IsResponse, ResponseFields
    <3> HIDE DEF m
    <3> QED
      BY <1>4, <2>3, <3>1, <3>2 DEF a, ResponseLineMakes
  <2>4. CASE \E headers :
               /\ ~lf /\ line.t = "header" /\ LowerKeys(headers)
               /\ headers = Put(r.headers, string_to_lower(line.name), line.value)
               /\ a = [message |-> [r EXCEPT !.headers = headers], throws |-> FALSE]
    <3>1. PICK headers :
            /\ ~lf /\ line.t = "header" /\ LowerKeys(headers)
            /\ headers = Put(r.headers, string_to_lower(line.name), line.value)
            /\ a = [message |-> [r EXCEPT !.headers = headers], throws |-> FALSE]
      BY <2>4
    <3> DEFINE m == [r EXCEPT !.headers = headers]
    <3>2. a.message = m /\ a.throws = FALSE
      BY <3>1
    <3>3. /\ IsResponse(m) /\ m.ended = r.ended /\ m.first_line_added = r.first_line_added
          /\ m.status = r.status /\ m.headers = headers /\ m.headers_read = r.headers_read
      BY <1>1, <3>1 DEF IsResponse, ResponseFields
    <3> HIDE DEF m
    <3> QED
      BY <1>4, <3>1, <3>2, <3>3 DEF a, ResponseLineMakes
  <2>5. CASE ~lf /\ line.t # "header" /\ a = [message |-> r, throws |-> TRUE]
    <3>1. a.message = r /\ a.throws = TRUE
      BY <2>5
    <3> QED
      BY <1>4, <2>5, <3>1 DEF a, ResponseLineMakes
  <2>6. \/ lf /\ a = [message |-> [r EXCEPT !.headers_read = TRUE], throws |-> FALSE]
        \/ \E headers :
             /\ ~lf /\ line.t = "header" /\ LowerKeys(headers)
             /\ headers = Put(r.headers, string_to_lower(line.name), line.value)
             /\ a = [message |-> [r EXCEPT !.headers = headers], throws |-> FALSE]
        \/ ~lf /\ line.t # "header" /\ a = [message |-> r, throws |-> TRUE]
    <3> DEFINE b == add_header(r, line, lf, line.value)
    <3>1. \/ lf /\ b = [message |-> [r EXCEPT !.headers_read = TRUE], throws |-> FALSE]
          \/ \E headers :
               /\ ~lf /\ line.t = "header" /\ LowerKeys(headers)
               /\ headers = Put(r.headers, string_to_lower(line.name), line.value)
               /\ b = [message |-> [r EXCEPT !.headers = headers], throws |-> FALSE]
          \/ ~lf /\ line.t # "header" /\ b = [message |-> r, throws |-> TRUE]
      BY <2>2, HeaderIs
    <3>2. a = b
      BY <2>1
    <3> HIDE DEF b
    <3> QED
      BY <3>1, <3>2
  <2> QED
    BY <2>3, <2>4, <2>5, <2>6, Zenon
<1>5. CASE ~empty /\ r.first_line_added /\ r.headers_read
  <2>1. a = [message |-> r, throws |-> FALSE]
    BY <1>5 DEF response_add_line, Added
  <2>2. a.message = r /\ a.throws = FALSE
    BY <2>1
  <2> HIDE DEF a, ResponseLineMakes
  <2> QED
    BY <1>5, <2>2 DEF a, ResponseLineMakes
<1> QED
  BY <1>2, <1>3, <1>4, <1>5 DEF IsResponse

---------------------------------------------------------------------------
(* The tables of headers, as folds of the lines that were sent.            *)

RequestHeader(table, l) == Put(table, string_to_lower(l.name), string_to_lower(l.value))

ReplyHeader(table, l) == Put(table, string_to_lower(l.name), AsItIs(l.value))

Requested == INSTANCE FoldLemmas WITH Op <- RequestHeader, Base <- <<>>

Replied == INSTANCE FoldLemmas WITH Op <- ReplyHeader, Base <- <<>>

LEMMA HeadersAreFolds ==
    ASSUME NEW lines
    PROVE  /\ HeadersSent(lines, string_to_lower) = Requested!Folded(lines)
           /\ HeadersSent(lines, AsItIs) = Replied!Folded(lines)
BY DEF HeadersSent, RequestHeader, ReplyHeader, Requested!Folded, Replied!Folded,
       FoldLeft, Requested!FoldLeft, Replied!FoldLeft,
       MapThenFoldSet, Requested!MapThenFoldSet, Replied!MapThenFoldSet,
       Max, Requested!Max, Replied!Max

LEMMA BehindTheFirst ==
    ASSUME NEW L, NEW lines \in Seq(L), NEW n \in Nat, Len(lines) = n, n > 0
    PROVE  LET behind == SubSeq(lines, 2, n)
           IN  /\ behind \in Seq(L) /\ Len(behind) = n - 1
               /\ \A i \in 1 .. n - 1 : behind[i] = lines[i + 1]
<1> DEFINE behind == SubSeq(lines, 2, n)
<1>1. \A i \in 2 .. n : lines[i] \in L
  OBVIOUS
<1>2. /\ behind \in Seq(L) /\ Len(behind) = IF 2 =< n THEN n - 2 + 1 ELSE 0
      /\ \A i \in 1 .. n - 2 + 1 : behind[i] = lines[2 + i - 1]
  BY <1>1, SubSeqProperties
<1>3. n - 2 + 1 = n - 1 /\ \A i \in 1 .. n - 1 : 2 + i - 1 = i + 1
  OBVIOUS
<1> HIDE DEF behind
<1>4. behind \in Seq(L) /\ Len(behind) = n - 1
  BY <1>2, <1>3
<1>5. \A i \in 1 .. n - 1 : behind[i] = lines[i + 1]
  BY <1>2, <1>3
<1> QED
  BY <1>4, <1>5 DEF behind

(* The first headers are none, and one line more is one header more.       *)
LEMMA HeadersGrow ==
    ASSUME NEW L, NEW lines \in Seq(L), NEW line \in L, Len(lines) > 0
    PROVE  LET n == Len(lines)
               after == Append(lines, line)
           IN  /\ HeadersSent(SubSeq(after, 2, n + 1), string_to_lower) =
                    Put(HeadersSent(SubSeq(lines, 2, n), string_to_lower),
                        string_to_lower(line.name), string_to_lower(line.value))
               /\ HeadersSent(SubSeq(after, 2, n + 1), AsItIs) =
                    Put(HeadersSent(SubSeq(lines, 2, n), AsItIs),
                        string_to_lower(line.name), line.value)
               /\ SubSeq(after, 2, n) = SubSeq(lines, 2, n)
<1> DEFINE n == Len(lines)
           after == Append(lines, line)
           few == SubSeq(lines, 2, n)
<1>1. few \in Seq(L)
  OBVIOUS
<1>2. SubSeq(after, 2, n + 1) = Append(few, line)
  <2> DEFINE more == SubSeq(after, 2, n + 1)
             long == Append(few, line)
  <2>1. more \in Seq(L) /\ Len(more) = n /\ \A i \in 1 .. n : more[i] = after[i + 1]
    <3>1. after \in Seq(L) /\ Len(after) = n + 1 /\ n \in Nat
      OBVIOUS
    <3> HIDE DEF after, n
    <3> QED
      BY <3>1, BehindTheFirst
  <2>2. few \in Seq(L) /\ Len(few) = n - 1 /\ \A i \in 1 .. n - 1 : few[i] = lines[i + 1]
    <3>1. lines \in Seq(L) /\ Len(lines) = n /\ n \in Nat /\ n > 0
      OBVIOUS
    <3> HIDE DEF n
    <3> QED
      BY <3>1, BehindTheFirst
  <2>3. n \in Nat /\ n > 0 /\ after[n + 1] = line /\ \A i \in 1 .. n : after[i] = lines[i]
    OBVIOUS
  <2> HIDE DEF n, after, few
  <2>4. /\ long \in Seq(L) /\ Len(long) = n /\ long[n] = line
        /\ \A i \in 1 .. n - 1 : long[i] = few[i]
    BY <2>2, <2>3
  <2> HIDE DEF more, long
  <2>5. ASSUME NEW i \in 1 .. n PROVE more[i] = long[i]
    <3>1. CASE i = n
      BY <2>1, <2>3, <2>4, <3>1
    <3>2. CASE i # n
      <4>1. i \in 1 .. n - 1 /\ i + 1 \in 1 .. n
        BY <2>3, <3>2
      <4> QED
        BY <2>1, <2>2, <2>3, <2>4, <4>1
    <3> QED
      BY <3>1, <3>2
  <2>6. more = long
    BY <2>1, <2>4, <2>5, SeqEqual
  <2> QED
    BY <2>6 DEF more, long
<1>3. SubSeq(after, 2, n) = few
  OBVIOUS
<1> HIDE DEF n, after, few
<1>4. Requested!Folded(Append(few, line)) = RequestHeader(Requested!Folded(few), line)
  BY <1>1, Requested!FoldedAppend
<1>5. Replied!Folded(Append(few, line)) = ReplyHeader(Replied!Folded(few), line)
  BY <1>1, Replied!FoldedAppend
<1> QED
  BY <1>2, <1>3, <1>4, <1>5, HeadersAreFolds DEF RequestHeader, ReplyHeader, AsItIs, n, after, few

LEMMA NoHeaders ==
    ASSUME NEW L, NEW lines \in Seq(L), Len(lines) = 1
    PROVE  /\ HeadersSent(SubSeq(lines, 2, 1), string_to_lower) = <<>>
           /\ HeadersSent(SubSeq(lines, 2, 1), AsItIs) = <<>>
<1>1. SubSeq(lines, 2, 1) = <<>>
  OBVIOUS
<1> QED
  BY <1>1, HeadersAreFolds, Requested!FoldedEmpty, Replied!FoldedEmpty
---------------------------------------------------------------------------
(* The location of an url has a root, and the url is not empty.            *)

LEMMA MatchesSomething ==
    ASSUME NEW type \in location_type_t, NEW url \in Seq(STRING), NEW l,
           l.url \in Seq(STRING), l.url # <<>>, Matches(type, url, l)
    PROVE  Len(url) > 0
<1>1. Len(l.url) \in Nat /\ Len(l.url) > 0
  OBVIOUS
<1> DEFINE Character == STRING \cup {"a"}
<1>2. url \in Seq(Character) /\ tolower(url) \in Seq(Character) /\ Len(tolower(url)) = Len(url)
  <2>1. url \in Seq(Character) /\ "a" \in Character
    OBVIOUS
  <2> HIDE DEF Character
  <2>2. \A i \in 1 .. Len(url) : (IF url[i] = "A" THEN "a" ELSE url[i]) \in Character
    BY <2>1
  <2>3. Len(url) \in Nat
    OBVIOUS
  <2> QED
    BY <2>1, <2>2, <2>3 DEF tolower
<1> HIDE DEF Character
<1>3. ASSUME NEW u \in Seq(Character), Fits(type, u, l)
      PROVE  Len(u) > 0
  <2>1. CASE type = "EXACT_MATCH"
    BY <1>1, <1>3, <2>1 DEF Fits
  <2>2. CASE type = "REGEX_MATCH"
    BY <1>1, <1>3, <2>2 DEF Fits, regex_match
  <2>3. CASE type \notin {"EXACT_MATCH", "REGEX_MATCH"}
    <3>1. Len(l.url) <= Len(u) /\ Len(u) \in Nat
      BY <1>3, <2>3 DEF Fits, IsPrefix
    <3> QED
      BY <1>1, <3>1
  <2> QED
    BY <2>1, <2>2, <2>3
<1> QED
  BY <1>2, <1>3 DEF Matches

LEMMA FoundIsServed ==
    ASSUME NEW config \in Configs, NEW s, s = Configured(config),
           NEW url \in Seq(STRING)
    PROVE  LET found == get_location(s, url)
           IN  /\ found.type \in location_type_t \cup {"none"}
               /\ found # NoLocation =>
                    /\ Len(url) > 0
                    /\ s.locations[found.type][found.place].root \in Seq(STRING)
                    /\ Len(s.locations[found.type][found.place].root) > 0
<1> DEFINE found == get_location(s, url)
           at == [t \in location_type_t |-> FirstOf(s, t, url)]
<1>1. /\ config \in Seq(Listed)
      /\ \A l \in Listed : /\ l.type \in location_type_t
                           /\ l.location.url \in Seq(STRING) /\ l.location.url # <<>>
                           /\ l.location.root \in Seq(STRING) /\ l.location.root # <<>>
  BY ListedAssumption
<1>2. ListsOf(s.locations, config, Len(config)) /\ Len(config) \in Nat
  BY <1>1, ListsOfConfig
<1>3. \A t \in location_type_t : Len(s.locations[t]) \in Nat
  BY <1>2, NumbersCount DEF ListsOf
<1> SUFFICES ASSUME found # NoLocation
             PROVE  /\ found.type \in location_type_t
                    /\ Len(url) > 0
                    /\ s.locations[found.type][found.place].root \in Seq(STRING)
                    /\ Len(s.locations[found.type][found.place].root) > 0
  BY DEF NoLocation
<1>4. PICK t \in location_type_t :
        at[t] # 0 /\ found = IF Bad(t, s.locations[t][at[t]]) THEN NoLocation
                            ELSE [type |-> t, place |-> at[t]]
  BY <1>3, FoundLocation
<1>5. found.type = t /\ found.place = at[t] /\ ~Bad(t, s.locations[t][at[t]])
  BY <1>4
<1>6. IsFirst(s.locations[t], t, url, at[t])
  BY <1>3, FirstIsFirst
<1> HIDE DEF found, at
<1> DEFINE l == s.locations[t][at[t]]
<1>7. at[t] \in 1 .. Len(s.locations[t]) /\ Matches(t, url, l)
  BY <1>4, <1>5, <1>6 DEF IsFirst, Stops
<1>8. PICK i \in OfType(config, t, Len(config)) : NumberOf(config, t, i) = at[t]
  BY <1>2, <1>7 DEF ListsOf
<1>9. l = config[i].location /\ i \in 1 .. Len(config)
  <2>1. s.locations[t][NumberOf(config, t, i)] = config[i].location
    BY <1>2, <1>8 DEF ListsOf
  <2>2. i \in 1 .. Len(config)
    BY DEF OfType
  <2> QED
    BY <1>8, <2>1, <2>2
<1>10. config[i] \in Listed
  <2>1. config \in Seq(Listed) /\ i \in 1 .. Len(config)
    BY <1>1, <1>9
  <2> QED
    BY <2>1, ElementOfSeq
<1>11. /\ l.url \in Seq(STRING) /\ l.url # <<>> /\ l.root \in Seq(STRING) /\ l.root # <<>>
  BY <1>1, <1>9, <1>10
<1> HIDE DEF l
<1>12. Len(url) > 0
  BY <1>7, <1>11, MatchesSomething
<1>13. Len(l.root) > 0
  BY <1>11
<1> QED
  BY <1>4, <1>5, <1>11, <1>12, <1>13 DEF l, found

(* So the path of a file is never that of the 404 page.                    *)
LEMMA PathIsNotThePage ==
    ASSUME Typed, FileLocation
    PROVE  Path # PAGE_404
<1> DEFINE root == server.locations[Found.type][Found.place].root
<1>1. PICK config \in Configs : server = Configured(config)
  BY DEF Typed
<1>2. request_.url \in Seq(STRING)
  BY DEF Typed, IsRequest
<1>3. Len(request_.url) > 0 /\ root \in Seq(STRING) /\ Len(root) > 0
  BY <1>1, <1>2, FoundIsServed DEF FileLocation, Found
<1>4. Path = root \o request_.url
  BY DEF Path, FileLocation
<1> HIDE DEF root
<1>5. Len(Path) > 1
  <2>1. Len(root \o request_.url) = Len(root) + Len(request_.url)
    BY <1>2, <1>3
  <2>2. Len(root) \in Nat /\ Len(request_.url) \in Nat
    BY <1>2, <1>3
  <2> QED
    BY <1>3, <1>4, <2>1, <2>2
<1>6. Len(PAGE_404) = 1
  BY DEF PAGE_404
<1>7. ~(1 > 1)
  OBVIOUS
<1> QED
  BY <1>5, <1>6, <1>7, Zenon
---------------------------------------------------------------------------
(* The steps.                                                              *)

(* What was sent, and what was replied, where no line is read.             *)
LEMMA SentStays ==
    ASSUME SentInv, UNCHANGED <<sent, request_>>,
           pc' = "get_request" => pc = "get_request" /\ line_' = line_
    PROVE  SentInv'
<1>1. sent' = sent /\ request_' = request_
  OBVIOUS
<1>2. ASSUME NEW k \in DOMAIN sent', OrderlyHead(k)'
      PROVE  request_'.ended /\ HeadersPassed(k)'
  <2>1. k \in DOMAIN sent /\ OrderlyHead(k)
    BY <1>1, <1>2 DEF OrderlyHead
  <2>2. request_.ended /\ HeadersPassed(k)
    BY <2>1 DEF SentInv
  <2> DEFINE own == HeadersSent(SubSeq(sent, 2, k - 1), string_to_lower)
  <2>3. HeadersSent(SubSeq(sent', 2, k - 1), string_to_lower) = own
    BY <1>1
  <2>4. /\ DOMAIN own \subseteq DOMAIN request_.headers
        /\ \A name \in DOMAIN request_.headers :
             \/ name \in DOMAIN own /\ request_.headers[name] = own[name]
             \/ \E i \in k + 1 .. Len(sent) :
                  /\ sent[i].t = "header" /\ string_to_lower(sent[i].name) = name
                  /\ request_.headers[name] = string_to_lower(sent[i].value)
    BY <2>2 DEF HeadersPassed
  <2> HIDE DEF own
  <2>5. /\ DOMAIN own \subseteq DOMAIN request_'.headers
        /\ \A name \in DOMAIN request_'.headers :
             \/ name \in DOMAIN own /\ request_'.headers[name] = own[name]
             \/ \E i \in k + 1 .. Len(sent') :
                  /\ sent'[i].t = "header" /\ string_to_lower(sent'[i].name) = name
                  /\ request_'.headers[name] = string_to_lower(sent'[i].value)
    BY <1>1, <2>4
  <2>6. HeadersPassed(k)'
    BY <2>3, <2>5 DEF HeadersPassed
  <2> QED
    BY <1>1, <2>2, <2>6
<1> QED
  BY <1>1, <1>2 DEF SentInv, RequestBegun, HeadersOnly

LEMMA RepliedStays ==
    ASSUME ReplyInv, UNCHANGED replied, pc' # "get_proxy_header",
           pc' # "done" => replied = <<>>,
           pc' \in {"get_request", "connect_to_upstream"} =>
             response_' = NewResponse /\ ~upstream_buffer',
           replied = <<>> \/ UNCHANGED response_
    PROVE  ReplyInv'
<1>1. replied' = replied /\ replied \in Seq(Replies)
  BY DEF ReplyInv
<1>2. OrderlyReply' <=> OrderlyReply
  BY <1>1 DEF OrderlyReply
<1>3. OrderlyReply => response_' = response_
  <2>1. replied = <<>> => ~OrderlyReply
    BY DEF OrderlyReply
  <2> QED
    BY <2>1
<1>4. OrderlyReply => pc' = "done"
  <2>1. replied = <<>> => ~OrderlyReply
    BY DEF OrderlyReply
  <2> QED
    BY <2>1
<1>5. OrderlyReply' =>
        /\ response_'.ended /\ response_'.status = replied'[1].status
        /\ response_'.headers = HeadersSent(SubSeq(replied', 2, Len(replied') - 1), AsItIs)
  BY <1>1, <1>2, <1>3 DEF ReplyInv
<1>6. /\ pc' \in {"get_request", "connect_to_upstream"} =>
           replied' = <<>> /\ response_' = NewResponse /\ ~upstream_buffer'
      /\ pc' \in {"header", "open", "page"} => replied' = <<>>
  BY <1>1
<1> QED
  BY <1>1, <1>5, <1>6 DEF ReplyInv

LEMMA NewResponses ==
    /\ IsResponse(NewResponse) /\ DOMAIN NewResponse = ResponseFields
    /\ NewResponse.headers = <<>> /\ NewResponse.first_line_added = FALSE
    /\ NewResponse.headers_read = FALSE /\ NewResponse.ended = FALSE
<1>1. /\ DOMAIN NewResponse = ResponseFields /\ NewResponse.status = 0
      /\ NewResponse.headers = <<>> /\ NewResponse.first_line_added = FALSE
      /\ NewResponse.headers_read = FALSE /\ NewResponse.ended = FALSE
  BY DEF NewResponse, ResponseFields
<1>2. LowerKeys(<<>>)
  BY DEF LowerKeys
<1>3. 0 \in Statuses
  BY DEF Statuses
<1>4. IsResponse(NewResponse)
  BY <1>1, <1>2, <1>3 DEF IsResponse
<1> QED
  BY <1>1, <1>4

LEMMA StatusMakes ==
    ASSUME NEW s \in {200, 404, 415}, NEW length, Status(s, length)
    PROVE  IsResponse(response_') /\ response_'.status = s /\ response_'.content_length = length
<1> DEFINE r == [NewResponse EXCEPT !.status = s, !.content_length = length]
<1>1. /\ DOMAIN r = ResponseFields /\ r.headers = <<>>
      /\ r.first_line_added = FALSE /\ r.headers_read = FALSE /\ r.ended = FALSE
      /\ r.status = s /\ r.content_length = length
  <2>1. DOMAIN r = DOMAIN NewResponse
    OBVIOUS
  <2>2. /\ r.headers = NewResponse.headers
        /\ r.first_line_added = NewResponse.first_line_added
        /\ r.headers_read = NewResponse.headers_read /\ r.ended = NewResponse.ended
        /\ r.status = s /\ r.content_length = length
    BY NewResponses DEF ResponseFields
  <2> QED
    BY <2>1, <2>2, NewResponses
<1>2. response_' = r
  BY DEF Status
<1> HIDE DEF r
<1>3. r.status \in Statuses /\ LowerKeys(r.headers)
  BY <1>1 DEF Statuses, LowerKeys
<1>4. IsResponse(r)
  BY <1>1, <1>3 DEF IsResponse
<1> QED
  BY <1>1, <1>2, <1>4

LEMMA InitInv == Init => ExchangeInv
<1> SUFFICES ASSUME Init PROVE ExchangeInv
  OBVIOUS
<1>1. PICK garbage \in Versions : request_ = NewRequest(garbage)
  BY Zenon DEF Init
<1>2. /\ \E config \in Configs : server = Configured(config)
      /\ files \in FileSystems /\ stage = "GET_REQUEST" /\ pc = "get_request"
      /\ line_ = FALSE /\ upstream_buffer = FALSE
      /\ response_ = NewResponse /\ location_ = NoLocation
      /\ sent = <<>> /\ replied = <<>> /\ changes = 0
  BY Zenon DEF Init
<1>3. IsRequest(request_) /\ request_.headers = <<>> /\ request_.first_line_added = FALSE
      /\ request_.headers_read = FALSE /\ request_.ended = FALSE
  BY <1>1 DEF NewRequest, IsRequest, RequestFields, Versions, AnyVersion, LowerKeys
<1>4. IsResponse(response_)
  BY <1>2, NewResponses
<1>5. Typed
  BY <1>2, <1>3, <1>4 DEF Typed, Stages, NoLocation
<1>6. Len(sent) = 0 /\ DOMAIN sent = {} /\ sent \in Seq(Lines)
  BY <1>2
<1>7. SentInv
  BY <1>2, <1>3, <1>6 DEF SentInv, RequestBegun
<1>8. PhaseInv
  BY <1>2 DEF PhaseInv
<1>9. Len(replied) = 0 /\ replied \in Seq(Replies)
  BY <1>2
<1>10. ReplyInv
  BY <1>2, <1>9 DEF ReplyInv, ReplyBegun, OrderlyReply
<1> QED
  BY <1>5, <1>7, <1>8, <1>10 DEF ExchangeInv

(* The location of the request is looked up.                               *)
LEMMA Located ==
    ASSUME Typed, NEW url \in Seq(STRING), process_location(url),
           UNCHANGED server, request_'.url = url
    PROVE  /\ location_'.type \in location_type_t \cup {"none"}
           /\ stage' \in {"ROOT_NOT_FOUND", "PASS_TO_PROXY", "ROOT_FOUND"}
           /\ \/ pc' = "header" /\ FileLocation'
              \/ pc' = "page" /\ Found' = NoLocation
              \/ pc' = "connect_to_upstream" /\ Found' # NoLocation /\ IsProxied'
<1> DEFINE found == get_location(server, url)
           proxied == server.locations[found.type][found.place].is_proxy
<1>1. Found' = found /\ (IsProxied' <=> proxied)
  BY DEF Found, IsProxied
<1>2. PICK config \in Configs : server = Configured(config)
  BY DEF Typed
<1>3. found.type \in location_type_t \cup {"none"}
  BY <1>2, FoundIsServed
<1>4. /\ location_' = found
      /\ \/ found = NoLocation /\ stage' = "ROOT_NOT_FOUND" /\ pc' = "page"
         \/ found # NoLocation /\ proxied /\ stage' = "PASS_TO_PROXY"
            /\ pc' = "connect_to_upstream"
         \/ found # NoLocation /\ ~proxied /\ stage' = "ROOT_FOUND" /\ pc' = "header"
  BY DEF process_location
<1> HIDE DEF found, proxied
<1> QED
  BY <1>1, <1>3, <1>4 DEF FileLocation
LEMMA LocatedPhase ==
    ASSUME Typed, NEW url \in Seq(STRING), process_location(url),
           UNCHANGED server, request_'.url = url
    PROVE  /\ location_'.type \in location_type_t \cup {"none"}
           /\ stage' \in Stages
           /\ pc' \in {"header", "page", "connect_to_upstream"}
           /\ PhaseInv'
<1>1. /\ location_'.type \in location_type_t \cup {"none"}
      /\ stage' \in {"ROOT_NOT_FOUND", "PASS_TO_PROXY", "ROOT_FOUND"}
      /\ \/ pc' = "header" /\ FileLocation'
         \/ pc' = "page" /\ Found' = NoLocation
         \/ pc' = "connect_to_upstream" /\ Found' # NoLocation /\ IsProxied'
  BY Located
<1>2. stage' \in Stages /\ stage' # "SEND_HTTP_HEADER_RESPONSE"
  BY <1>1 DEF Stages
<1>3. PhaseInv'
  BY <1>1, <1>2 DEF PhaseInv
<1> QED
  BY <1>1, <1>2, <1>3

(* What depends on the request and its location only.                      *)
LEMMA SameRequest ==
    ASSUME UNCHANGED <<server, request_>>
    PROVE  /\ Found' = Found /\ (IsProxied' <=> IsProxied)
           /\ (IsFile' <=> IsFile) /\ (WrongVersion' <=> WrongVersion)
           /\ UNCHANGED location_ => (FileLocation' <=> FileLocation) /\ Path' = Path
<1>1. Found' = Found
  BY DEF Found
<1>2. IsProxied' <=> IsProxied
  BY DEF IsProxied, Found
<1>3. (IsFile' <=> IsFile) /\ (WrongVersion' <=> WrongVersion)
  BY DEF IsFile, WrongVersion
<1>4. UNCHANGED location_ => Path' = Path
  BY DEF Path
<1> QED
  BY <1>1, <1>2, <1>3, <1>4 DEF FileLocation

LEMMA EndOfRequestKeeps ==
    ASSUME ExchangeInv, EndOfRequest
    PROVE  ExchangeInv'
<1>1. /\ pc = "get_request"
      /\ UNCHANGED <<server, files, line_, upstream_buffer, request_, response_, file_fd, sent,
                     replied, changes>>
      /\ \/ request_.ended /\ process_location(request_.url)
         \/ ~request_.ended /\ Stay("ERROR_STAGE")
         \/ ~request_.ended /\ Stay("GET_REQUEST")
  BY DEF EndOfRequest
<1>2. Typed /\ SentInv /\ PhaseInv /\ ReplyInv
  BY DEF ExchangeInv
<1>3. request_.url \in Seq(STRING) /\ request_' = request_
  BY <1>1, <1>2 DEF Typed, IsRequest
<1>4. \/ /\ location_'.type \in location_type_t \cup {"none"}
         /\ stage' \in Stages
         /\ pc' \in {"header", "page", "connect_to_upstream"}
         /\ PhaseInv'
      \/ /\ ~request_.ended /\ location_' = location_ /\ pc' = "done"
         /\ stage' \in {"ERROR_STAGE", "GET_REQUEST"}
  BY <1>1, <1>2, <1>3, LocatedPhase DEF Stay
<1>5. location_'.type \in location_type_t \cup {"none"} /\ stage' \in Stages
      /\ pc' \in {"header", "page", "connect_to_upstream", "done"}
  BY <1>2, <1>4 DEF Typed, Stages
<1>6. PhaseInv'
  <2>1. CASE /\ ~request_.ended /\ location_' = location_ /\ pc' = "done"
             /\ stage' \in {"ERROR_STAGE", "GET_REQUEST"}
    <3>1. Outcome'
      BY <1>3, <2>1 DEF Outcome
    <3> QED
      BY <2>1, <3>1 DEF PhaseInv
  <2> QED
    BY <1>4, <2>1
<1>7. Typed'
  BY <1>1, <1>2, <1>5 DEF Typed
<1>8. SentInv'
  BY <1>1, <1>2, <1>5, SentStays
<1>9. ReplyInv'
  <2>1. replied = <<>> /\ response_ = NewResponse /\ ~upstream_buffer
    BY <1>1, <1>2 DEF ReplyInv
  <2> QED
    BY <1>1, <1>2, <1>5, <2>1, RepliedStays
<1> QED
  BY <1>6, <1>7, <1>8, <1>9 DEF ExchangeInv

LEMMA MakeHeaderKeeps ==
    ASSUME ExchangeInv, MakeHeader
    PROVE  ExchangeInv'
<1>1. /\ pc = "header" /\ http_handler
      /\ UNCHANGED <<server, files, line_, upstream_buffer, request_, location_, file_fd, sent,
                     replied, changes>>
  BY DEF MakeHeader
<1>2. Typed /\ SentInv /\ PhaseInv /\ ReplyInv
  BY DEF ExchangeInv
<1>3. FileLocation /\ FileLocation' /\ (IsFile' <=> IsFile) /\ Path' = Path
  BY <1>1, <1>2, SameRequest DEF PhaseInv
<1>4. Size(Path)' = Size(Path)
  BY <1>1, <1>3 DEF Size
<1>5. \/ ~IsFile /\ Uncaught
      \/ /\ IsFile /\ Size(Path) = NoSize
         /\ Status(404, NoSize) /\ pc' = "open" /\ UNCHANGED stage
      \/ /\ IsFile /\ Size(Path) # NoSize /\ get_content_type_throws(request_.url)
         /\ Status(415, NoSize) /\ pc' = "open" /\ UNCHANGED stage
      \/ /\ IsFile /\ Size(Path) # NoSize /\ ~get_content_type_throws(request_.url)
         /\ Status(200, Size(Path)) /\ pc' = "open" /\ UNCHANGED stage
  <2>1. CASE ~IsFile
    BY <1>1, <2>1 DEF http_handler, IsFile
  <2>2. CASE IsFile
    BY <1>1, <2>2 DEF http_handler, IsFile
  <2> QED
    BY <2>1, <2>2
<1>6. /\ IsResponse(response_') /\ stage' \in Stages
      /\ \/ ~IsFile /\ stage' = "uncaught" /\ pc' = "done"
         \/ IsFile /\ pc' = "open" /\ HeaderMade' /\ stage' = stage
  <2>1. CASE ~IsFile /\ Uncaught
    <3>1. stage' = "uncaught" /\ pc' = "done" /\ response_' = response_
      BY <2>1 DEF Uncaught
    <3> QED
      BY <1>2, <2>1, <3>1 DEF Typed, Stages
  <2>2. ASSUME NEW s \in {200, 404, 415}, NEW length, Status(s, length)
        PROVE  IsResponse(response_') /\ response_'.status = s /\ response_'.content_length = length
    BY <2>2, StatusMakes
  <2>3. UNCHANGED <<request_, changes>> /\ (Path' = Path) /\ (Size(Path)' = Size(Path))
    BY <1>1, <1>3, <1>4
  <2>4. CASE /\ IsFile /\ Size(Path) = NoSize
             /\ Status(404, NoSize) /\ pc' = "open" /\ UNCHANGED stage
    <3>1. HeaderMade'
      BY <2>2, <2>3, <2>4 DEF HeaderMade, NoSize
    <3> QED
      BY <1>2, <2>2, <2>4, <3>1 DEF Typed
  <2>5. CASE /\ IsFile /\ Size(Path) # NoSize /\ get_content_type_throws(request_.url)
             /\ Status(415, NoSize) /\ pc' = "open" /\ UNCHANGED stage
    <3>1. get_content_type_throws(request_.url)'
      BY <2>3, <2>5
    <3>2. HeaderMade'
      BY <2>2, <2>3, <2>5, <3>1 DEF HeaderMade, NoSize
    <3> QED
      BY <1>2, <2>2, <2>5, <3>2 DEF Typed
  <2>6. CASE /\ IsFile /\ Size(Path) # NoSize /\ ~get_content_type_throws(request_.url)
             /\ Status(200, Size(Path)) /\ pc' = "open" /\ UNCHANGED stage
    <3>1. ~get_content_type_throws(request_.url)'
      BY <2>3, <2>6
    <3>2. HeaderMade'
      BY <2>2, <2>3, <2>6, <3>1 DEF HeaderMade, NoSize
    <3> QED
      BY <1>2, <2>2, <2>6, <3>2 DEF Typed
  <2> QED
    BY <1>5, <2>1, <2>4, <2>5, <2>6
<1>7. PhaseInv'
  <2>1. CASE ~IsFile /\ stage' = "uncaught" /\ pc' = "done"
    <3>1. Outcome'
      BY <1>3, <2>1 DEF Outcome
    <3> QED
      BY <2>1, <3>1 DEF PhaseInv
  <2>2. CASE IsFile /\ pc' = "open" /\ HeaderMade' /\ stage' = stage
    <3>1. stage # "SEND_HTTP_HEADER_RESPONSE"
      BY <1>1, <1>2 DEF PhaseInv
    <3> QED
      BY <1>3, <2>2, <3>1 DEF PhaseInv
  <2> QED
    BY <1>6, <2>1, <2>2
<1>8. Typed'
  BY <1>1, <1>2, <1>6 DEF Typed
<1>9. SentInv'
  BY <1>1, <1>2, <1>6, SentStays
<1>10. ReplyInv'
  <2>1. replied = <<>>
    BY <1>1, <1>2 DEF ReplyInv
  <2> QED
    BY <1>1, <1>2, <1>6, <2>1, RepliedStays
<1> QED
  BY <1>7, <1>8, <1>9, <1>10 DEF ExchangeInv
LEMMA OpenFileKeeps ==
    ASSUME ExchangeInv, OpenFile
    PROVE  ExchangeInv'
<1>1. /\ pc = "open"
      /\ \/ /\ Size(Path) = NoSize
            /\ stage' = "ROOT_NOT_FOUND" /\ pc' = "page" /\ UNCHANGED <<file_fd, line_>>
         \/ /\ Size(Path) # NoSize
            /\ file_fd' = Path /\ line_' = FALSE
            /\ stage' = "SEND_HTTP_HEADER_RESPONSE" /\ pc' = "done"
      /\ UNCHANGED <<server, files, upstream_buffer, request_, response_, location_, sent, replied,
                     changes>>
  BY DEF OpenFile
<1>2. Typed /\ SentInv /\ PhaseInv /\ ReplyInv
  BY DEF ExchangeInv
<1>3. /\ FileLocation /\ FileLocation' /\ IsFile /\ IsFile' /\ Path' = Path /\ HeaderMade
      /\ replied = <<>>
  BY <1>1, <1>2, SameRequest DEF PhaseInv, ReplyInv
<1>4. Size(Path)' = Size(Path)
  BY <1>1, <1>3 DEF Size
<1>5. PhaseInv'
  <2>1. CASE Size(Path) = NoSize /\ stage' = "ROOT_NOT_FOUND" /\ pc' = "page"
    BY <1>3, <1>4, <2>1 DEF PhaseInv
  <2>2. CASE /\ Size(Path) # NoSize /\ file_fd' = Path
             /\ stage' = "SEND_HTTP_HEADER_RESPONSE" /\ pc' = "done"
    <3>1. HeaderMade'
      BY <1>1, <1>3, <1>4 DEF HeaderMade
    <3>2. Outcome'
      BY <1>3, <1>4, <2>2, <3>1 DEF Outcome
    <3> QED
      BY <2>2, <3>2 DEF PhaseInv
  <2> QED
    BY <1>1, <2>1, <2>2
<1>6. Typed'
  BY <1>1, <1>2 DEF Typed, Stages
<1>7. SentInv'
  BY <1>1, <1>2, SentStays
<1>8. ReplyInv'
  BY <1>1, <1>2, <1>3, RepliedStays
<1> QED
  BY <1>5, <1>6, <1>7, <1>8 DEF ExchangeInv

LEMMA PageKeeps ==
    ASSUME ExchangeInv, Page
    PROVE  ExchangeInv'
<1>1. /\ pc = "page" /\ pc' = "done" /\ file_fd' = PAGE_404
      /\ \/ /\ WrongVersion
            /\ stage' = "uncaught" /\ UNCHANGED <<response_, line_>>
         \/ /\ ~WrongVersion
            /\ Status(404, NoSize)
            /\ stage' = "SEND_HTTP_HEADER_RESPONSE" /\ line_' = FALSE
      /\ UNCHANGED <<server, files, upstream_buffer, request_, location_, sent, replied, changes>>
  BY DEF Page, Uncaught
<1>2. Typed /\ SentInv /\ PhaseInv /\ ReplyInv
  BY DEF ExchangeInv
<1>3. /\ Found' = Found /\ (IsFile' <=> IsFile) /\ (WrongVersion' <=> WrongVersion)
      /\ (FileLocation' <=> FileLocation) /\ Path' = Path
  BY <1>1, SameRequest
<1>4. /\ replied = <<>>
      /\ \/ Found = NoLocation
         \/ FileLocation /\ IsFile /\ (changes = 0 => Size(Path) = NoSize)
  BY <1>1, <1>2 DEF PhaseInv, ReplyInv
<1>5. Size(Path)' = Size(Path)
  BY <1>1, <1>3 DEF Size
<1>6. \/ WrongVersion /\ stage' = "uncaught"
      \/ ~WrongVersion /\ Answered(404, NoSize, PAGE_404)'
  <2>1. CASE ~WrongVersion /\ Status(404, NoSize) /\ stage' = "SEND_HTTP_HEADER_RESPONSE"
    <3>1. response_'.status = 404 /\ response_'.content_length = NoSize
      BY <2>1, StatusMakes
    <3> QED
      BY <1>1, <2>1, <3>1 DEF Answered, PAGE_404, NoSize
  <2> QED
    BY <1>1, <2>1
<1>7. IsResponse(response_')
  BY <1>1, <1>2, StatusMakes DEF Typed
<1>8. Outcome'
  <2>1. CASE Found = NoLocation
    BY <1>3, <1>6, <2>1 DEF Outcome
  <2>2. CASE FileLocation /\ IsFile /\ (changes = 0 => Size(Path) = NoSize)
    <3>1. ~WrongVersion
      BY <2>2 DEF IsFile
    <3>2. changes' = 0 => Size(Path)' = NoSize
      BY <1>1, <1>5, <2>2
    <3> QED
      BY <1>3, <1>6, <2>2, <3>1, <3>2 DEF Outcome
  <2> QED
    BY <1>4, <2>1, <2>2
<1>9. PhaseInv'
  BY <1>1, <1>8 DEF PhaseInv
<1>10. Typed'
  BY <1>1, <1>2, <1>7 DEF Typed, Stages
<1>11. SentInv'
  BY <1>1, <1>2, SentStays
<1>12. ReplyInv'
  BY <1>1, <1>2, <1>4, RepliedStays
<1> QED
  BY <1>9, <1>10, <1>11, <1>12 DEF ExchangeInv

(* No length of a body is found: its name is looked up as no table has it. *)
LEMMA NoLength ==
    ASSUME NEW headers, LowerKeys(headers)
    PROVE  stoul_throws(headers)
BY LinesAssumption DEF LowerKeys, stoul_throws

LEMMA PassToProxyKeeps ==
    ASSUME ExchangeInv, PassToProxy
    PROVE  ExchangeInv'
<1> DEFINE isGET == request_.method = <<"GET">>
<1>1. /\ pc = "connect_to_upstream"
      /\ \/ stage' = "FAILED_TO_CONNECT" /\ pc' = "done"
         \/ isGET /\ stage' = "GET_RESPONSE_FROM_PROXY" /\ pc' = "get_proxy_header"
         \/ /\ ~isGET /\ pc' = "done"
            /\ stage' = IF stoul_throws(request_.headers) THEN "uncaught"
                        ELSE "GET_BODY_FROM_CLIENT"
      /\ UNCHANGED <<server, files, line_, upstream_buffer, request_, response_, location_,
                     file_fd, sent, replied, changes>>
  BY DEF PassToProxy
<1>2. Typed /\ SentInv /\ PhaseInv /\ ReplyInv
  BY DEF ExchangeInv
<1>3. Found' # NoLocation /\ IsProxied' /\ (isGET <=> isGET')
  BY <1>1, <1>2, SameRequest DEF PhaseInv
<1>4. \/ stage' = "FAILED_TO_CONNECT" /\ pc' = "done"
      \/ isGET /\ stage' = "GET_RESPONSE_FROM_PROXY" /\ pc' = "get_proxy_header"
      \/ ~isGET /\ stage' = "uncaught" /\ pc' = "done"
  BY <1>1, <1>2, NoLength DEF Typed, IsRequest
<1>5. PhaseInv'
  <2>1. pc' = "done" => ProxyOutcome'
    BY <1>3, <1>4 DEF ProxyOutcome
  <2>2. pc' = "done" => Outcome'
    BY <1>3, <2>1 DEF Outcome
  <2> QED
    BY <1>3, <1>4, <2>2 DEF PhaseInv
<1>6. Typed'
  BY <1>1, <1>2, <1>4 DEF Typed, Stages
<1>7. SentInv'
  BY <1>1, <1>2, <1>4, SentStays
<1>8. ReplyInv'
  <2>1. replied = <<>> /\ response_ = NewResponse /\ ~upstream_buffer
    BY <1>1, <1>2 DEF ReplyInv
  <2>2. replied' = <<>> /\ response_' = NewResponse /\ ~upstream_buffer' /\ Len(replied') = 0
        /\ replied' \in Seq(Replies)
    BY <1>1, <2>1
  <2>3. ~ReplyBegun' /\ ~OrderlyReply'
    BY <2>2 DEF ReplyBegun, OrderlyReply
  <2> QED
    BY <1>4, <2>2, <2>3 DEF ReplyInv
<1> QED
  BY <1>5, <1>6, <1>7, <1>8 DEF ExchangeInv

LEMMA EndOfReplyKeeps ==
    ASSUME ExchangeInv, EndOfReply
    PROVE  ExchangeInv'
<1>1. /\ pc = "get_proxy_header" /\ pc' = "done"
      /\ \/ response_.ended /\ PassReply(response_)
         \/ stage' = "ERROR_STAGE"
         \/ stage' = stage
      /\ UNCHANGED <<server, files, line_, upstream_buffer, request_, response_, location_,
                     file_fd, sent, replied, changes>>
  BY DEF EndOfReply, PassReply
<1>2. Typed /\ SentInv /\ PhaseInv /\ ReplyInv
  BY DEF ExchangeInv
<1>3. /\ Found' # NoLocation /\ IsProxied' /\ request_'.method = <<"GET">>
      /\ stage = "GET_RESPONSE_FROM_PROXY"
  BY <1>1, <1>2, SameRequest DEF PhaseInv
<1>4. \/ stage' = "uncaught" /\ replied' # <<>>
      \/ stage' \in {"ERROR_STAGE", "GET_RESPONSE_FROM_PROXY"}
  <2>1. CASE response_.ended /\ PassReply(response_)
    <3>1. stage' = "uncaught"
      BY <1>2, <2>1, NoLength DEF PassReply, Typed, IsResponse
    <3>2. Len(replied) # 0
      BY <1>1, <1>2, <2>1, NewResponses DEF ReplyInv
    <3> QED
      BY <1>1, <3>1, <3>2
  <2> QED
    BY <1>1, <1>3, <2>1
<1>5. PhaseInv'
  <2>1. ProxyOutcome'
    BY <1>3, <1>4 DEF ProxyOutcome
  <2>2. Outcome'
    BY <1>3, <2>1 DEF Outcome
  <2> QED
    BY <1>1, <1>4, <2>2 DEF PhaseInv
<1>6. Typed'
  BY <1>1, <1>2, <1>4 DEF Typed, Stages
<1>7. SentInv'
  BY <1>1, <1>2, SentStays
<1>8. ReplyInv'
  BY <1>1, <1>2, RepliedStays
<1> QED
  BY <1>5, <1>6, <1>7, <1>8 DEF ExchangeInv

LEMMA ChangeFileKeeps ==
    ASSUME ExchangeInv, ChangeFile
    PROVE  ExchangeInv'
<1>1. /\ pc \in {"header", "open"} /\ changes' = changes + 1 /\ files' \in FileSystems
      /\ UNCHANGED <<server, stage, pc, line_, upstream_buffer, request_, response_, location_,
                     file_fd, sent, replied>>
  BY DEF ChangeFile
<1>2. Typed /\ SentInv /\ PhaseInv /\ ReplyInv
  BY DEF ExchangeInv
<1>3. changes' \in Nat /\ changes' # 0
  BY <1>1, <1>2 DEF Typed
<1>4. (FileLocation' <=> FileLocation) /\ (IsFile' <=> IsFile)
  BY <1>1, SameRequest
<1>5. HeaderMade => HeaderMade'
  BY <1>1, <1>3 DEF HeaderMade
<1>6. PhaseInv'
  BY <1>1, <1>2, <1>4, <1>5 DEF PhaseInv
<1>7. Typed'
  BY <1>1, <1>2, <1>3 DEF Typed
<1>8. SentInv'
  BY <1>1, <1>2, SentStays
<1>9. ReplyInv'
  BY <1>1, <1>2, RepliedStays DEF ReplyInv
<1> QED
  BY <1>6, <1>7, <1>8, <1>9 DEF ExchangeInv

(* One line more.                                                          *)
LEMMA LinesGrow ==
    ASSUME NEW L, NEW lines \in Seq(L), NEW line \in L
    PROVE  LET n == Len(lines)
               after == Append(lines, line)
           IN  /\ n \in Nat /\ after \in Seq(L) /\ Len(after) = n + 1
               /\ DOMAIN after = 1 .. n + 1 /\ DOMAIN lines = 1 .. n
               /\ after[n + 1] = line /\ \A i \in 1 .. n : after[i] = lines[i]
               /\ HeadersOnly(after) =>
                    HeadersOnly(lines) /\ (n > 0 => line.t = "header")
<1> DEFINE n == Len(lines)
           after == Append(lines, line)
<1>1. /\ n \in Nat /\ after \in Seq(L) /\ Len(after) = n + 1
      /\ DOMAIN after = 1 .. n + 1 /\ DOMAIN lines = 1 .. n
      /\ after[n + 1] = line /\ \A i \in 1 .. n : after[i] = lines[i]
  OBVIOUS
<1> HIDE DEF n, after
<1>2. ASSUME HeadersOnly(after) PROVE HeadersOnly(lines) /\ (n > 0 => line.t = "header")
  <2>1. \A i \in 2 .. n + 1 : after[i].t = "header"
    BY <1>1, <1>2 DEF HeadersOnly
  <2>2. \A i \in 2 .. n : i \in 2 .. n + 1 /\ after[i] = lines[i]
    BY <1>1
  <2>3. \A i \in 2 .. n : lines[i].t = "header"
    BY <2>1, <2>2
  <2>4. n > 0 => n + 1 \in 2 .. n + 1
    BY <1>1
  <2> QED
    BY <1>1, <2>1, <2>3, <2>4 DEF HeadersOnly, n
<1> QED
  BY <1>1, <1>2 DEF n, after

(* A head is orderly up to the last line if it was begun and only headers  *)
(* followed; the heads before it stay.                                     *)
LEMMA HeadsGrow ==
    ASSUME sent \in Seq(Lines), NEW line \in Lines, sent' = Append(sent, line)
    PROVE  LET n == Len(sent)
           IN  /\ sent' \in Seq(Lines) /\ Len(sent') = n + 1 /\ n \in Nat
               /\ \A k \in DOMAIN sent' : OrderlyHead(k)' =>
                    \/ k \in DOMAIN sent /\ k < n + 1 /\ OrderlyHead(k)
                    \/ /\ k = n + 1 /\ n > 0 /\ RequestBegun /\ HeadersOnly(sent)
                       /\ line.t \in {"blank", "short"}
               /\ n = 0 => sent'[1] = line
               /\ n > 0 => sent'[1] = sent[1] /\ (RequestBegun' <=> RequestBegun)
               /\ RequestBegun' /\ HeadersOnly(sent') =>
                    \/ n = 0 /\ line.t = "request"
                    \/ n > 0 /\ RequestBegun /\ HeadersOnly(sent) /\ line.t = "header"
<1> DEFINE n == Len(sent)
<1>1. /\ n \in Nat /\ sent' \in Seq(Lines) /\ Len(sent') = n + 1
      /\ DOMAIN sent' = 1 .. n + 1 /\ DOMAIN sent = 1 .. n
      /\ sent'[n + 1] = line /\ \A i \in 1 .. n : sent'[i] = sent[i]
      /\ HeadersOnly(sent') => HeadersOnly(sent) /\ (n > 0 => line.t = "header")
  BY LinesGrow
<1> HIDE DEF n
<1>2. ASSUME NEW k \in DOMAIN sent', OrderlyHead(k)'
      PROVE  \/ k \in DOMAIN sent /\ k < n + 1 /\ OrderlyHead(k)
             \/ /\ k = n + 1 /\ n > 0 /\ RequestBegun /\ HeadersOnly(sent)
                /\ line.t \in {"blank", "short"}
  <2>1. /\ k > 1 /\ sent'[1].t = "request"
        /\ \A i \in 2 .. k - 1 : sent'[i].t = "header"
        /\ sent'[k].t \in {"blank", "short"}
    BY <1>2 DEF OrderlyHead
  <2>2. CASE k \in 1 .. n
    <3>1. \A i \in 1 .. k : sent'[i] = sent[i]
      BY <1>1, <2>2
    <3>2. 1 \in 1 .. k /\ k \in 1 .. k /\ 2 .. k - 1 \subseteq 1 .. k
      BY <1>1, <2>1, <2>2
    <3>3. OrderlyHead(k)
      BY <2>1, <3>1, <3>2 DEF OrderlyHead
    <3> QED
      BY <1>1, <2>2, <3>3
  <2>3. CASE k = n + 1
    <3>1. n > 0 /\ 1 \in 1 .. n /\ k - 1 = n
      BY <1>1, <2>1, <2>3
    <3>2. \A i \in 2 .. n : sent[i].t = "header"
      BY <1>1, <2>1, <3>1
    <3> QED
      BY <1>1, <2>1, <2>3, <3>1, <3>2 DEF RequestBegun, HeadersOnly, n
  <2> QED
    BY <1>1, <2>2, <2>3
<1>4. n = 0 => sent'[1] = line
  BY <1>1
<1>5. n > 0 => sent'[1] = sent[1] /\ (RequestBegun' <=> RequestBegun)
  <2>1. n > 0 => 1 \in 1 .. n /\ n + 1 > 0
    BY <1>1
  <2> QED
    BY <1>1, <2>1 DEF RequestBegun, n
<1>6. ASSUME RequestBegun', HeadersOnly(sent')
      PROVE  \/ n = 0 /\ line.t = "request"
             \/ n > 0 /\ RequestBegun /\ HeadersOnly(sent) /\ line.t = "header"
  <2>1. CASE n = 0
    BY <1>4, <1>6, <2>1 DEF RequestBegun
  <2>2. CASE n > 0
    BY <1>1, <1>5, <1>6, <2>2
  <2> QED
    BY <1>1, <2>1, <2>2
<1> QED
  BY <1>1, <1>2, <1>4, <1>5, <1>6 DEF n

(* The headers of a request are still passed on when a line follows it.    *)
LEMMA PassedGrows ==
    ASSUME sent \in Seq(Lines), NEW line \in Lines, sent' = Append(sent, line),
           NEW k \in DOMAIN sent, HeadersPassed(k),
           \/ request_'.headers = request_.headers
           \/ /\ line.t = "header"
              /\ request_'.headers = Put(request_.headers, string_to_lower(line.name),
                                         string_to_lower(line.value))
    PROVE  HeadersPassed(k)'
<1> DEFINE n == Len(sent)
           own == HeadersSent(SubSeq(sent, 2, k - 1), string_to_lower)
           key == string_to_lower(line.name)
           value == string_to_lower(line.value)
           old == request_.headers
           new == request_'.headers
<1>1. /\ n \in Nat /\ k \in 1 .. n /\ Len(sent') = n + 1
      /\ sent'[n + 1] = line /\ \A i \in 1 .. n : sent'[i] = sent[i]
  OBVIOUS
<1>2. HeadersSent(SubSeq(sent', 2, k - 1), string_to_lower) = own
  <2>1. SubSeq(sent', 2, k - 1) = SubSeq(sent, 2, k - 1)
    OBVIOUS
  <2> QED
    BY <2>1
<1>3. /\ DOMAIN own \subseteq DOMAIN old
      /\ \A name \in DOMAIN old :
           \/ name \in DOMAIN own /\ old[name] = own[name]
           \/ \E i \in k + 1 .. n :
                /\ sent[i].t = "header" /\ string_to_lower(sent[i].name) = name
                /\ old[name] = string_to_lower(sent[i].value)
  BY DEF HeadersPassed
<1>4. \/ new = old
      \/ line.t = "header" /\ new = Put(old, key, value)
  OBVIOUS
<1>5. \A i \in k + 1 .. n : i \in 1 .. n /\ i \in k + 1 .. n + 1
  BY <1>1
<1>6. n + 1 \in k + 1 .. n + 1
  BY <1>1
<1> HIDE DEF n, own, old, new
<1>7. DOMAIN old \subseteq DOMAIN new
  <2> HIDE DEF key, value
  <2>1. DOMAIN Put(old, key, value) = {key} \cup DOMAIN old
    BY PutIs
  <2> QED
    BY <1>4, <2>1
<1>8. ASSUME NEW name \in DOMAIN new
      PROVE  \/ name \in DOMAIN own /\ new[name] = own[name]
             \/ \E i \in k + 1 .. n + 1 :
                  /\ sent'[i].t = "header" /\ string_to_lower(sent'[i].name) = name
                  /\ new[name] = string_to_lower(sent'[i].value)
  <2>1. CASE name \in DOMAIN old /\ new[name] = old[name]
    BY <1>1, <1>3, <1>5, <2>1
  <2>2. CASE line.t = "header" /\ name = key /\ new[name] = value
    BY <1>1, <1>6, <2>2
  <2>3. \/ name \in DOMAIN old /\ new[name] = old[name]
        \/ line.t = "header" /\ name = key /\ new[name] = value
    <3> HIDE DEF key, value
    <3> QED
      BY <1>4 DEF Put
  <2> QED
    BY <2>1, <2>2, <2>3
<1>9. DOMAIN own \subseteq DOMAIN new
  BY <1>3, <1>7
<1> QED
  BY <1>1, <1>2, <1>8, <1>9 DEF HeadersPassed, new

(* The request is what the lines say, with the line that was added.        *)
LEMMA SentGrows ==
    ASSUME SentInv, pc = "get_request", IsRequest(request_), line_ \in BOOLEAN,
           NEW line \in Lines, sent' = Append(sent, line), NEW a,
           RequestLineMakes(request_, line, line_, a),
           request_' = a.message, line_' = FALSE
    PROVE  SentInv'
<1> DEFINE n == Len(sent)
<1>1. /\ sent' \in Seq(Lines) /\ Len(sent') = n + 1 /\ n \in Nat
      /\ \A k \in DOMAIN sent' : OrderlyHead(k)' =>
           \/ k \in DOMAIN sent /\ k < n + 1 /\ OrderlyHead(k)
           \/ /\ k = n + 1 /\ n > 0 /\ RequestBegun /\ HeadersOnly(sent)
              /\ line.t \in {"blank", "short"}
      /\ n = 0 => sent'[1] = line
      /\ n > 0 => sent'[1] = sent[1] /\ (RequestBegun' <=> RequestBegun)
      /\ RequestBegun' /\ HeadersOnly(sent') =>
           \/ n = 0 /\ line.t = "request"
           \/ n > 0 /\ RequestBegun /\ HeadersOnly(sent) /\ line.t = "header"
  BY HeadsGrow DEF SentInv
<1>2. n = 0 => /\ ~request_.first_line_added /\ ~request_.headers_read /\ ~request_.ended
               /\ request_.headers = <<>> /\ ~line_
  BY DEF SentInv
<1>3. n > 0 /\ RequestBegun =>
        /\ request_.first_line_added /\ request_.method = <<sent[1].method>>
        /\ request_.url = sent[1].url /\ request_.version = sent[1].version
  BY DEF SentInv
<1>4. n > 0 /\ RequestBegun /\ HeadersOnly(sent) =>
        /\ ~line_ /\ ~request_.headers_read /\ ~request_.ended
        /\ request_.headers = HeadersSent(SubSeq(sent, 2, n), string_to_lower)
  BY DEF SentInv
<1>5. n > 0 => /\ HeadersSent(SubSeq(sent', 2, n + 1), string_to_lower) =
                    Put(HeadersSent(SubSeq(sent, 2, n), string_to_lower),
                        string_to_lower(line.name), string_to_lower(line.value))
               /\ SubSeq(sent', 2, n) = SubSeq(sent, 2, n)
  BY HeadersGrow DEF SentInv
<1>6. n = 0 => HeadersSent(SubSeq(sent', 2, n + 1), string_to_lower) = <<>>
  <2>1. n = 0 => Len(sent') = 1 /\ n + 1 = 1
    BY <1>1
  <2> HIDE DEF n
  <2> QED
    BY <1>1, <2>1, NoHeaders
<1>7. ASSUME RequestBegun'
      PROVE  /\ request_'.first_line_added
             /\ request_'.method = <<sent'[1].method>>
             /\ request_'.url = sent'[1].url /\ request_'.version = sent'[1].version
  <2>1. CASE n = 0
    <3>1. line.t = "request"
      BY <1>1, <1>7, <2>1 DEF RequestBegun
    <3> QED
      BY <1>1, <1>2, <2>1, <3>1 DEF RequestLineMakes
  <2>2. CASE n > 0
    BY <1>1, <1>3, <1>7, <2>2 DEF RequestLineMakes
  <2> QED
    BY <1>1, <2>1, <2>2
<1>8. ASSUME RequestBegun', HeadersOnly(sent')
      PROVE  /\ ~line_' /\ ~request_'.headers_read /\ ~request_'.ended
             /\ request_'.headers = HeadersSent(SubSeq(sent', 2, n + 1), string_to_lower)
  <2>1. CASE n = 0 /\ line.t = "request"
    BY <1>2, <1>6, <2>1 DEF RequestLineMakes
  <2>2. CASE n > 0 /\ RequestBegun /\ HeadersOnly(sent) /\ line.t = "header"
    BY <1>3, <1>4, <1>5, <2>2 DEF RequestLineMakes
  <2> QED
    BY <1>1, <1>8, <2>1, <2>2
<1>9. ASSUME NEW k \in DOMAIN sent', OrderlyHead(k)'
      PROVE  request_'.ended /\ HeadersPassed(k)'
  <2>1. CASE /\ k = n + 1 /\ n > 0 /\ RequestBegun /\ HeadersOnly(sent)
             /\ line.t \in {"blank", "short"}
    <3>1. k - 1 = n
      BY <1>1, <2>1
    <3>2. request_'.ended /\ request_'.headers = request_.headers
      BY <1>4, <2>1 DEF RequestLineMakes
    <3>3. request_'.headers = HeadersSent(SubSeq(sent', 2, k - 1), string_to_lower)
      BY <1>4, <1>5, <2>1, <3>1, <3>2
    <3> QED
      BY <3>2, <3>3 DEF HeadersPassed
  <2>2. CASE k \in DOMAIN sent /\ k < n + 1 /\ OrderlyHead(k)
    <3>1. request_.ended /\ HeadersPassed(k) /\ sent \in Seq(Lines)
      BY <2>2 DEF SentInv
    <3>2. \/ request_'.headers = request_.headers
          \/ /\ line.t = "header"
             /\ request_'.headers = Put(request_.headers, string_to_lower(line.name),
                                        string_to_lower(line.value))
      BY DEF RequestLineMakes
    <3>3. HeadersPassed(k)'
      BY <2>2, <3>1, <3>2, PassedGrows
    <3> QED
      BY <3>1, <3>3 DEF RequestLineMakes
  <2> QED
    BY <1>1, <1>9, <2>1, <2>2
<1>10. Len(sent') = n + 1 /\ Len(sent') # 0
  BY <1>1
<1> HIDE DEF n
<1> QED
  BY <1>1, <1>7, <1>8, <1>9, <1>10 DEF SentInv

(* A line that is "\n" alone is kept.                                      *)
LEMMA LoneIsSent ==
    ASSUME SentInv, NEW line \in Lines, line.t = "lone", sent' = Append(sent, line),
           UNCHANGED request_
    PROVE  SentInv'
<1> DEFINE n == Len(sent)
<1>1. /\ sent' \in Seq(Lines) /\ Len(sent') = n + 1 /\ n \in Nat
      /\ \A k \in DOMAIN sent' : OrderlyHead(k)' =>
           k \in DOMAIN sent /\ k < n + 1 /\ OrderlyHead(k)
      /\ n = 0 => sent'[1] = line
      /\ n > 0 => sent'[1] = sent[1] /\ (RequestBegun' <=> RequestBegun)
      /\ ~(RequestBegun' /\ HeadersOnly(sent'))
  BY HeadsGrow DEF SentInv
<1>2. n > 0 /\ RequestBegun =>
        /\ request_.first_line_added /\ request_.method = <<sent[1].method>>
        /\ request_.url = sent[1].url /\ request_.version = sent[1].version
  BY DEF SentInv
<1>3. RequestBegun' => n > 0 /\ RequestBegun
  <2>1. n = 0 => ~RequestBegun'
    BY <1>1 DEF RequestBegun
  <2> QED
    BY <1>1, <2>1
<1>4. ASSUME NEW k \in DOMAIN sent', OrderlyHead(k)'
      PROVE  request_'.ended /\ HeadersPassed(k)'
  <2>1. k \in DOMAIN sent /\ OrderlyHead(k)
    BY <1>1, <1>4
  <2>2. request_.ended /\ HeadersPassed(k) /\ sent \in Seq(Lines)
    BY <2>1 DEF SentInv
  <2>3. request_'.headers = request_.headers
    OBVIOUS
  <2>4. HeadersPassed(k)'
    BY <2>1, <2>2, <2>3, PassedGrows
  <2> QED
    BY <2>2, <2>4
<1>5. Len(sent') = n + 1 /\ Len(sent') # 0
  BY <1>1
<1> HIDE DEF n
<1> QED
  BY <1>1, <1>2, <1>3, <1>4, <1>5 DEF SentInv

(* A head that has just become orderly did not throw.                      *)
LEMMA NoHeadThrows ==
    ASSUME SentInv, pc = "get_request", NEW line \in Lines, sent' = Append(sent, line),
           NEW a, RequestLineMakes(request_, line, line_, a), a.throws
    PROVE  \A k \in DOMAIN sent' : OrderlyHead(k)' => k < Len(sent')
<1> SUFFICES ASSUME NEW k \in DOMAIN sent', OrderlyHead(k)'
             PROVE  k < Len(sent')
  OBVIOUS
<1>1. /\ Len(sent') = Len(sent) + 1
      /\ \/ k \in DOMAIN sent /\ k < Len(sent) + 1 /\ OrderlyHead(k)
         \/ /\ k = Len(sent) + 1 /\ Len(sent) > 0 /\ RequestBegun /\ HeadersOnly(sent)
            /\ line.t \in {"blank", "short"}
  BY HeadsGrow DEF SentInv
<1>2. RequestBegun /\ HeadersOnly(sent) => ~line_
  BY DEF SentInv
<1>3. ~(RequestBegun /\ HeadersOnly(sent) /\ line.t \in {"blank", "short"})
  BY <1>2 DEF RequestLineMakes
<1> QED
  BY <1>1, <1>3

LEMMA ReadLineKeeps ==
    ASSUME ExchangeInv, ReadLine
    PROVE  ExchangeInv'
<1>1. PICK line \in Lines :
        /\ sent' = Append(sent, line)
        /\ \/ /\ line.t = "lone" /\ ~line_
              /\ line_' = TRUE
              /\ UNCHANGED <<stage, pc, request_, location_>>
           \/ /\ line_' = FALSE
              /\ LET r == request_add_line(request_, line, line_)
                 IN  /\ request_' = r.message
                     /\ \/ ~r.throws /\ UNCHANGED <<stage, pc, location_>>
                        \/ r.throws /\ Stay("BAD_REQUEST")
                        \/ r.throws /\ process_location(r.message.url)
  BY DEF ReadLine
<1>2. pc = "get_request" /\ UNCHANGED <<server, files, upstream_buffer, response_, file_fd, replied, changes>>
  BY DEF ReadLine
<1>3. Typed /\ SentInv /\ PhaseInv /\ ReplyInv
  BY DEF ExchangeInv
<1>4. /\ replied = <<>> /\ response_ = NewResponse /\ ~upstream_buffer
      /\ stage # "SEND_HTTP_HEADER_RESPONSE"
  BY <1>2, <1>3 DEF ReplyInv, PhaseInv
<1>5. IsRequest(request_) /\ line_ \in BOOLEAN
  BY <1>3 DEF Typed
<1>6. CASE /\ line.t = "lone" /\ ~line_
           /\ line_' = TRUE
           /\ UNCHANGED <<stage, pc, request_, location_>>
  <2>1. Typed'
    BY <1>2, <1>3, <1>6 DEF Typed
  <2>2. SentInv'
    BY <1>1, <1>3, <1>6, LoneIsSent
  <2>3. PhaseInv'
    BY <1>2, <1>4, <1>6 DEF PhaseInv
  <2>4. ReplyInv'
    BY <1>2, <1>3, <1>4, <1>6, RepliedStays
  <2> QED
    BY <2>1, <2>2, <2>3, <2>4 DEF ExchangeInv
<1>7. CASE /\ line_' = FALSE
           /\ LET r == request_add_line(request_, line, line_)
              IN  /\ request_' = r.message
                  /\ \/ ~r.throws /\ UNCHANGED <<stage, pc, location_>>
                     \/ r.throws /\ Stay("BAD_REQUEST")
                     \/ r.throws /\ process_location(r.message.url)
  <2> DEFINE a == request_add_line(request_, line, line_)
  <2>1. RequestLineMakes(request_, line, line_, a)
    BY <1>5, RequestLineIs
  <2>2. /\ line_' = FALSE /\ request_' = a.message
        /\ \/ ~a.throws /\ UNCHANGED <<stage, pc, location_>>
           \/ a.throws /\ stage' = "BAD_REQUEST" /\ pc' = "done" /\ UNCHANGED location_
           \/ process_location(a.message.url)
    BY <1>7 DEF Stay
  <2> HIDE DEF a
  <2>3. IsRequest(a.message) /\ a.message.url \in Seq(STRING)
    BY <2>1 DEF RequestLineMakes, IsRequest
  <2>4. SentInv'
    BY <1>1, <1>2, <1>3, <1>5, <2>1, <2>2, SentGrows
  <2>5. /\ location_'.type \in location_type_t \cup {"none"} /\ stage' \in Stages
        /\ pc' \in {"get_request", "header", "page", "connect_to_upstream", "done"}
        /\ PhaseInv'
    <3>1. CASE ~a.throws /\ UNCHANGED <<stage, pc, location_>>
      <4>1. PhaseInv'
        BY <1>2, <1>4, <3>1 DEF PhaseInv
      <4> QED
        BY <1>2, <1>3, <3>1, <4>1 DEF Typed
    <3>2. CASE a.throws /\ stage' = "BAD_REQUEST" /\ pc' = "done" /\ UNCHANGED location_
      <4>1. Outcome'
        BY <1>1, <1>2, <1>3, <2>1, <3>2, NoHeadThrows DEF Outcome
      <4>2. PhaseInv'
        BY <3>2, <4>1 DEF PhaseInv
      <4> QED
        BY <1>3, <3>2, <4>2 DEF Typed, Stages
    <3>3. CASE process_location(a.message.url)
      BY <1>2, <1>3, <2>2, <2>3, <3>3, LocatedPhase
    <3> QED
      BY <2>2, <3>1, <3>2, <3>3
  <2>6. Typed'
    BY <1>2, <1>3, <2>2, <2>3, <2>5 DEF Typed
  <2>7. ReplyInv'
    BY <1>2, <1>3, <1>4, <2>5, RepliedStays
  <2> QED
    BY <2>4, <2>5, <2>6, <2>7 DEF ExchangeInv
<1> QED
  BY <1>1, <1>6, <1>7

(* One line more of a reply.                                               *)
LEMMA RepliesGrow ==
    ASSUME replied \in Seq(Replies), NEW line \in Replies, replied' = Append(replied, line)
    PROVE  LET n == Len(replied)
           IN  /\ replied' \in Seq(Replies) /\ Len(replied') = n + 1 /\ n \in Nat
               /\ n = 0 => replied'[1] = line
               /\ n > 0 => replied'[1] = replied[1] /\ (ReplyBegun' <=> ReplyBegun)
               /\ ReplyBegun' /\ HeadersOnly(replied') =>
                    \/ n = 0 /\ line.t = "status"
                    \/ n > 0 /\ ReplyBegun /\ HeadersOnly(replied) /\ line.t = "header"
               /\ OrderlyReply' =>
                    n > 0 /\ ReplyBegun /\ HeadersOnly(replied) /\ line.t = "blank"
<1> DEFINE n == Len(replied)
<1>1. /\ n \in Nat /\ replied' \in Seq(Replies) /\ Len(replied') = n + 1
      /\ replied'[n + 1] = line /\ \A i \in 1 .. n : replied'[i] = replied[i]
      /\ HeadersOnly(replied') => HeadersOnly(replied) /\ (n > 0 => line.t = "header")
  BY LinesGrow
<1> HIDE DEF n
<1>2. n = 0 => replied'[1] = line
  BY <1>1
<1>3. n > 0 => replied'[1] = replied[1] /\ (ReplyBegun' <=> ReplyBegun)
  <2>1. n > 0 => 1 \in 1 .. n /\ n + 1 > 0
    BY <1>1
  <2> QED
    BY <1>1, <2>1 DEF ReplyBegun, n
<1>4. ASSUME ReplyBegun', HeadersOnly(replied')
      PROVE  \/ n = 0 /\ line.t = "status"
             \/ n > 0 /\ ReplyBegun /\ HeadersOnly(replied) /\ line.t = "header"
  <2>1. CASE n = 0
    BY <1>2, <1>4, <2>1 DEF ReplyBegun
  <2>2. CASE n > 0
    BY <1>1, <1>3, <1>4, <2>2
  <2> QED
    BY <1>1, <2>1, <2>2
<1>5. ASSUME OrderlyReply'
      PROVE  n > 0 /\ ReplyBegun /\ HeadersOnly(replied) /\ line.t = "blank"
  <2>1. /\ n + 1 > 1 /\ replied'[1].t = "status" /\ replied'[n + 1].t = "blank"
        /\ \A i \in 2 .. n + 1 - 1 : replied'[i].t = "header"
    BY <1>1, <1>5 DEF OrderlyReply
  <2>2. n > 0 /\ 1 \in 1 .. n /\ n + 1 - 1 = n
    BY <1>1, <2>1
  <2>3. \A i \in 2 .. n : replied[i].t = "header"
    BY <1>1, <2>1, <2>2
  <2> QED
    BY <1>1, <2>1, <2>2, <2>3 DEF ReplyBegun, HeadersOnly, n
<1> QED
  BY <1>1, <1>2, <1>3, <1>4, <1>5 DEF n

(* The response is what the lines say, with the line that was added.       *)
LEMMA ReplyGrows ==
    ASSUME ReplyInv, pc = "get_proxy_header", pc' \in {"get_proxy_header", "done"},
           upstream_buffer \in BOOLEAN, NEW line \in Replies, replied' = Append(replied, line),
           NEW a, ResponseLineMakes(response_, line, upstream_buffer, a),
           pc' = "get_proxy_header" => ~a.throws,
           response_' = a.message, upstream_buffer' = FALSE
    PROVE  ReplyInv'
<1> DEFINE n == Len(replied)
<1>1. /\ replied' \in Seq(Replies) /\ Len(replied') = n + 1 /\ n \in Nat
      /\ n = 0 => replied'[1] = line
      /\ n > 0 => replied'[1] = replied[1] /\ (ReplyBegun' <=> ReplyBegun)
      /\ ReplyBegun' /\ HeadersOnly(replied') =>
           \/ n = 0 /\ line.t = "status"
           \/ n > 0 /\ ReplyBegun /\ HeadersOnly(replied) /\ line.t = "header"
      /\ OrderlyReply' =>
           n > 0 /\ ReplyBegun /\ HeadersOnly(replied) /\ line.t = "blank"
  BY RepliesGrow DEF ReplyInv
<1>2. n = 0 => /\ response_.first_line_added = FALSE /\ response_.headers_read = FALSE
               /\ response_.ended = FALSE /\ response_.headers = <<>> /\ ~upstream_buffer
  <2>1. n = 0 => response_ = NewResponse /\ ~upstream_buffer
    BY DEF ReplyInv
  <2>2. /\ NewResponse.first_line_added = FALSE /\ NewResponse.headers_read = FALSE
        /\ NewResponse.ended = FALSE /\ NewResponse.headers = <<>>
    BY DEF NewResponse
  <2> HIDE DEF n
  <2> QED
    BY <2>1, <2>2
<1>3. n > 0 /\ ReplyBegun =>
        response_.first_line_added /\ response_.status = replied[1].status
  BY DEF ReplyInv
<1>4. n > 0 /\ ReplyBegun /\ HeadersOnly(replied) =>
        /\ ~upstream_buffer /\ ~response_.headers_read /\ ~response_.ended
        /\ response_.headers = HeadersSent(SubSeq(replied, 2, n), AsItIs)
  BY DEF ReplyInv
<1>5. n > 0 => /\ HeadersSent(SubSeq(replied', 2, n + 1), AsItIs) =
                    Put(HeadersSent(SubSeq(replied, 2, n), AsItIs),
                        string_to_lower(line.name), line.value)
               /\ SubSeq(replied', 2, n) = SubSeq(replied, 2, n)
  BY HeadersGrow DEF ReplyInv
<1>6. n = 0 => HeadersSent(SubSeq(replied', 2, n + 1), AsItIs) = <<>>
  <2>1. n = 0 => Len(replied') = 1 /\ n + 1 = 1
    BY <1>1
  <2> HIDE DEF n
  <2> QED
    BY <1>1, <2>1, NoHeaders
<1>7. ASSUME pc' = "get_proxy_header", ReplyBegun'
      PROVE  response_'.first_line_added /\ response_'.status = replied'[1].status
  <2>1. CASE n = 0
    <3>1. line.t = "status"
      BY <1>1, <1>7, <2>1 DEF ReplyBegun
    <3> QED
      BY <1>1, <1>2, <1>7, <2>1, <3>1 DEF ResponseLineMakes
  <2>2. CASE n > 0
    BY <1>1, <1>3, <1>7, <2>2 DEF ResponseLineMakes
  <2> QED
    BY <1>1, <2>1, <2>2
<1>8. ASSUME pc' = "get_proxy_header", ReplyBegun', HeadersOnly(replied')
      PROVE  /\ ~upstream_buffer' /\ ~response_'.headers_read /\ ~response_'.ended
             /\ response_'.headers = HeadersSent(SubSeq(replied', 2, n + 1), AsItIs)
  <2>1. CASE n = 0 /\ line.t = "status"
    BY <1>2, <1>6, <1>8, <2>1 DEF ResponseLineMakes
  <2>2. CASE n > 0 /\ ReplyBegun /\ HeadersOnly(replied) /\ line.t = "header"
    BY <1>3, <1>4, <1>5, <2>2 DEF ResponseLineMakes
  <2> QED
    BY <1>1, <1>8, <2>1, <2>2
<1>9. ASSUME OrderlyReply'
      PROVE  /\ response_'.ended /\ response_'.status = replied'[1].status
             /\ response_'.headers = HeadersSent(SubSeq(replied', 2, Len(replied') - 1), AsItIs)
  <2>1. n > 0 /\ ReplyBegun /\ HeadersOnly(replied) /\ line.t = "blank"
    BY <1>1, <1>9
  <2>2. response_'.ended /\ response_'.headers = response_.headers
        /\ response_'.status = response_.status
    BY <1>3, <1>4, <2>1 DEF ResponseLineMakes
  <2>3. Len(replied') - 1 = n
    BY <1>1
  <2> HIDE DEF n
  <2>4. HeadersSent(SubSeq(replied', 2, Len(replied') - 1), AsItIs) =
          HeadersSent(SubSeq(replied, 2, n), AsItIs)
    BY <1>5, <2>1, <2>3
  <2> QED
    BY <1>1, <1>3, <1>4, <2>1, <2>2, <2>4
<1>10. Len(replied') = n + 1 /\ Len(replied') # 0
  BY <1>1
<1> HIDE DEF n
<1> QED
  BY <1>1, <1>7, <1>8, <1>9, <1>10 DEF ReplyInv

(* A line that is "\n" alone is kept.                                      *)
LEMMA LoneIsReplied ==
    ASSUME ReplyInv, pc = "get_proxy_header", NEW line \in Replies, line.t = "lone",
           replied' = Append(replied, line), UNCHANGED <<pc, response_>>
    PROVE  ReplyInv'
<1>1. /\ replied' \in Seq(Replies) /\ Len(replied') # 0
      /\ ReplyBegun' => ReplyBegun /\ replied'[1] = replied[1]
      /\ ~(ReplyBegun' /\ HeadersOnly(replied')) /\ ~OrderlyReply'
  <2> DEFINE n == Len(replied)
  <2>1. /\ replied' \in Seq(Replies) /\ Len(replied') = n + 1 /\ n \in Nat
        /\ n = 0 => replied'[1] = line
        /\ n > 0 => replied'[1] = replied[1] /\ (ReplyBegun' <=> ReplyBegun)
        /\ ~(ReplyBegun' /\ HeadersOnly(replied')) /\ ~OrderlyReply'
    BY RepliesGrow DEF ReplyInv
  <2>2. n = 0 => ~ReplyBegun'
    BY <2>1 DEF ReplyBegun
  <2> HIDE DEF n
  <2> QED
    BY <2>1, <2>2
<1> QED
  BY <1>1 DEF ReplyInv

LEMMA ReadReplyLineKeeps ==
    ASSUME ExchangeInv, ReadReplyLine
    PROVE  ExchangeInv'
<1>1. PICK line \in Replies :
        /\ replied' = Append(replied, line)
        /\ \/ /\ line.t = "lone" /\ ~upstream_buffer
              /\ upstream_buffer' = TRUE
              /\ UNCHANGED <<stage, pc, response_>>
           \/ /\ upstream_buffer' = FALSE
              /\ LET r == response_add_line(response_, line, upstream_buffer)
                 IN  /\ response_' = r.message
                     /\ \/ ~r.throws /\ UNCHANGED <<stage, pc>>
                        \/ r.throws /\ PassReply(r.message)
                        \/ r.throws /\ pc' = "done" /\ UNCHANGED stage
  BY DEF ReadReplyLine
<1>2. pc = "get_proxy_header"
      /\ UNCHANGED <<server, files, line_, request_, location_, file_fd, sent, changes>>
  BY DEF ReadReplyLine
<1>3. Typed /\ SentInv /\ PhaseInv /\ ReplyInv
  BY DEF ExchangeInv
<1>4. IsResponse(response_) /\ upstream_buffer \in BOOLEAN
  BY <1>3 DEF Typed
<1>5. /\ Found' # NoLocation /\ IsProxied' /\ request_'.method = <<"GET">>
      /\ stage = "GET_RESPONSE_FROM_PROXY"
  BY <1>2, <1>3, SameRequest DEF PhaseInv
<1>6. replied' # <<>>
  <2>1. replied \in Seq(Replies)
    BY <1>3 DEF ReplyInv
  <2> QED
    BY <1>1, <2>1
<1>7. CASE /\ line.t = "lone" /\ ~upstream_buffer
           /\ upstream_buffer' = TRUE
           /\ UNCHANGED <<stage, pc, response_>>
  <2>1. Typed'
    BY <1>2, <1>3, <1>7 DEF Typed
  <2>2. SentInv'
    BY <1>2, <1>3, <1>7, SentStays
  <2>3. PhaseInv'
    BY <1>2, <1>5, <1>7 DEF PhaseInv
  <2>4. ReplyInv'
    BY <1>1, <1>2, <1>3, <1>7, LoneIsReplied
  <2> QED
    BY <2>1, <2>2, <2>3, <2>4 DEF ExchangeInv
<1>8. CASE /\ upstream_buffer' = FALSE
           /\ LET r == response_add_line(response_, line, upstream_buffer)
              IN  /\ response_' = r.message
                  /\ \/ ~r.throws /\ UNCHANGED <<stage, pc>>
                     \/ r.throws /\ PassReply(r.message)
                     \/ r.throws /\ pc' = "done" /\ UNCHANGED stage
  <2> DEFINE a == response_add_line(response_, line, upstream_buffer)
  <2>1. ResponseLineMakes(response_, line, upstream_buffer, a)
    BY <1>4, ResponseLineIs
  <2>2. /\ upstream_buffer' = FALSE /\ response_' = a.message
        /\ \/ ~a.throws /\ UNCHANGED <<stage, pc>>
           \/ PassReply(a.message)
           \/ pc' = "done" /\ UNCHANGED stage
    BY <1>8
  <2> HIDE DEF a
  <2>3. IsResponse(a.message)
    BY <2>1 DEF ResponseLineMakes
  <2>4. \/ ~a.throws /\ pc' = "get_proxy_header" /\ stage' = "GET_RESPONSE_FROM_PROXY"
        \/ pc' = "done" /\ stage' \in {"uncaught", "GET_RESPONSE_FROM_PROXY"}
    BY <1>2, <1>5, <2>2, <2>3, NoLength DEF PassReply, IsResponse
  <2>5. Typed'
    BY <1>2, <1>3, <2>2, <2>3, <2>4 DEF Typed, Stages
  <2>6. SentInv'
    BY <1>2, <1>3, <2>4, SentStays
  <2>7. PhaseInv'
    <3>1. pc' = "done" => ProxyOutcome'
      BY <1>5, <1>6, <2>4 DEF ProxyOutcome
    <3>2. pc' = "done" => Outcome'
      BY <1>5, <3>1 DEF Outcome
    <3> QED
      BY <1>5, <2>4, <3>2 DEF PhaseInv
  <2>8. ReplyInv'
    BY <1>1, <1>2, <1>3, <1>4, <2>1, <2>2, <2>4, ReplyGrows
  <2> QED
    BY <2>5, <2>6, <2>7, <2>8 DEF ExchangeInv
<1> QED
  BY <1>1, <1>7, <1>8

LEMMA NextKeeps ==
    ExchangeInv /\ [Next]_vars => ExchangeInv'
<1> SUFFICES ASSUME ExchangeInv, [Next]_vars PROVE ExchangeInv'
  OBVIOUS
<1>1. CASE UNCHANGED vars
  <2>1. /\ UNCHANGED <<server, files, stage, pc, line_, upstream_buffer, request_>>
        /\ UNCHANGED <<response_, location_, file_fd, sent, replied, changes>>
    BY <1>1 DEF vars
  <2>2. Typed'
    BY <2>1 DEF ExchangeInv, Typed
  <2>3. SentInv'
    BY <2>1, SentStays DEF ExchangeInv
  <2>4. FileLocation' <=> FileLocation
    BY <2>1, SameRequest
  <2>5. Found' = Found /\ (IsProxied' <=> IsProxied) /\ (IsFile' <=> IsFile)
        /\ (WrongVersion' <=> WrongVersion) /\ Path' = Path
    BY <2>1, SameRequest
  <2>6. Size(Path)' = Size(Path)
    BY <2>1, <2>5 DEF Size
  <2>7. HeaderMade' <=> HeaderMade
    BY <2>1, <2>5, <2>6 DEF HeaderMade
  <2>8. Outcome' <=> Outcome
    BY <2>1, <2>4, <2>5, <2>6, <2>7 DEF Outcome, ProxyOutcome, Answered, OrderlyHead
  <2>9. PhaseInv'
    BY <2>1, <2>4, <2>5, <2>6, <2>7, <2>8 DEF ExchangeInv, PhaseInv
  <2>10. ReplyInv'
    BY <2>1 DEF ExchangeInv, ReplyInv, ReplyBegun, HeadersOnly, OrderlyReply
  <2> QED
    BY <2>2, <2>3, <2>9, <2>10 DEF ExchangeInv
<1>2. CASE ReadLine
  BY <1>2, ReadLineKeeps
<1>3. CASE EndOfRequest
  BY <1>3, EndOfRequestKeeps
<1>4. CASE MakeHeader
  BY <1>4, MakeHeaderKeeps
<1>5. CASE OpenFile
  BY <1>5, OpenFileKeeps
<1>6. CASE Page
  BY <1>6, PageKeeps
<1>7. CASE PassToProxy
  BY <1>7, PassToProxyKeeps
<1>8. CASE ReadReplyLine
  BY <1>8, ReadReplyLineKeeps
<1>9. CASE EndOfReply
  BY <1>9, EndOfReplyKeeps
<1>10. CASE ChangeFile
  BY <1>10, ChangeFileKeeps
<1> QED
  BY <1>1, <1>2, <1>3, <1>4, <1>5, <1>6, <1>7, <1>8, <1>9, <1>10 DEF Next

(* In every exchange, of any number of lines, with any files and any       *)
(* locations, the request is what the lines have made of it, the response  *)
(* is what the upstream's lines have made of it, and the stage is one the  *)
(* location of the url leads to.                                           *)
THEOREM ExchangeCorrect == Spec => []ExchangeInv
  BY InitInv, NextKeeps, PTL DEF Spec

(* The types, and header tables without two entries for one name.          *)
THEOREM ExchangeTypeCorrect == Spec => []TypeOK
<1>1. ExchangeInv => TypeOK
  BY DEF ExchangeInv, Typed, IsRequest, IsResponse, LowerKeys, Statuses, TypeOK
<1> QED
  BY <1>1, ExchangeCorrect, PTL

(* The header that is sent is one for the file that goes with it, though   *)
(* files may change at any time between the two open().                    *)
THEOREM HeadersFit == Spec => []HeaderGoesWithTheFile
<1>1. ASSUME ExchangeInv, stage = "SEND_HTTP_HEADER_RESPONSE"
      PROVE  HeaderGoesWithTheFile
  <2>1. Typed /\ PhaseInv /\ changes \in Nat
    BY <1>1 DEF ExchangeInv, Typed
  <2>2. Outcome
    BY <1>1, <2>1 DEF PhaseInv
  <2>3. CASE Answered(404, NoSize, PAGE_404)
    BY <2>3 DEF HeaderGoesWithTheFile, Answered
  <2>4. CASE FileLocation /\ HeaderMade /\ Size(Path) # NoSize /\ file_fd = Path
    <3>1. Path # PAGE_404
      BY <2>1, <2>4, PathIsNotThePage
    <3>2. /\ response_.status = 404 => changes # 0
          /\ response_.status = 200 => changes # 0 \/ response_.content_length = Size(Path)
      BY <2>4 DEF HeaderMade
    <3> QED
      BY <2>1, <2>4, <3>1, <3>2 DEF HeaderGoesWithTheFile
  <2> QED
    BY <1>1, <2>2, <2>3, <2>4 DEF Outcome, ProxyOutcome
<1>2. ExchangeInv => HeaderGoesWithTheFile
  BY <1>1 DEF HeaderGoesWithTheFile
<1> QED
  BY <1>2, ExchangeCorrect, PTL

(* The status and the headers of an upstream's reply are kept as they were *)
(* sent, of whatever length the reply is.                                  *)
THEOREM RepliesKept == Spec => []RepliesAreKept
<1>1. ExchangeInv => RepliesAreKept
  <2> SUFFICES ASSUME ExchangeInv, NEW k \in DOMAIN replied,
                      k = Len(replied), k > 1,
                      replied[1].t = "status", replied[k].t = "blank",
                      \A i \in 2 .. k - 1 : replied[i].t = "header"
               PROVE  /\ response_.ended
                      /\ response_.status = replied[1].status
                      /\ response_.headers = HeadersSent(SubSeq(replied, 2, k - 1), AsItIs)
    BY DEF RepliesAreKept
  <2>1. OrderlyReply
    BY DEF OrderlyReply
  <2> QED
    BY <2>1 DEF ExchangeInv, ReplyInv
<1> QED
  BY <1>1, ExchangeCorrect, PTL

(* The extension of an url is what is behind its last point, where no      *)
(* slash follows.                                                          *)
Extended(url, i) ==
    /\ url[i] = "."
    /\ \A j \in i + 1 .. Len(url) : url[j] \notin {".", "/"}
    /\ SubSeq(url, i + 1, Len(url)) \notin types

(* The last place with a character, or 0.                                  *)
LastPlace(url, c) ==
    LET I == {i \in 1 .. Len(url) : url[i] = c}
    IN  IF I # {} THEN Max(I) ELSE 0

LEMMA LastIs ==
    ASSUME NEW url \in Seq(STRING), NEW c
    PROVE  /\ LastPlace(url, c) \in 0 .. Len(url)
           /\ LastPlace(url, c) # 0 => url[LastPlace(url, c)] = c
           /\ \A j \in 1 .. Len(url) : url[j] = c => j <= LastPlace(url, c)
<1> DEFINE n == Len(url)
           I == {i \in 1 .. n : url[i] = c}
           last == LastPlace(url, c)
<1>1. last = IF I # {} THEN Max(I) ELSE 0
  BY DEF LastPlace
<1>2. n \in Nat /\ I \in SUBSET (1 .. n)
  OBVIOUS
<1>3. I # {} => Max(I) \in I /\ \A j \in I : Max(I) >= j
  <2> HIDE DEF I, n
  <2> QED
    BY <1>2, Configuring!GreatestOf DEF Max, Configuring!Max
<1> HIDE DEF last, n
<1>4. CASE I = {}
  <2>1. last = 0 /\ \A j \in 1 .. n : url[j] # c
    BY <1>1, <1>4
  <2> QED
    BY <1>2, <2>1 DEF last, n
<1>5. CASE I # {}
  <2>1. last \in I /\ \A j \in I : last >= j
    <3> HIDE DEF I
    <3> QED
      BY <1>1, <1>3, <1>5
  <2>2. \A j \in 1 .. n : url[j] = c => last >= j
    BY <2>1
  <2>3. last \in 1 .. n /\ url[last] = c
    BY <2>1
  <2> QED
    BY <1>2, <2>2, <2>3 DEF last, n
<1> QED
  BY <1>4, <1>5

LEMMA ThrowsForTheExtension ==
    ASSUME NEW url \in Seq(STRING)
    PROVE  get_content_type_throws(url) <=> \E i \in DOMAIN url : Extended(url, i)
<1> DEFINE dot == LastPlace(url, ".")
           slash == LastPlace(url, "/")
           n == Len(url)
<1>1. /\ dot \in 0 .. n /\ (dot # 0 => url[dot] = ".")
      /\ \A j \in 1 .. n : url[j] = "." => j <= dot
  BY LastIs
<1>2. /\ slash \in 0 .. n /\ (slash # 0 => url[slash] = "/")
      /\ \A j \in 1 .. n : url[j] = "/" => j <= slash
  BY LastIs
<1>3. get_content_type_throws(url) <=> dot > slash /\ SubSeq(url, dot + 1, n) \notin types
  BY DEF get_content_type_throws, SelectLastInSeq, LastPlace
<1>4. n \in Nat /\ DOMAIN url = 1 .. n
  OBVIOUS
<1> HIDE DEF dot, slash, n
<1>5. ASSUME dot > slash, SubSeq(url, dot + 1, n) \notin types
      PROVE  \E i \in DOMAIN url : Extended(url, i)
  <2>1. dot \in DOMAIN url /\ dot # 0
    BY <1>1, <1>2, <1>4, <1>5
  <2>2. \A j \in dot + 1 .. n : j \in 1 .. n /\ ~(j <= dot) /\ ~(j <= slash)
    BY <1>1, <1>2, <1>4, <1>5
  <2>3. \A j \in dot + 1 .. n : url[j] \notin {".", "/"}
    BY <1>1, <1>2, <2>2
  <2>4. Extended(url, dot)
    BY <1>1, <1>5, <2>1, <2>3 DEF Extended, n
  <2> QED
    BY <2>1, <2>4
<1>6. ASSUME NEW i \in DOMAIN url, Extended(url, i)
      PROVE  dot > slash /\ SubSeq(url, dot + 1, n) \notin types
  <2>1. /\ i \in 1 .. n /\ url[i] = "." /\ SubSeq(url, i + 1, n) \notin types
        /\ \A j \in i + 1 .. n : url[j] \notin {".", "/"}
    BY <1>4, <1>6 DEF Extended, n
  <2>2. dot = i
    <3>1. i <= dot /\ dot # 0
      BY <1>1, <2>1
    <3>2. dot \notin i + 1 .. n
      BY <1>1, <2>1, <3>1
    <3> QED
      BY <1>1, <1>4, <2>1, <3>1, <3>2
  <2>3. slash < i
    <3>1. slash # i
      BY <1>2, <2>1
    <3>2. slash \notin i + 1 .. n
      BY <1>2, <1>4, <2>1
    <3> QED
      BY <1>2, <1>4, <2>1, <3>1, <3>2
  <2> QED
    BY <1>1, <1>2, <2>1, <2>2, <2>3
<1> QED
  BY <1>3, <1>5, <1>6

(* What AnswersTheFirstRequest says of the head of a request.              *)
FirstIsAnswered(k) ==
    LET first == sent[1]
        found == get_location(server, first.url)
        location == server.locations[found.type][found.place]
        path == location.root \o first.url
        ofVersion == first.version \in {"1.0", "1.1"}
        isFile == ofVersion /\ first.method \in {"GET", "HEAD"}
        unknown == \E i \in DOMAIN first.url : Extended(first.url, i)
    IN  \/ stage = "BAD_REQUEST" /\ k < Len(sent)
        \/ found = NoLocation /\ ~ofVersion /\ stage = "uncaught"
        \/ found = NoLocation /\ ofVersion /\ Answered(404, NoSize, PAGE_404)
        \/ /\ found # NoLocation /\ location.is_proxy
           /\ request_.method = <<first.method>> /\ request_.url = first.url
           /\ request_.version = first.version
           /\ HeadersPassed(k)
           /\ \/ stage = "FAILED_TO_CONNECT"
              \/ first.method = "GET" /\ stage \in {"GET_RESPONSE_FROM_PROXY", "ERROR_STAGE"}
              \/ stage = "uncaught" /\ (first.method = "GET" => replied # <<>>)
        \/ /\ found # NoLocation /\ ~location.is_proxy
           /\ \/ ~isFile /\ stage = "uncaught"
              \/ isFile /\ Size(path) = NoSize /\ Answered(404, NoSize, PAGE_404)
              \/ /\ isFile /\ Size(path) # NoSize
                 /\ IF unknown THEN Answered(415, NoSize, path)
                    ELSE Answered(200, Size(path), path)

LEMMA FirstAnswered ==
    ASSUME ExchangeInv, NEW k \in DOMAIN sent, OrderlyHead(k), pc = "done", changes = 0
    PROVE  FirstIsAnswered(k)
<1> DEFINE first == sent[1]
           location == server.locations[Found.type][Found.place]
           path == location.root \o first.url
           unknown == \E i \in DOMAIN first.url : Extended(first.url, i)
           isFile == first.version \in {"1.0", "1.1"} /\ first.method \in {"GET", "HEAD"}
<1>1. Typed /\ SentInv /\ PhaseInv
  BY DEF ExchangeInv
<1>2. Outcome
  BY <1>1 DEF PhaseInv
<1>3. RequestBegun
  <2>1. k \in 1 .. Len(sent) /\ Len(sent) \in Nat
    BY <1>1 DEF SentInv
  <2> QED
    BY <2>1 DEF OrderlyHead, RequestBegun
<1>4. /\ request_.method = <<first.method>> /\ request_.url = first.url
      /\ request_.version = first.version
  BY <1>1, <1>3 DEF SentInv
<1>5. request_.ended /\ HeadersPassed(k)
  BY <1>1 DEF SentInv
<1>6. /\ Found = get_location(server, first.url) /\ (IsProxied <=> location.is_proxy)
      /\ (WrongVersion <=> first.version \notin {"1.0", "1.1"})
  BY <1>4 DEF Found, IsProxied, WrongVersion
<1>7. IsFile <=> isFile
  BY <1>4, <1>6 DEF IsFile
<1>8. FileLocation => Path = path
  BY <1>4 DEF FileLocation, Path
<1>9. get_content_type_throws(request_.url) <=> unknown
  <2>1. request_.url \in Seq(STRING)
    BY <1>1 DEF Typed, IsRequest
  <2> QED
    BY <1>4, <2>1, ThrowsForTheExtension
<1> DEFINE Goal ==
      \/ stage = "BAD_REQUEST" /\ k < Len(sent)
      \/ Found = NoLocation /\ WrongVersion /\ stage = "uncaught"
      \/ Found = NoLocation /\ ~WrongVersion /\ Answered(404, NoSize, PAGE_404)
      \/ Found # NoLocation /\ IsProxied /\ ProxyOutcome
      \/ /\ Found # NoLocation /\ ~IsProxied
         /\ \/ ~IsFile /\ stage = "uncaught"
            \/ IsFile /\ Size(path) = NoSize /\ Answered(404, NoSize, PAGE_404)
            \/ /\ IsFile /\ Size(path) # NoSize
               /\ \/ unknown /\ Answered(415, NoSize, path)
                  \/ ~unknown /\ Answered(200, Size(path), path)
<1>10. Goal
  <2> HIDE DEF first, location, path, unknown, isFile
  <2>1. CASE FileLocation /\ IsFile /\ HeaderMade /\ Size(Path) # NoSize
             /\ stage = "SEND_HTTP_HEADER_RESPONSE" /\ file_fd = Path
    <3>1. \/ unknown /\ Answered(415, NoSize, path)
          \/ ~unknown /\ Answered(200, Size(path), path)
      BY <1>8, <1>9, <2>1 DEF HeaderMade, Answered
    <3> QED
      BY <1>8, <2>1, <3>1 DEF FileLocation
  <2>2. CASE FileLocation /\ IsFile /\ Answered(404, NoSize, PAGE_404)
             /\ (changes = 0 => Size(Path) = NoSize)
    BY <1>8, <2>2 DEF FileLocation
  <2>3. CASE stage = "BAD_REQUEST" /\ \A h \in DOMAIN sent : OrderlyHead(h) => h < Len(sent)
    BY <2>3
  <2> QED
    BY <1>2, <1>5, <2>1, <2>2, <2>3 DEF Outcome, FileLocation
<1>11. FirstIsAnswered(k)
  <2> HIDE DEF unknown
  <2>1. /\ WrongVersion <=> ~(first.version \in {"1.0", "1.1"})
        /\ IsFile <=> first.version \in {"1.0", "1.1"} /\ first.method \in {"GET", "HEAD"}
    BY <1>6, <1>7
  <2>2. unknown <=> \E i \in DOMAIN sent[1].url : Extended(sent[1].url, i)
    BY DEF unknown
  <2>3. CASE stage = "BAD_REQUEST" /\ k < Len(sent)
    BY <2>3 DEF FirstIsAnswered
  <2>4. CASE Found = NoLocation /\ WrongVersion /\ stage = "uncaught"
    BY <1>6, <2>1, <2>4 DEF FirstIsAnswered
  <2>5. CASE Found = NoLocation /\ ~WrongVersion /\ Answered(404, NoSize, PAGE_404)
    BY <1>6, <2>1, <2>5 DEF FirstIsAnswered
  <2>6. CASE Found # NoLocation /\ IsProxied /\ ProxyOutcome
    <3>1. request_.method = <<"GET">> <=> first.method = "GET"
      BY <1>4
    <3>2. \/ stage = "FAILED_TO_CONNECT"
          \/ first.method = "GET" /\ stage \in {"GET_RESPONSE_FROM_PROXY", "ERROR_STAGE"}
          \/ stage = "uncaught" /\ (first.method = "GET" => replied # <<>>)
      BY <2>6, <3>1 DEF ProxyOutcome
    <3> QED
      BY <1>4, <1>5, <1>6, <2>6, <3>2 DEF FirstIsAnswered
  <2>7. CASE Found # NoLocation /\ ~IsProxied /\ ~IsFile /\ stage = "uncaught"
    BY <1>6, <2>1, <2>7 DEF FirstIsAnswered
  <2>8. CASE /\ Found # NoLocation /\ ~IsProxied
             /\ IsFile /\ Size(path) = NoSize /\ Answered(404, NoSize, PAGE_404)
    BY <1>6, <2>1, <2>8 DEF FirstIsAnswered
  <2>9. CASE /\ Found # NoLocation /\ ~IsProxied /\ IsFile /\ Size(path) # NoSize
             /\ unknown /\ Answered(415, NoSize, path)
    BY <1>6, <2>1, <2>2, <2>9 DEF FirstIsAnswered
  <2>10. CASE /\ Found # NoLocation /\ ~IsProxied /\ IsFile /\ Size(path) # NoSize
              /\ ~unknown /\ Answered(200, Size(path), path)
    BY <1>6, <2>1, <2>2, <2>10 DEF FirstIsAnswered
  <2> HIDE DEF path
  <2> QED
    BY <1>10, <2>3, <2>4, <2>5, <2>6, <2>7, <2>8, <2>9, <2>10
<1> QED
  BY <1>11

(* Whatever and however much the client sends behind a request, it is left *)
(* as a bad one when a line behind it throws, or is answered by its first  *)
(* line; passed on, it has its own headers, and others or other values     *)
(* only from behind it; and the worker ends over nothing but its version,  *)
(* its method or, behind a proxy_path, what the upstream replies.          *)
THEOREM FirstRequestAnswered == Spec => []AnswersTheFirstRequest
<1>1. ExchangeInv => AnswersTheFirstRequest
  <2>1. ExchangeInv =>
          \A k \in DOMAIN sent :
            OrderlyHead(k) /\ pc = "done" /\ changes = 0 => FirstIsAnswered(k)
    BY FirstAnswered
  <2> QED
    BY <2>1, Zenon DEF AnswersTheFirstRequest, FirstIsAnswered, Extended
<1> QED
  BY <1>1, ExchangeCorrect, PTL
=============================================================================
