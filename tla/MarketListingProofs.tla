------------------------ MODULE MarketListingProofs ------------------------
(***************************************************************************)
(* Proofs about MarketListing for any markets, queries and plugins, while  *)
(* packages and market change.                                             *)
(*                                                                         *)
(* First that Sorted is a stable sort and Page a part of it.  Then that    *)
(* what list_ writes into the shared content is of one moment for each     *)
(* plugin (Walk), and that an answer is the selection of that content      *)
(* (Shown).                                                                *)
(***************************************************************************)
EXTENDS MarketListing, SequenceTheorems, FiniteSetTheorems, TLAPS

-----------------------------------------------------------------------------
(* Order.                                                                  *)

LEMMA Values == Versions \subseteq Nat \ {0} /\ Nothing \notin Nat
BY Zenon, MarketListingAssumption

LEMMA KeyType ==
    ASSUME query \in QueryType, NEW e \in LocalEntries
    PROVE  Key(e) \in Nat \union {Nothing}
<1>1. e.entry \in Entries
  BY DEF LocalEntries
<1>2. e.entry.name \in Nat \union {Nothing}
  BY <1>1 DEF Entries
<1>3. e.installed \in Nat
  <2>1. e.installed \in Versions \union {0}
    BY DEF LocalEntries
  <2>2. \A v \in Versions \union {0} : v \in Nat
    BY Values
  <2> QED BY <2>1, <2>2
<1>4. CASE query.order = "name"
  BY <1>2, <1>4 DEF Key
<1>5. CASE query.order # "name"
  BY <1>3, <1>5 DEF Key
<1> QED BY <1>4, <1>5

(* The places of a list of length n.                                        *)
LEMMA UpTo ==
    ASSUME NEW n \in Nat
    PROVE  IsFiniteSet(1..n) /\ Cardinality(1..n) = n
<1>1. 1 \in Int /\ n \in Int
  OBVIOUS
<1>2. IsFiniteSet(1..n) /\ Cardinality(1..n) = IF 1 > n THEN 0 ELSE n - 1 + 1
  BY <1>1, FS_Interval, Zenon
<1> QED BY <1>2

(* The list's order is total: of two places just one comes before.         *)
LEMMA BeforeIsTotal ==
    ASSUME query \in QueryType, NEW s \in Seq(LocalEntries),
           NEW i \in 1..Len(s), NEW j \in 1..Len(s), NEW k \in 1..Len(s)
    PROVE  /\ Before(s, i, i)
           /\ Before(s, i, j) \/ Before(s, j, i)
           /\ Before(s, i, j) /\ Before(s, j, i) => i = j
           /\ Before(s, i, j) /\ Before(s, j, k) => Before(s, i, k)
           /\ ~Precedes(s[i], s[i])
<1> DEFINE a == Key(s[i])
           b == Key(s[j])
           c == Key(s[k])
<1>1. s[i] \in LocalEntries /\ s[j] \in LocalEntries /\ s[k] \in LocalEntries
  BY ElementOfSeq
<1>2. /\ a \in Nat \union {Nothing} /\ b \in Nat \union {Nothing} /\ c \in Nat \union {Nothing}
      /\ Nothing \notin Nat
  BY <1>1, KeyType, Values
<1>3. i \in Nat /\ j \in Nat /\ k \in Nat
  OBVIOUS
<1>4. CASE query.desc
  BY <1>2, <1>3, <1>4 DEF Before, Precedes, Less
<1>5. CASE ~query.desc
  BY <1>2, <1>3, <1>5 DEF Before, Precedes, Less
<1> QED BY <1>4, <1>5

LEMMA PrecedesOneWay ==
    ASSUME query \in QueryType, NEW s \in Seq(LocalEntries),
           NEW i \in 1..Len(s), NEW j \in 1..Len(s), Precedes(s[i], s[j])
    PROVE  ~Precedes(s[j], s[i])
<1>1. s[i] \in LocalEntries /\ s[j] \in LocalEntries
  BY ElementOfSeq
<1>2. /\ Key(s[i]) \in Nat \union {Nothing} /\ Key(s[j]) \in Nat \union {Nothing}
      /\ Nothing \notin Nat
  BY <1>1, KeyType, Values
<1> QED BY <1>2 DEF Precedes, Less

(* The place of the i-th element among those at I.                         *)
Place(s, I, i) == Cardinality({j \in I : Before(s, j, i)})

LEMMA Placed ==
    ASSUME query \in QueryType, NEW s \in Seq(LocalEntries),
           NEW I \in SUBSET (1..Len(s))
    PROVE  /\ IsFiniteSet(I)
           /\ Cardinality(I) \in Nat
           /\ \A i \in I : Place(s, I, i) \in 1..Cardinality(I)
           /\ \A i, j \in I : Before(s, i, j) => Place(s, I, i) <= Place(s, I, j)
           /\ \A i, j \in I : Place(s, I, i) = Place(s, I, j) => i = j
<1> DEFINE Up(i) == {j \in I : Before(s, j, i)}
<1>1. IsFiniteSet(I) /\ Cardinality(I) \in Nat
  <2>1. Len(s) \in Nat
    BY LenProperties
  <2>2. IsFiniteSet(1..Len(s))
    BY <2>1, FS_Interval
  <2> QED BY <2>2, FS_Subset, FS_CardinalityType
<1>2. ASSUME NEW i \in I PROVE Place(s, I, i) \in 1..Cardinality(I)
  <2>1. Up(i) \subseteq I /\ i \in Up(i)
    BY BeforeIsTotal
  <2>2. IsFiniteSet(Up(i)) /\ Cardinality(Up(i)) <= Cardinality(I)
    BY <1>1, <2>1, FS_Subset
  <2>3. Cardinality(Up(i)) \in Nat /\ Cardinality(Up(i)) # 0
    BY <2>1, <2>2, FS_CardinalityType, FS_EmptySet
  <2> QED BY <1>1, <2>2, <2>3 DEF Place
<1>3. ASSUME NEW i \in I, NEW j \in I, Before(s, i, j)
      PROVE  /\ Place(s, I, i) <= Place(s, I, j)
             /\ Place(s, I, i) = Place(s, I, j) => i = j
  <2>1. Up(i) \subseteq Up(j)
    BY <1>3, BeforeIsTotal
  <2>2. IsFiniteSet(Up(j))
    BY <1>1, FS_Subset
  <2>3. Cardinality(Up(i)) <= Cardinality(Up(j))
    BY <2>1, <2>2, FS_Subset
  <2>4. Cardinality(Up(j)) = Cardinality(Up(i)) => Up(j) = Up(i)
    BY <2>1, <2>2, FS_Subset
  <2>5. Up(j) = Up(i) => i = j
    BY <1>3, BeforeIsTotal
  <2> QED BY <2>3, <2>4, <2>5 DEF Place
<1>4. ASSUME NEW i \in I, NEW j \in I, Place(s, I, i) = Place(s, I, j)
      PROVE  i = j
  BY <1>3, <1>4, BeforeIsTotal
<1> QED BY <1>1, <1>2, <1>3, <1>4

(* Every place is somebody's.                                              *)
LEMMA EveryPlace ==
    ASSUME query \in QueryType, NEW s \in Seq(LocalEntries),
           NEW I \in SUBSET (1..Len(s)), NEW k \in 1..Cardinality(I)
    PROVE  \E i \in I : Place(s, I, i) = k
<1> DEFINE n == Cardinality(I)
           f == [i \in I |-> Place(s, I, i)]
<1>1. n \in Nat /\ IsFiniteSet(I)
  BY Placed
<1>2. f \in [I -> 1..n]
  BY Placed
<1>3. \A i, j \in I : f[i] = f[j] => i = j
  BY Placed
<1>4. IsFiniteSet(1..n) /\ Cardinality(1..n) = n
  BY <1>1, FS_Interval
<1> HIDE DEF f
<1>5. f \in Injection(I, 1..n)
  BY <1>2, <1>3 DEF Injection, IsInjective
<1>6. f \in Surjection(I, 1..n)
  BY <1>4, <1>5, FS_Injection
<1>7. \A m \in 1..n : \E i \in I : f[i] = m
  BY <1>6 DEF Surjection
<1> QED BY <1>7 DEF f

(* The k-th element of the sorted list is the one with place k.            *)
LEMMA SortedAt ==
    ASSUME query \in QueryType, NEW s \in Seq(LocalEntries),
           NEW I \in SUBSET (1..Len(s))
    PROVE  /\ Sorted(s, I) \in Seq(LocalEntries)
           /\ Len(Sorted(s, I)) = Cardinality(I)
           /\ \A k \in 1..Cardinality(I) :
                 \E i \in I : Place(s, I, i) = k /\ Sorted(s, I)[k] = s[i]
<1> DEFINE n == Cardinality(I)
           At(k) == CHOOSE i \in I : Place(s, I, i) = k
           t == [k \in 1..n |-> s[At(k)]]
<1>1. n \in Nat
  BY Placed
<1>2. \A k \in 1..n : At(k) \in I /\ Place(s, I, At(k)) = k
  BY EveryPlace
<1>3. Sorted(s, I) = t
  BY DEF Sorted, Place
<1> HIDE DEF n, At
<1>4. \A k \in 1..n : s[At(k)] \in LocalEntries
  BY <1>2, ElementOfSeq
<1>5. t \in Seq(LocalEntries) /\ Len(t) = n
  BY <1>1, <1>4
<1>6. \A k \in 1..n : \E i \in I : Place(s, I, i) = k /\ t[k] = s[i]
  BY <1>2
<1> QED BY <1>3, <1>5, <1>6 DEF n

(* The market's entries are listed in order, each once, and those whose    *)
(* keys are equal or absent in the market's own order: MarketDB._sort      *)
(* (db.py:202-210), in both directions.                                    *)
THEOREM SortIsStable ==
    ASSUME query \in QueryType, NEW s \in Seq(LocalEntries),
           NEW I \in SUBSET (1..Len(s))
    PROVE  \E f \in Bijection(1..Cardinality(I), I) :
              /\ Sorted(s, I) = [k \in 1..Cardinality(I) |-> s[f[k]]]
              /\ \A k, l \in 1..Cardinality(I) : k < l => Before(s, f[k], f[l])
<1> DEFINE n == Cardinality(I)
           f == [k \in 1..n |-> CHOOSE i \in I : Place(s, I, i) = k]
<1>1. \A k \in 1..n : f[k] \in I /\ Place(s, I, f[k]) = k
  BY EveryPlace
<1>2. Sorted(s, I) = [k \in 1..n |-> s[f[k]]]
  BY DEF Sorted, Place
<1>3. f \in [1..n -> I]
  BY <1>1
<1> HIDE DEF f
<1>4. \A k, l \in 1..n : f[k] = f[l] => k = l
  BY <1>1
<1>5. ASSUME NEW i \in I PROVE \E k \in 1..n : f[k] = i
  <2>1. Place(s, I, i) \in 1..n
    BY Placed
  <2>2. Place(s, I, f[Place(s, I, i)]) = Place(s, I, i)
    BY <1>1, <2>1
  <2>3. f[Place(s, I, i)] = i
    BY <1>1, <2>1, <2>2, Placed
  <2> QED BY <2>1, <2>3
<1>6. f \in Bijection(1..n, I)
  BY <1>3, <1>4, <1>5 DEF Bijection, Injection, Surjection, IsInjective
<1>7. ASSUME NEW k \in 1..n, NEW l \in 1..n, k < l PROVE Before(s, f[k], f[l])
  <2>1. f[k] \in I /\ f[l] \in I /\ Place(s, I, f[k]) = k /\ Place(s, I, f[l]) = l
    BY <1>1
  <2>2. ~Before(s, f[l], f[k])
    <3>1. n \in Nat
      BY Placed
    <3>2. ~(Place(s, I, f[l]) <= Place(s, I, f[k]))
      BY <1>7, <2>1, <3>1
    <3> QED BY <2>1, <3>2, Placed
  <2> QED BY <2>1, <2>2, BeforeIsTotal
<1> QED BY <1>2, <1>6, <1>7

-----------------------------------------------------------------------------
(* Pages.                                                                  *)

LEMMA PageOf ==
    ASSUME query \in QueryType, NEW S, NEW t \in Seq(S)
    PROVE  /\ Page(t) \in Seq(S)
           /\ Len(Page(t)) = PageSize(Len(t))
           /\ \A k \in 1..Len(Page(t)) : /\ query.offset + k \in 1..Len(t)
                                         /\ Page(t)[k] = t[query.offset + k]
<1> DEFINE a == query.offset + 1
           b == IF query.limit \in {Nothing, 0} \/ query.limit + query.offset > Len(t)
                THEN Len(t)
                ELSE query.limit + query.offset
<1>1. /\ query.offset \in Nat /\ query.limit \in Nat \union {Nothing} /\ Len(t) \in Nat
      /\ Nothing \notin Nat
  BY LenProperties, Values DEF QueryType
<1>2. a \in Nat \ {0} /\ b \in Nat /\ b <= Len(t)
  BY <1>1
<1>3. IF a <= b THEN b - a + 1 = PageSize(Len(t)) ELSE PageSize(Len(t)) = 0
  BY <1>1 DEF PageSize
<1>4. Page(t) = SubSeq(t, a, b)
  BY DEF Page
<1>5. a = query.offset + 1
  OBVIOUS
<1> HIDE DEF a, b
<1>6. \A i \in a..b : t[i] \in S
  BY <1>2, ElementOfSeq
<1>7. /\ SubSeq(t, a, b) \in Seq(S)
      /\ Len(SubSeq(t, a, b)) = IF a <= b THEN b - a + 1 ELSE 0
      /\ \A i \in 1..b - a + 1 : SubSeq(t, a, b)[i] = t[a + i - 1]
  BY <1>2, <1>6, SubSeqProperties
<1>8. Len(Page(t)) = PageSize(Len(t))
  BY <1>3, <1>4, <1>7
<1>9. ASSUME NEW k \in 1..Len(Page(t))
      PROVE  query.offset + k \in 1..Len(t) /\ Page(t)[k] = t[query.offset + k]
  <2>1. a <= b /\ k \in 1..b - a + 1
    BY <1>2, <1>4, <1>7
  <2>2. a + k - 1 = query.offset + k
    BY <1>1, <1>5
  <2>3. query.offset + k \in 1..Len(t)
    <3>1. /\ a \in Nat \ {0} /\ b \in Nat /\ b <= Len(t) /\ Len(t) \in Nat
          /\ k \in 1..b - a + 1
      BY <1>1, <1>2, <2>1
    <3>2. a + k - 1 \in 1..Len(t)
      BY <3>1
    <3> QED BY <2>2, <3>2
  <2>4. Page(t)[k] = t[a + k - 1]
    BY <1>4, <1>7, <2>1
  <2> QED BY <2>2, <2>3, <2>4
<1> QED BY <1>4, <1>7, <1>8, <1>9

(* What Select shows: each item is an entry of the content that matches,   *)
(* at its place.                                                           *)
LEMMA Selected ==
    ASSUME query \in QueryType, NEW s \in Seq(LocalEntries)
    PROVE  /\ Matching(s) \in SUBSET (1..Len(s))
           /\ Select(s) \in Seq(LocalEntries)
           /\ Len(Select(s)) = PageSize(Cardinality(Matching(s)))
           /\ \A k \in 1..Len(Select(s)) :
                 \E i \in Matching(s) : /\ Place(s, Matching(s), i) = query.offset + k
                                        /\ Select(s)[k] = s[i]
<1> DEFINE I == Matching(s)
           t == Sorted(s, I)
<1>1. I \in SUBSET (1..Len(s))
  BY DEF Matching
<1> HIDE DEF I
<1>2. /\ t \in Seq(LocalEntries) /\ Len(t) = Cardinality(I)
      /\ \A k \in 1..Cardinality(I) : \E i \in I : Place(s, I, i) = k /\ t[k] = s[i]
  BY <1>1, SortedAt
<1>3. Select(s) = Page(t)
  BY DEF Select, I
<1> HIDE DEF t
<1>4. /\ Page(t) \in Seq(LocalEntries)
      /\ Len(Page(t)) = PageSize(Len(t))
      /\ \A k \in 1..Len(Page(t)) : /\ query.offset + k \in 1..Len(t)
                                    /\ Page(t)[k] = t[query.offset + k]
  BY <1>2, PageOf
<1>5. ASSUME NEW k \in 1..Len(Page(t))
      PROVE  \E i \in I : Place(s, I, i) = query.offset + k /\ Page(t)[k] = s[i]
  BY <1>2, <1>4
<1> QED BY <1>1, <1>2, <1>3, <1>4, <1>5 DEF I

-----------------------------------------------------------------------------
(* The invariant.                                                          *)

Blank(e) == \A j \in DOMAIN e.upgradable : ~e.upgradable[j]

Honest(e) ==
    \A j \in DOMAIN e.upgradable :
        e.upgradable[j] => /\ e.entry.versions[j].fits
                           /\ e.entry.versions[j].version > e.installed

Aligned(e) == Len(e.upgradable) = Len(e.entry.versions)

Fetches ==
    /\ at = "listing" => fetches = 0 /\ content = <<>>
    /\ at \in {"updating", "counting"} => fetches = 1
    /\ at = "filtering" => fetches <= 2

(* What list_ has not come to is as the market sent it, and the versions   *)
(* it has come to of one plugin are marked by the same metadata.           *)
Walk ==
    at = "updating" =>
        /\ spot[1] \in 1..Len(content) + 1
        /\ \A i \in 1..Len(content) :
              /\ Aligned(content[i])
              /\ Honest(content[i])
              /\ spot[1] < i => Blank(content[i])
              /\ spot[1] = i /\ spot[2] = 0 => Blank(content[i])
              /\ spot[1] = i => spot[2] <= Len(content[i].entry.versions)
              /\ spot[1] = i /\ spot[2] > 0 => content[i].installed \in {0, known}

(* The items are what is selected of the content that the counts are of.   *)
Shown ==
    /\ \A k \in 1..Len(answer.items) : Honest(answer.items[k])
    /\ at \in {"counting", "filtering", "answered"} =>
          IF SomeListed
          THEN content # <<>> /\ answer.items = Select(content)
          ELSE answer.items = <<>>
    /\ at \in {"filtering", "answered"} /\ SomeListed => answer.total = Len(content)
    /\ at = "answered" /\ SomeListed =>
          answer.filtered = Cardinality(Matching(content))

MInv == ListingTypeOK /\ Fetches /\ Walk /\ Shown

-----------------------------------------------------------------------------
(* Entries.                                                                *)

LEMMA LocalOK ==
    ASSUME NEW e \in Entries
    PROVE  Local(e) \in LocalEntries /\ Blank(Local(e)) /\ Aligned(Local(e))
<1> DEFINE n == Len(e.versions)
           u == [j \in 1..n |-> FALSE]
<1>1. e.versions \in Seq(Offers)
  BY DEF Entries
<1>2. n \in Nat /\ DOMAIN e.versions = 1..n
  BY <1>1, LenProperties
<1>3. Local(e) = [entry |-> e, installed |-> 0, upgradable |-> u]
  BY <1>2 DEF Local
<1>4. u \in Seq(BOOLEAN) /\ Len(u) = n
  BY <1>2
<1>5. Local(e) \in LocalEntries
  BY <1>3, <1>4 DEF LocalEntries
<1>6. Blank(Local(e))
  BY <1>3 DEF Blank
<1>7. Aligned(Local(e))
  BY <1>3, <1>4 DEF Aligned
<1> QED BY <1>5, <1>6, <1>7

LEMMA BlankIsHonest == \A e : Blank(e) => Honest(e)
BY DEF Blank, Honest

LEMMA Fetched ==
    ASSUME market \in Seq(Entries), NEW c, c = [i \in DOMAIN market |-> Local(market[i])]
    PROVE  /\ c \in Seq(LocalEntries)
           /\ \A i \in 1..Len(c) : Blank(c[i]) /\ Aligned(c[i]) /\ Honest(c[i])
<1>1. Len(market) \in Nat /\ DOMAIN market = 1..Len(market)
  BY LenProperties
<1>2. \A i \in 1..Len(market) : market[i] \in Entries
  BY ElementOfSeq
<1>3. \A i \in 1..Len(market) : Local(market[i]) \in LocalEntries
  BY <1>2, LocalOK
<1>4. c \in Seq(LocalEntries) /\ Len(c) = Len(market)
  BY <1>1, <1>3
<1> QED BY <1>1, <1>2, <1>4, LocalOK, BlankIsHonest

(* GetContent when there is a content already, and when there is none.     *)
LEMMA GotContent ==
    ASSUME ListingTypeOK, GetContent
    PROVE  /\ content' \in Seq(LocalEntries)
           /\ content # <<>> => content' = content
           /\ content = <<>> =>
                 \A i \in 1..Len(content') : /\ Blank(content'[i])
                                             /\ Aligned(content'[i])
                                             /\ Honest(content'[i])
           /\ fetches' \in {fetches, fetches + 1}
<1>1. CASE content = <<>>
  <2>1. content' = [i \in DOMAIN market |-> Local(market[i])] /\ fetches' = fetches + 1
    BY <1>1 DEF GetContent
  <2>2. market \in Seq(Entries)
    BY DEF ListingTypeOK
  <2> QED BY <1>1, <2>1, <2>2, Fetched
<1>2. CASE content # <<>>
  BY <1>2 DEF GetContent, ListingTypeOK
<1> QED BY <1>1, <1>2

LEMMA PackageVersion ==
    ASSUME ListingTypeOK, NEW i \in 1..Len(content)
    PROVE  /\ content[i] \in LocalEntries
           /\ content[i].entry \in Entries
           /\ packages[content[i].entry.plugin] \in Versions \union {0}
<1>1. content[i] \in LocalEntries
  BY ElementOfSeq DEF ListingTypeOK
<1>2. content[i].entry \in Entries
  BY <1>1 DEF LocalEntries
<1>3. content[i].entry.plugin \in Plugins
  BY <1>2 DEF Entries
<1> QED BY <1>1, <1>2, <1>3 DEF ListingTypeOK

-----------------------------------------------------------------------------
(* The steps.                                                              *)

LEMMA ListingInit ==
    Init => MInv
<1> SUFFICES ASSUME Init PROVE MInv
  OBVIOUS
<1>1. /\ market \in Seq(Entries) /\ query \in QueryType
      /\ packages \in [Plugins -> Versions \union {0}]
  BY MarketListingAssumption DEF Init
<1>2. /\ at = "idle" /\ content = <<>> /\ fetches = 0 /\ spot = <<0, 0>>
      /\ known = 0 /\ answer = NoAnswer
  BY DEF Init
<1>3. /\ NoAnswer \in [items : Seq(LocalEntries), total : Nat, filtered : Nat]
      /\ NoAnswer.items = <<>>
  BY DEF NoAnswer
<1>4. ListingTypeOK
  BY <1>1, <1>2, <1>3 DEF ListingTypeOK, Over
<1>5. Fetches /\ Walk
  BY <1>2 DEF Fetches, Walk
<1>6. Shown
  BY <1>2, <1>3 DEF Shown
<1> QED BY <1>4, <1>5, <1>6 DEF MInv

(* Nothing that the request holds changes.                                 *)
LEMMA OutsideStep ==
    ASSUME MInv, UNCHANGED <<at, query, content, fetches, listing, answer>>,
           market' \in Seq(Entries), packages' \in [Plugins -> Versions \union {0}]
    PROVE  MInv'
<1>1. /\ at' = at /\ query' = query /\ content' = content /\ fetches' = fetches
      /\ spot' = spot /\ known' = known /\ answer' = answer
  BY DEF listing
<1>2. ListingTypeOK'
  BY <1>1 DEF MInv, ListingTypeOK
<1>3. Fetches' /\ Walk'
  BY <1>1 DEF MInv, Fetches, Walk
<1>4. Matching(content)' = Matching(content) /\ Select(content)' = Select(content)
  BY <1>1 DEF Select, Page, Sorted, Before, Precedes, Less, Key, Matching,
              Match, StrictMatch, SearchMatch
<1>5. Shown'
  BY <1>1, <1>4 DEF MInv, Shown, SomeListed
<1> QED BY <1>2, <1>3, <1>5 DEF MInv

LEMMA RequestStarts ==
    ASSUME MInv, NEW q \in Queries, Request(q)
    PROVE  MInv'
<1>1. /\ at' = "listing" /\ query' = q /\ content' = <<>> /\ fetches' = 0
      /\ answer' = NoAnswer /\ market' = market /\ packages' = packages
      /\ spot' = spot /\ known' = known
  BY DEF Request, outside, listing
<1>2. /\ NoAnswer \in [items : Seq(LocalEntries), total : Nat, filtered : Nat]
      /\ NoAnswer.items = <<>>
  BY DEF NoAnswer
<1>3. q \in QueryType
  BY MarketListingAssumption
<1>4. ListingTypeOK'
  BY <1>1, <1>2, <1>3 DEF MInv, ListingTypeOK, Over
<1>5. Fetches' /\ Walk'
  BY <1>1 DEF Fetches, Walk
<1>6. Shown'
  BY <1>1, <1>2 DEF Shown
<1> QED BY <1>4, <1>5, <1>6 DEF MInv

LEMMA FetchFailsStep ==
    ASSUME MInv, FetchFails
    PROVE  MInv'
<1>1. /\ at' = "failed" /\ at \in {"listing", "counting", "filtering"}
      /\ fetches' = fetches + 1 /\ query' = query /\ content' = content
      /\ answer' = answer /\ market' = market /\ packages' = packages
      /\ spot' = spot /\ known' = known
  BY DEF FetchFails, outside, listing
<1>2. fetches' \in 0..3
  BY <1>1 DEF MInv, Fetches, ListingTypeOK
<1>3. ListingTypeOK'
  BY <1>1, <1>2 DEF MInv, ListingTypeOK, Over
<1>4. Fetches' /\ Walk'
  BY <1>1 DEF Fetches, Walk
<1>5. Shown'
  BY <1>1 DEF MInv, Shown
<1> QED BY <1>3, <1>4, <1>5 DEF MInv

LEMMA ListStep ==
    ASSUME MInv, List
    PROVE  MInv'
<1>1. /\ at = "listing" /\ at' = "updating" /\ spot' = <<1, 0>> /\ known' = 0
      /\ query' = query /\ answer' = answer /\ market' = market /\ packages' = packages
      /\ GetContent
  BY DEF List, outside
<1>2. fetches = 0 /\ content = <<>> /\ ListingTypeOK
  BY <1>1 DEF MInv, Fetches
<1>3. /\ content' \in Seq(LocalEntries)
      /\ fetches' \in {fetches, fetches + 1}
      /\ \A i \in 1..Len(content') : /\ Blank(content'[i])
                                      /\ Aligned(content'[i])
                                      /\ Honest(content'[i])
  BY <1>1, <1>2, GotContent
<1>4. fetches' = 1
  BY <1>1, <1>2 DEF GetContent
<1>5. ListingTypeOK'
  BY <1>1, <1>2, <1>3, <1>4 DEF ListingTypeOK
<1>6. Fetches'
  BY <1>1, <1>4 DEF Fetches
<1>7. Walk'
  <2>1. Len(content') \in Nat
    BY <1>3, LenProperties
  <2>2. ASSUME NEW i \in 1..Len(content') PROVE 0 <= Len(content'[i].entry.versions)
    <3>1. content'[i] \in LocalEntries
      BY <1>3, ElementOfSeq
    <3>2. content'[i].entry \in Entries
      BY <3>1 DEF LocalEntries
    <3>3. content'[i].entry.versions \in Seq(Offers)
      BY <3>2 DEF Entries
    <3> QED BY <3>3, LenProperties
  <2> QED BY <1>1, <1>3, <2>1, <2>2 DEF Walk
<1>8. Shown'
  BY <1>1 DEF MInv, Shown
<1> QED BY <1>5, <1>6, <1>7, <1>8 DEF MInv

(* list_ writes one entry and goes on with the metadata m.                 *)
LEMMA Walked ==
    ASSUME MInv, at = "updating", spot[1] <= Len(content),
           NEW e \in LocalEntries, e.entry = content[spot[1]].entry,
           Aligned(e), Honest(e),
           NEW m \in Versions \union {0}, e.installed \in {0, m},
           content' = [content EXCEPT ![spot[1]] = e],
           Proceed(m),
           UNCHANGED <<outside, at, query, fetches, answer>>
    PROVE  MInv'
<1> DEFINE a == spot[1]
           b == spot[2]
           n == Len(content[a].entry.versions)
<1>1. /\ market' = market /\ packages' = packages /\ at' = at /\ query' = query
      /\ fetches' = fetches /\ answer' = answer
  BY DEF outside
<1>2. /\ content \in Seq(LocalEntries) /\ Len(content) \in Nat
      /\ a \in 1..Len(content) /\ b \in Nat
  <2>1. content \in Seq(LocalEntries) /\ a \in Nat /\ b \in Nat
    BY DEF MInv, ListingTypeOK
  <2>2. a \in 1..Len(content) + 1
    BY DEF MInv, Walk
  <2> QED BY <2>1, <2>2, LenProperties
<1>3. /\ content' \in Seq(LocalEntries) /\ Len(content') = Len(content)
      /\ \A i \in 1..Len(content) : content'[i] = IF i = a THEN e ELSE content[i]
  BY <1>2, ExceptSeq
<1>4. n \in Nat
  <2>1. content[a] \in LocalEntries
    BY <1>2, ElementOfSeq
  <2>2. content[a].entry \in Entries
    BY <2>1 DEF LocalEntries
  <2>3. content[a].entry.versions \in Seq(Offers)
    BY <2>2 DEF Entries
  <2> QED BY <2>3, LenProperties
<1>5. \/ b < n /\ spot' = <<a, b + 1>> /\ known' = m
      \/ ~(b < n) /\ spot' = <<a + 1, 0>> /\ known' = 0
  BY DEF Proceed, Entry
<1>6. Walk
  BY DEF MInv
<1>7. ListingTypeOK'
  <2>1. spot' \in Nat \X Nat /\ known' \in Versions \union {0}
    BY <1>2, <1>5
  <2> QED BY <1>1, <1>3, <2>1 DEF MInv, ListingTypeOK
<1>8. Fetches' /\ Shown'
  BY <1>1 DEF MInv, Fetches, Shown
<1>9. Walk'
  <2>1. spot'[1] \in 1..Len(content') + 1
    BY <1>2, <1>3, <1>5
  <2>2. ASSUME NEW i \in 1..Len(content'), i # a
        PROVE  /\ Aligned(content'[i]) /\ Honest(content'[i])
               /\ spot'[1] < i => Blank(content'[i])
               /\ spot'[1] = i /\ spot'[2] = 0 => Blank(content'[i])
               /\ spot'[1] = i => spot'[2] <= Len(content'[i].entry.versions)
               /\ spot'[1] = i /\ spot'[2] > 0 => content'[i].installed \in {0, known'}
    <3>1. i \in 1..Len(content) /\ content'[i] = content[i]
      BY <1>3, <2>2
    <3>2. Aligned(content[i]) /\ Honest(content[i]) /\ (a < i => Blank(content[i]))
      BY <1>6, <3>1 DEF Walk
    <3>3. spot'[1] <= i => a < i
      BY <1>2, <1>5, <2>2, <3>1
    <3>4. spot'[1] = i => spot'[2] = 0
      BY <1>2, <1>5, <2>2, <3>1
    <3>5. 0 <= Len(content[i].entry.versions)
      <4>1. content[i] \in LocalEntries
        BY <1>2, <3>1, ElementOfSeq
      <4>2. content[i].entry \in Entries
        BY <4>1 DEF LocalEntries
      <4>3. content[i].entry.versions \in Seq(Offers)
        BY <4>2 DEF Entries
      <4> QED BY <4>3, LenProperties
    <3>6. spot'[1] < i \/ spot'[1] = i => Blank(content[i])
      BY <1>2, <1>5, <3>2, <3>3, <3>1
    <3> QED BY <3>1, <3>2, <3>4, <3>5, <3>6
  <2>3. /\ Aligned(content'[a]) /\ Honest(content'[a])
        /\ ~(spot'[1] < a)
        /\ ~(spot'[1] = a /\ spot'[2] = 0)
        /\ spot'[1] = a => spot'[2] <= Len(content'[a].entry.versions)
        /\ spot'[1] = a /\ spot'[2] > 0 => content'[a].installed \in {0, known'}
    <3>1. content'[a] = e /\ n = Len(e.entry.versions)
      BY <1>2, <1>3
    <3>2. CASE b < n /\ spot' = <<a, b + 1>> /\ known' = m
      <4>1. spot'[1] = a /\ spot'[2] = b + 1
        BY <3>2
      <4>2. b + 1 > 0 /\ b + 1 # 0 /\ b + 1 <= n /\ ~(a < a)
        BY <1>2, <1>4, <3>2
      <4> HIDE DEF a, b, n
      <4> QED BY <3>1, <3>2, <4>1, <4>2
    <3>3. CASE ~(b < n) /\ spot' = <<a + 1, 0>> /\ known' = 0
      <4>1. spot'[1] = a + 1
        BY <3>3
      <4>2. ~(a + 1 < a) /\ a + 1 # a
        BY <1>2
      <4> HIDE DEF a, b, n
      <4> QED BY <3>1, <4>1, <4>2
    <3> HIDE DEF a, b, n
    <3> QED BY <1>5, <3>2, <3>3
  <2> HIDE DEF a, b, n
  <2>4. ASSUME NEW i \in 1..Len(content')
        PROVE  /\ Aligned(content'[i]) /\ Honest(content'[i])
               /\ spot'[1] < i => Blank(content'[i])
               /\ spot'[1] = i /\ spot'[2] = 0 => Blank(content'[i])
               /\ spot'[1] = i => spot'[2] <= Len(content'[i].entry.versions)
               /\ spot'[1] = i /\ spot'[2] > 0 => content'[i].installed \in {0, known'}
    <3>1. CASE i = a
      BY <2>3, <3>1
    <3>2. CASE i # a
      BY <2>2, <3>2
    <3> QED BY <3>1, <3>2
  <2> QED BY <1>1, <2>1, <2>4 DEF Walk
<1> QED BY <1>7, <1>8, <1>9 DEF MInv

LEMMA AddInstalledVersionStep ==
    ASSUME MInv, AddInstalledVersion
    PROVE  MInv'
<1> DEFINE i == spot[1]
           v == packages[content[i].entry.plugin]
           e == [content[i] EXCEPT !.installed = v]
<1>1. /\ at = "updating" /\ spot[1] <= Len(content) /\ spot[2] = 0
      /\ content' = [content EXCEPT ![spot[1]] = e]
      /\ Proceed(v)
      /\ UNCHANGED <<outside, at, query, fetches, answer>>
  BY DEF AddInstalledVersion, Entry
<1>2. i \in 1..Len(content) /\ ListingTypeOK /\ Len(content) \in Nat
  <2>1. content \in Seq(LocalEntries) /\ ListingTypeOK
    BY DEF MInv, ListingTypeOK
  <2>2. i \in 1..Len(content) + 1
    BY <1>1 DEF MInv, Walk
  <2> QED BY <1>1, <2>1, <2>2, LenProperties
<1>3. content[i] \in LocalEntries /\ v \in Versions \union {0}
  BY <1>2, PackageVersion
<1>4. /\ e \in LocalEntries /\ e.entry = content[i].entry /\ e.installed = v
      /\ e.upgradable = content[i].upgradable
  BY <1>3 DEF LocalEntries
<1>5. Blank(content[i]) /\ Aligned(content[i])
  BY <1>1, <1>2 DEF MInv, Walk
<1> HIDE DEF e, v
<1>6. Honest(e) /\ Aligned(e)
  BY <1>4, <1>5 DEF Blank, Honest, Aligned
<1> QED BY <1>1, <1>3, <1>4, <1>6, Walked

LEMMA AddUpgradableStep ==
    ASSUME MInv, AddUpgradable
    PROVE  MInv'
<1> DEFINE i == spot[1]
           j == spot[2]
           c == content[i]
           offer == c.entry.versions[j]
           m == IF offer.fits /\ known = 0 THEN packages[c.entry.plugin] ELSE known
           mark == offer.fits /\ m < offer.version
           e == [c EXCEPT !.upgradable[j] = mark]
<1>a. at = "updating" /\ i <= Len(content) /\ j > 0
  BY DEF AddUpgradable
<1>1. /\ at = "updating" /\ spot[1] <= Len(content) /\ spot[2] > 0
      /\ content' = [content EXCEPT ![spot[1]] = e]
      /\ Proceed(m)
      /\ UNCHANGED <<outside, at, query, fetches, answer>>
  BY DEF AddUpgradable, Entry
<1>2. i \in 1..Len(content) /\ ListingTypeOK /\ Len(content) \in Nat
  <2>1. content \in Seq(LocalEntries) /\ ListingTypeOK
    BY DEF MInv, ListingTypeOK
  <2>2. i \in 1..Len(content) + 1
    BY <1>a DEF MInv, Walk
  <2> QED BY <1>a, <2>1, <2>2, LenProperties
<1>3. /\ c \in LocalEntries /\ c.entry \in Entries
      /\ packages[c.entry.plugin] \in Versions \union {0}
  BY <1>2, PackageVersion
<1>4. /\ Honest(c) /\ Aligned(c) /\ j <= Len(c.entry.versions)
      /\ c.installed \in {0, known}
  BY <1>a, <1>2 DEF MInv, Walk
<1>5. known \in Versions \union {0} /\ j \in Nat
  BY DEF MInv, ListingTypeOK
<1>6. m \in Versions \union {0}
  BY <1>3, <1>5
<1>7. c.entry.versions \in Seq(Offers)
  BY <1>3 DEF Entries
<1>8. Len(c.entry.versions) \in Nat /\ j \in 1..Len(c.entry.versions)
  <2> DEFINE s == c.entry.versions
  <2>1. Len(s) \in Nat
    BY <1>7, LenProperties
  <2>2. j <= Len(s)
    BY <1>4
  <2> HIDE DEF s
  <2>3. j \in 1..Len(s)
    BY <1>a, <1>5, <2>1, <2>2
  <2> QED BY <2>1, <2>3 DEF s
<1>9. offer \in Offers
  BY <1>7, <1>8, ElementOfSeq
<1>10. offer.fits \in BOOLEAN /\ offer.version \in Nat \ {0}
  BY <1>9, Values DEF Offers
<1>11. c.upgradable \in Seq(BOOLEAN)
  BY <1>3 DEF LocalEntries
<1>12. Len(c.upgradable) = Len(c.entry.versions)
  BY <1>4 DEF Aligned
<1> DEFINE u == [c.upgradable EXCEPT ![j] = mark]
<1>13. /\ u \in Seq(BOOLEAN) /\ Len(u) = Len(c.upgradable)
       /\ \A k \in 1..Len(c.upgradable) : u[k] = IF k = j THEN mark ELSE c.upgradable[k]
  <2>1. mark \in BOOLEAN
    OBVIOUS
  <2> HIDE DEF mark
  <2> QED BY <1>8, <1>11, <1>12, <2>1, ExceptSeq
<1>14. e = [c EXCEPT !.upgradable = u]
  OBVIOUS
<1> HIDE DEF u, e
<1>15. /\ e \in LocalEntries /\ e.entry = c.entry /\ e.installed = c.installed
       /\ e.upgradable = u
  BY <1>3, <1>13, <1>14 DEF LocalEntries
<1>16. Aligned(e)
  BY <1>12, <1>13, <1>15 DEF Aligned
<1>17. m \in Nat /\ c.installed \in {0, m}
  <2>1. m = known \/ known = 0
    OBVIOUS
  <2>2. \A v \in Versions \union {0} : v \in Nat
    BY Values
  <2>3. m \in Nat
    BY <1>6, <2>2
  <2> QED BY <1>4, <2>1, <2>3
<1>18. ASSUME NEW k \in DOMAIN e.upgradable, e.upgradable[k]
       PROVE  /\ e.entry.versions[k].fits
              /\ e.entry.versions[k].version > e.installed
  <2>1. k \in 1..Len(c.upgradable)
    BY <1>13, <1>15, LenProperties
  <2>2. CASE k = j
    <3>1. mark
      BY <1>13, <1>15, <1>18, <2>1, <2>2
    <3>2. offer.fits /\ m < offer.version
      BY <3>1
    <3>3. offer.version > c.installed
      BY <1>10, <1>17, <3>2
    <3> QED BY <1>15, <2>2, <3>2, <3>3
  <2>3. CASE k # j
    <3>1. c.upgradable[k]
      BY <1>13, <1>15, <1>18, <2>1, <2>3
    <3>2. k \in DOMAIN c.upgradable
      BY <1>11, <2>1, LenProperties
    <3> QED BY <1>4, <1>15, <3>1, <3>2 DEF Honest
  <2> QED BY <2>2, <2>3
<1>19. Honest(e)
  BY <1>18 DEF Honest
<1>20. e.installed \in {0, m} /\ e.entry = content[spot[1]].entry
  BY <1>15, <1>17
<1> HIDE DEF m
<1> QED BY <1>1, <1>6, <1>15, <1>16, <1>19, <1>20, Walked

LEMMA NothingSelected ==
    ASSUME query \in QueryType, NEW s \in Seq(LocalEntries), Len(s) = 0
    PROVE  Select(s) = <<>>
<1>1. Matching(s) = {}
  <2>1. 1..0 = {}
    OBVIOUS
  <2> QED BY <2>1 DEF Matching
<1>2. Cardinality(Matching(s)) = 0
  BY <1>1, FS_EmptySet
<1>3. /\ query.offset \in Nat /\ query.limit \in Nat \union {Nothing} /\ Nothing \notin Nat
  BY Values DEF QueryType
<1>4. PageSize(0) = 0
  BY <1>3 DEF PageSize
<1>5. Select(s) \in Seq(LocalEntries) /\ Len(Select(s)) = 0
  BY <1>2, <1>4, Selected
<1> QED BY <1>5, EmptySeq

LEMMA ListedStep ==
    ASSUME MInv, Listed
    PROVE  MInv'
<1>1. /\ at = "updating" /\ spot[1] > Len(content)
      /\ query' = query /\ content' = content /\ fetches' = fetches
      /\ market' = market /\ packages' = packages /\ spot' = spot /\ known' = known
      /\ \/ at' = "refused" /\ answer' = answer
         \/ at' = "counting" /\ answer' = [answer EXCEPT !.items = Select(content)]
  BY DEF Listed, outside, listing
<1>same. query' = query /\ content' = content
  BY <1>1
<1>2. /\ ListingTypeOK /\ Fetches /\ Walk /\ Shown
      /\ query \in QueryType /\ content \in Seq(LocalEntries)
      /\ answer \in [items : Seq(LocalEntries), total : Nat, filtered : Nat]
  BY DEF MInv, ListingTypeOK
<1>3. Fetches' /\ Walk'
  BY <1>1, <1>2 DEF Fetches, Walk
<1>4. CASE at' = "refused" /\ answer' = answer
  <2>1. ListingTypeOK'
    BY <1>1, <1>2, <1>4 DEF ListingTypeOK, Over
  <2>2. Shown'
    BY <1>2, <1>4 DEF Shown
  <2> QED BY <1>3, <2>1, <2>2 DEF MInv
<1>5. CASE at' = "counting" /\ answer' = [answer EXCEPT !.items = Select(content)]
  <2>1. Select(content) \in Seq(LocalEntries)
    BY <1>2, Selected
  <2>2. /\ answer' \in [items : Seq(LocalEntries), total : Nat, filtered : Nat]
        /\ answer'.items = Select(content)
    BY <1>2, <1>5, <2>1
  <2>3. ListingTypeOK'
    BY <1>1, <1>2, <1>5, <2>2 DEF ListingTypeOK
  <2>4. \A k \in 1..Len(Select(content)) : Honest(Select(content)[k])
    BY <1>1, <1>2, Selected DEF Walk
  <2>5. Len(content) \in Nat /\ spot[1] = Len(content) + 1
    <3>1. Len(content) \in Nat /\ spot[1] \in Nat
      BY <1>2, LenProperties DEF ListingTypeOK
    <3> QED BY <1>1, <1>2, <3>1 DEF Walk
  <2>6. IF spot[1] > 1 THEN content # <<>> ELSE Select(content) = <<>>
    BY <1>2, <2>5, NothingSelected, EmptySeq
  <2>7. Select(content)' = Select(content)
    BY <1>same DEF Select, Page, Sorted, Before, Precedes, Less, Key, Matching,
       Match, StrictMatch, SearchMatch
  <2>8. Shown'
    BY <1>1, <1>5, <2>2, <2>4, <2>6, <2>7 DEF Shown, SomeListed
  <2> QED BY <1>3, <2>3, <2>8 DEF MInv
<1> QED BY <1>1, <1>4, <1>5

LEMMA CountStep ==
    ASSUME MInv, Count
    PROVE  MInv'
<1>1. /\ at = "counting" /\ at' = "filtering" /\ GetContent
      /\ answer' = [answer EXCEPT !.total = Len(content')]
      /\ query' = query /\ market' = market /\ packages' = packages
      /\ spot' = spot /\ known' = known
  BY DEF Count, outside, listing
<1>2. /\ ListingTypeOK /\ Fetches /\ Walk /\ Shown
      /\ answer \in [items : Seq(LocalEntries), total : Nat, filtered : Nat]
  BY DEF MInv, ListingTypeOK
<1>3. /\ content' \in Seq(LocalEntries)
      /\ content # <<>> => content' = content
      /\ fetches' \in {fetches, fetches + 1}
  BY <1>1, <1>2, GotContent
<1>4. Len(content') \in Nat
  BY <1>3, LenProperties
<1>5. /\ answer' \in [items : Seq(LocalEntries), total : Nat, filtered : Nat]
      /\ answer'.items = answer.items /\ answer'.total = Len(content')
  BY <1>1, <1>2, <1>4
<1>6. fetches = 1 /\ fetches' \in 0..2
  BY <1>1, <1>2, <1>3 DEF Fetches
<1>7. ListingTypeOK'
  BY <1>1, <1>2, <1>3, <1>5, <1>6 DEF ListingTypeOK
<1>8. Fetches' /\ Walk'
  BY <1>1, <1>6 DEF Fetches, Walk
<1>9. Select(content)' = Select(content')
  BY <1>1 DEF Select, Page, Sorted, Before, Precedes, Less, Key, Matching,
     Match, StrictMatch, SearchMatch
<1>10. Shown'
  <2>1. IF SomeListed THEN content # <<>> /\ answer.items = Select(content)
        ELSE answer.items = <<>>
    BY <1>1, <1>2 DEF Shown
  <2>2. SomeListed' <=> SomeListed
    BY <1>1 DEF SomeListed
  <2>3. IF SomeListed' THEN content' # <<>> /\ answer'.items = Select(content)'
        ELSE answer'.items = <<>>
    BY <1>3, <1>5, <1>9, <2>1, <2>2
  <2> QED BY <1>1, <1>2, <1>5, <2>3 DEF Shown
<1> QED BY <1>7, <1>8, <1>10 DEF MInv

LEMMA CountFilteredStep ==
    ASSUME MInv, CountFiltered
    PROVE  MInv'
<1>1. /\ at = "filtering" /\ at' = "answered" /\ GetContent
      /\ answer' = [answer EXCEPT !.filtered = Cardinality(Matching(content'))]
      /\ query' = query /\ market' = market /\ packages' = packages
      /\ spot' = spot /\ known' = known
  BY DEF CountFiltered, outside, listing
<1>2. /\ ListingTypeOK /\ Fetches /\ Walk /\ Shown /\ query \in QueryType
      /\ answer \in [items : Seq(LocalEntries), total : Nat, filtered : Nat]
  BY DEF MInv, ListingTypeOK
<1>3. /\ content' \in Seq(LocalEntries)
      /\ content # <<>> => content' = content
      /\ fetches' \in {fetches, fetches + 1}
  BY <1>1, <1>2, GotContent
<1>4. Cardinality(Matching(content')) \in Nat
  BY <1>2, <1>3, Selected, Placed
<1>5. /\ answer' \in [items : Seq(LocalEntries), total : Nat, filtered : Nat]
      /\ answer'.items = answer.items /\ answer'.total = answer.total
      /\ answer'.filtered = Cardinality(Matching(content'))
  BY <1>1, <1>2, <1>4
<1>6. fetches' \in 0..3
  BY <1>1, <1>2, <1>3 DEF Fetches, ListingTypeOK
<1>7. ListingTypeOK'
  BY <1>1, <1>2, <1>3, <1>5, <1>6 DEF ListingTypeOK, Over
<1>8. Fetches' /\ Walk'
  BY <1>1 DEF Fetches, Walk
<1>9. Select(content)' = Select(content') /\ Matching(content)' = Matching(content')
  BY <1>1 DEF Select, Page, Sorted, Before, Precedes, Less, Key, Matching,
     Match, StrictMatch, SearchMatch
<1>10. Shown'
  <2>1. /\ IF SomeListed THEN content # <<>> /\ answer.items = Select(content)
           ELSE answer.items = <<>>
        /\ SomeListed => answer.total = Len(content)
    BY <1>1, <1>2 DEF Shown
  <2>2. SomeListed' <=> SomeListed
    BY <1>1 DEF SomeListed
  <2>3. /\ IF SomeListed' THEN content' # <<>> /\ answer'.items = Select(content)'
           ELSE answer'.items = <<>>
        /\ SomeListed' => answer'.total = Len(content')
    BY <1>3, <1>5, <1>9, <2>1, <2>2
  <2> QED BY <1>1, <1>2, <1>5, <1>9, <2>3 DEF Shown
<1> QED BY <1>7, <1>8, <1>10 DEF MInv

-----------------------------------------------------------------------------
(* The theorems.                                                           *)

THEOREM ListingInductive == Spec => []MInv
<1>1. MInv /\ [Next]_vars => MInv'
  <2> SUFFICES ASSUME MInv, [Next]_vars PROVE MInv'
    OBVIOUS
  <2>1. ASSUME NEW q \in Queries, Request(q) PROVE MInv'
    BY <2>1, RequestStarts
  <2>2. CASE FetchFails
    BY <2>2, FetchFailsStep
  <2>3. CASE List
    BY <2>3, ListStep
  <2>4. CASE AddInstalledVersion
    BY <2>4, AddInstalledVersionStep
  <2>5. CASE AddUpgradable
    BY <2>5, AddUpgradableStep
  <2>6. CASE Listed
    BY <2>6, ListedStep
  <2>7. CASE Count
    BY <2>7, CountStep
  <2>8. CASE CountFiltered
    BY <2>8, CountFilteredStep
  <2>9. market \in Seq(Entries) /\ packages \in [Plugins -> Versions \union {0}]
    BY DEF MInv, ListingTypeOK
  <2>10. ASSUME NEW p \in Plugins, NEW v \in Versions \union {0}, PackageChanges(p, v)
         PROVE  MInv'
    <3>1. market' = market /\ packages' \in [Plugins -> Versions \union {0}]
      BY <2>9, <2>10 DEF PackageChanges
    <3> QED BY <2>9, <2>10, <3>1, OutsideStep DEF PackageChanges
  <2>11. ASSUME NEW m \in Markets, MarketChanges(m) PROVE MInv'
    <3>1. packages' = packages /\ market' \in Seq(Entries)
      BY <2>11, MarketListingAssumption DEF MarketChanges
    <3> QED BY <2>9, <2>11, <3>1, OutsideStep DEF MarketChanges
  <2>12. CASE UNCHANGED vars
    BY <2>9, <2>12, OutsideStep DEF vars, outside
  <2> QED
    BY <2>1, <2>2, <2>3, <2>4, <2>5, <2>6, <2>7, <2>8, <2>10, <2>11, <2>12
       DEF Next, RequestStep
<1> QED BY <1>1, ListingInit, PTL DEF Spec

(* The variables keep their types, and one GET /market asks the market     *)
(* three times at most.                                                    *)
THEOREM ListingTypeCorrect == Spec => []ListingTypeOK
<1>1. MInv => ListingTypeOK
  BY DEF MInv
<1> QED BY <1>1, ListingInductive, PTL

(* What is offered as an upgrade is newer than the installed version shown *)
(* beside it, for any market and whatever happens to the packages while    *)
(* MarketPluginUpdater.update reads them (db.py:82-116).                   *)
THEOREM UpgradableIsNewerHolds == Spec => []UpgradableIsNewer
<1>1. MInv => UpgradableIsNewer
  <2> SUFFICES ASSUME MInv, NEW k \in DOMAIN answer.items PROVE Honest(answer.items[k])
    BY DEF UpgradableIsNewer, Honest
  <2>1. answer.items \in Seq(LocalEntries)
    BY DEF MInv, ListingTypeOK
  <2>2. k \in 1..Len(answer.items)
    BY <2>1, LenProperties
  <2> QED BY <2>2 DEF MInv, Shown
<1> QED BY <1>1, ListingInductive, PTL

(* The page is as long as the number of matching plugins says, that number *)
(* is at most the number of plugins, and is that number without filters:   *)
(* the three calls of Market.get count the same content (http.py:126-137). *)
THEOREM AnswerAddsUpHolds == Spec => []AnswerAddsUp
<1>1. MInv => AnswerAddsUp
  <2> SUFFICES ASSUME MInv, at = "answered", SomeListed
               PROVE  /\ Len(answer.items) = PageSize(answer.filtered)
                      /\ answer.filtered <= answer.total
                      /\ Unfiltered => answer.filtered = answer.total
    BY DEF AnswerAddsUp
  <2>1. /\ query \in QueryType /\ content \in Seq(LocalEntries)
        /\ answer.items = Select(content)
        /\ answer.total = Len(content)
        /\ answer.filtered = Cardinality(Matching(content))
    BY DEF MInv, ListingTypeOK, Shown
  <2>2. Len(answer.items) = PageSize(answer.filtered)
    BY <2>1, Selected
  <2>3. /\ Len(content) \in Nat /\ IsFiniteSet(1..Len(content))
        /\ Cardinality(1..Len(content)) = Len(content)
    <3>1. Len(content) \in Nat
      BY <2>1, LenProperties
    <3> QED BY <3>1, UpTo
  <2>4. Matching(content) \in SUBSET (1..Len(content))
    BY DEF Matching
  <2>5. answer.filtered <= answer.total
    BY <2>1, <2>3, <2>4, FS_Subset
  <2>6. ASSUME Unfiltered PROVE Matching(content) = 1..Len(content)
    <3> SUFFICES ASSUME NEW i \in 1..Len(content) PROVE Match(content[i])
      BY DEF Matching
    <3>1. content[i].entry \in Entries
      BY PackageVersion DEF MInv
    <3>2. content[i].entry.plugin \in Plugins
      BY <3>1 DEF Entries
    <3> QED BY <2>6, <3>2 DEF Unfiltered, Match, StrictMatch, SearchMatch
  <2> QED BY <2>1, <2>2, <2>3, <2>5, <2>6
<1> QED BY <1>1, ListingInductive, PTL

(* The pages of one list neither overlap nor skip: the k-th item of a page *)
(* is the one with its place among all that match (db.py:150-157).         *)
THEOREM PageInOrderHolds == Spec => []PageInOrder
<1>1. MInv => PageInOrder
  <2> DEFINE I == Matching(content)
  <2> SUFFICES ASSUME MInv, at \in {"counting", "filtering", "answered"},
                      NEW k \in DOMAIN answer.items
               PROVE  /\ Cardinality({i \in I : Precedes(content[i], answer.items[k])})
                            < query.offset + k
                      /\ Cardinality({i \in I : ~Precedes(answer.items[k], content[i])})
                            >= query.offset + k
    BY DEF PageInOrder
  <2>1. /\ query \in QueryType /\ content \in Seq(LocalEntries)
        /\ answer.items \in Seq(LocalEntries)
    BY DEF MInv, ListingTypeOK
  <2>2. k \in 1..Len(answer.items)
    BY <2>1, LenProperties
  <2>3. answer.items = Select(content)
    <3>1. answer.items # <<>>
      BY <2>2
    <3> QED BY <3>1 DEF MInv, Shown
  <2>4. I \in SUBSET (1..Len(content))
    BY DEF Matching
  <2>5. PICK i \in I : /\ Place(content, I, i) = query.offset + k
                       /\ answer.items[k] = content[i]
    BY <2>1, <2>2, <2>3, Selected
  <2> HIDE DEF I
  <2> DEFINE upTo == {j \in I : Before(content, j, i)}
             earlier == {j \in I : Precedes(content[j], content[i])}
             notLater == {j \in I : ~Precedes(content[i], content[j])}
  <2>6. IsFiniteSet(I) /\ IsFiniteSet(upTo) /\ IsFiniteSet(notLater)
    <3>1. IsFiniteSet(I) /\ upTo \in SUBSET I /\ notLater \in SUBSET I
      BY <2>1, <2>4, Placed
    <3> QED BY <3>1, FS_Subset
  <2>7. Cardinality(upTo) = query.offset + k
    BY <2>5 DEF Place
  <2>8. earlier \subseteq upTo /\ i \in upTo /\ i \notin earlier
    BY <2>1, <2>4, BeforeIsTotal DEF Before
  <2>9. upTo \subseteq notLater
    BY <2>1, <2>4, PrecedesOneWay DEF Before
  <2>10. /\ Cardinality(earlier) <= Cardinality(upTo)
         /\ Cardinality(upTo) = Cardinality(earlier) => upTo = earlier
         /\ Cardinality(upTo) <= Cardinality(notLater)
    BY <2>6, <2>8, <2>9, FS_Subset
  <2>11. Cardinality(upTo) \in Nat /\ Cardinality(earlier) \in Nat
    BY <2>6, <2>8, FS_Subset, FS_CardinalityType
  <2>12. Cardinality(earlier) < query.offset + k
    BY <2>7, <2>8, <2>10, <2>11
  <2>13. Cardinality(notLater) >= query.offset + k
    BY <2>6, <2>7, <2>10, <2>11, FS_CardinalityType
  <2> QED BY <2>5, <2>12, <2>13
<1> QED BY <1>1, ListingInductive, PTL

(* How far the two disagreements go that the runs show.  The market is asked *)
(* again within a request only when what it sent was empty, since that is    *)
(* what MarketProxy takes for nothing sent (db.py:63).                       *)
THEOREM OnlyEmptyIsAskedAgain == Spec => [](SomeListed => FetchedOnce)
<1> DEFINE Once == SomeListed => fetches <= 1
<1>1. Init => Once
  BY DEF Init
<1>2. ASSUME MInv, Once, [Next]_vars PROVE Once'
  <2>1. /\ at = "listing" => fetches = 0
        /\ at \in {"updating", "counting"} => fetches = 1
        /\ at \in {"counting", "filtering"} /\ SomeListed => content # <<>>
    BY <1>2 DEF MInv, Fetches, Shown
  <2>2. ASSUME NEW q \in Queries, Request(q) PROVE Once'
    BY <2>2 DEF Request
  <2>3. CASE FetchFails
    BY <1>2, <2>1, <2>3 DEF FetchFails, listing, SomeListed
  <2>4. CASE List
    <3>1. spot'[1] = 1
      BY <2>4 DEF List
    <3> QED BY <3>1 DEF SomeListed
  <2>5. CASE AddInstalledVersion \/ AddUpgradable \/ Listed
    <3>1. at = "updating" /\ fetches' = fetches
      BY <2>5 DEF AddInstalledVersion, AddUpgradable, Listed
    <3> QED BY <2>1, <3>1
  <2>6. CASE Count \/ CountFiltered
    <3>1. at \in {"counting", "filtering"} /\ GetContent /\ spot' = spot
      BY <2>6 DEF Count, CountFiltered, listing
    <3> QED BY <1>2, <2>1, <3>1 DEF GetContent, SomeListed
  <2>7. CASE UNCHANGED <<fetches, listing>>
    BY <1>2, <2>7 DEF SomeListed, listing
  <2> QED
    BY <1>2, <2>2, <2>3, <2>4, <2>5, <2>6, <2>7
       DEF Next, RequestStep, PackageChanges, MarketChanges, vars
<1>3. Once => (SomeListed => FetchedOnce)
  BY DEF FetchedOnce
<1> QED BY <1>1, <1>2, <1>3, ListingInductive, PTL DEF Spec

(* A limit is the greatest number of items returned, for every market and   *)
(* every query but those that ask for none (db.py:198-200).                 *)
THEOREM OnlyZeroIsNoLimit == Spec => [](query.limit # 0 => LimitIsMaximum)
<1>1. MInv => (query.limit # 0 => LimitIsMaximum)
  <2> SUFFICES ASSUME MInv, at = "answered", query.limit # Nothing, query.limit # 0
               PROVE  Len(answer.items) <= query.limit
    BY DEF LimitIsMaximum
  <2>1. /\ query \in QueryType /\ content \in Seq(LocalEntries)
        /\ answer.items \in Seq(LocalEntries)
    BY DEF MInv, ListingTypeOK
  <2>2. query.limit \in Nat /\ query.offset \in Nat
    BY <2>1 DEF QueryType
  <2>3. CASE SomeListed
    <3>1. Len(answer.items) = PageSize(Cardinality(Matching(content)))
      BY <2>1, <2>3, Selected DEF MInv, Shown
    <3>2. Cardinality(Matching(content)) \in Nat
      <4>1. Matching(content) \in SUBSET (1..Len(content))
        BY DEF Matching
      <4> QED BY <2>1, <4>1, Placed
    <3> QED BY <2>2, <3>1, <3>2 DEF PageSize
  <2>4. CASE ~SomeListed
    <3>1. answer.items = <<>>
      BY <2>4 DEF MInv, Shown
    <3> QED BY <2>2, <3>1
  <2> QED BY <2>3, <2>4
<1> QED BY <1>1, ListingInductive, PTL

=============================================================================
