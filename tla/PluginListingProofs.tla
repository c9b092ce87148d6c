------------------------ MODULE PluginListingProofs ------------------------
(***************************************************************************)
(* Proofs about PluginListing for any plugins and packages, any number of  *)
(* readers and any tasks.                                                  *)
(*                                                                         *)
(* The packages change while list_ goes through its snapshot of them.  The *)
(* invariant follows a plugin that stays installed: its package is in what *)
(* is left of the snapshot, or its metadata was found; and a package whose *)
(* metadata was found is not in what is left.                              *)
(***************************************************************************)
EXTENDS PluginListing, PackageOutcomeProofs, PackageNamesProofs, FiniteSetTheorems

(* A request g with its history m.  Here once, because list_ runs twice.   *)
Runs(g) == g.at \in {"listing", "counting"}

(* What was found was there, and no plugin was found twice.                *)
AllReal(g, m) ==
    /\ g.found \subseteq m.seen
    /\ g.items \subseteq m.seen
    /\ Runs(g) => Metadata(Present) \subseteq m.seen
    /\ \A i, j \in g.found : i.plugin = j.plugin => i = j
    /\ Runs(g) => \A p \in PluginsOf(g.found) : PackageOf(p) \notin g.left

(* What stayed is found or still to come to.                               *)
NoneMissed(g, m) ==
    /\ Runs(g) => m.stayed \subseteq Present
    /\ Runs(g) /\ ~g.asked => g.left = {}
    /\ Runs(g) /\ g.asked =>
          \A p \in m.stayed : \/ PackageOf(p) \in g.left
                              \/ p \in PluginsOf(g.found) /\ g.bound
    /\ g.at \in {"counting", "answered"} => m.stayed \subseteq PluginsOf(g.items)
    /\ g.at = "answered" =>
          /\ m.stayed \subseteq PluginsOf(g.found)
          /\ g.total = Cardinality(g.found)

(* It failed at a package before all of those.                             *)
FailedFirst(g, m) ==
    g.at = "failed" => \E s \in Strangers : \A p \in m.stayed : Rank[s] < Rank[PackageOf(p)]

ReaderOK(g, m) == AllReal(g, m) /\ NoneMissed(g, m) /\ FailedFirst(g, m)

ListingInv ==
    /\ GetTypeOK
    /\ Present \subseteq known
    /\ \A r \in Readers : ReaderOK(get[r], meanwhile[r])

-----------------------------------------------------------------------------
(* Packages and plugins.                                                   *)

LEMMA OwnPackage ==
    /\ \A p \in Plugins : ExtractNamespaceAndName(PackageOf(p)) = NameOf[p]
    /\ \A p \in Plugins : ExtractNamespaceAndName(PackageOf(p)) # Unnamed
    /\ \A p, q \in Plugins : PackageOf(p) = PackageOf(q) => p = q
BY RoundTrip, PluginListingAssumption, PackageNamesAssumption DEF PackageOf

(* A package with a plugin's name is that plugin's, and reading it gives   *)
(* that plugin's metadata or nothing.                                      *)
LEMMA ReadsItsPackage ==
    ASSUME NEW e \in AllPackages, ExtractNamespaceAndName(e) # Unnamed
    PROVE  \E q \in Plugins :
              /\ e = PackageOf(q)
              /\ Read(e) = IF q \in Present THEN {[plugin |-> q, version |-> pkg[q].version]}
                           ELSE {}
<1>1. PICK q \in Plugins : e = PackageOf(q)
  BY PluginListingAssumption DEF AllPackages
<1>2. ExtractNamespaceAndName(e) = NameOf[q]
  BY <1>1, OwnPackage
<1>3. \A p \in Present : NameOf[p] = NameOf[q] <=> p = q
  BY PluginListingAssumption DEF Present
<1>4. {p \in Present : NameOf[p] = NameOf[q]} = IF q \in Present THEN {q} ELSE {}
  BY <1>3
<1>5. Read(e) = Metadata({p \in Present : NameOf[p] = NameOf[q]})
  BY <1>2 DEF Read
<1> QED
  BY <1>1, <1>4, <1>5 DEF Metadata

LEMMA MetadataType == TaskTypeOK => Metadata(Present) \subseteq Items
<1> SUFFICES ASSUME TaskTypeOK, NEW p \in Present
             PROVE  [plugin |-> p, version |-> pkg[p].version] \in Items
  BY DEF Metadata
<1>1. p \in Plugins /\ pkg[p].version # 0
  BY DEF Present, Installed
<1>2. pkg[p].version \in Versions \union {0}
  BY <1>1 DEF TaskTypeOK, Packages
<1> QED BY <1>1, <1>2 DEF Items

-----------------------------------------------------------------------------
(* The steps of the readers.                                               *)

(* A step of one reader leaves the others as they are.                     *)
LEMMA OneReader ==
    ASSUME ListingInv, UNCHANGED taskVars, UNCHANGED known,
           NEW r \in Readers, NEW g \in Gets, NEW m \in Histories,
           get' = [get EXCEPT ![r] = g], meanwhile' = [meanwhile EXCEPT ![r] = m],
           ReaderOK(g, m)
    PROVE  ListingInv'
<1>1. pkg' = pkg
  BY DEF taskVars, packageVars
<1>2. Present' = Present /\ Metadata(Present)' = Metadata(Present)
  BY <1>1 DEF Present, Installed, Metadata
<1>3. GetTypeOK'
  BY DEF ListingInv, GetTypeOK
<1>4. ASSUME NEW q \in Readers PROVE ReaderOK(get[q], meanwhile[q])'
  <2>1. CASE q = r
    <3>1. get'[q] = g /\ meanwhile'[q] = m
      BY <2>1 DEF ListingInv, GetTypeOK
    <3> QED BY <1>2, <3>1 DEF ReaderOK, AllReal, NoneMissed, FailedFirst, Runs, PluginsOf
  <2>2. CASE q # r
    <3>1. get'[q] = get[q] /\ meanwhile'[q] = meanwhile[q]
      BY <2>2 DEF ListingInv, GetTypeOK
    <3>2. ReaderOK(get[q], meanwhile[q])
      BY DEF ListingInv
    <3> QED BY <1>2, <3>1, <3>2 DEF ReaderOK, AllReal, NoneMissed, FailedFirst, Runs, PluginsOf
  <2> QED BY <2>1, <2>2
<1>5. (Present \subseteq known)'
  BY <1>2 DEF ListingInv
<1> QED BY <1>3, <1>4, <1>5 DEF ListingInv

(* The same for a step that has no history to write.                       *)
LEMMA OneGet ==
    ASSUME ListingInv, UNCHANGED <<taskVars, known, meanwhile>>,
           NEW r \in Readers, NEW g \in Gets,
           get' = [get EXCEPT ![r] = g],
           ReaderOK(g, meanwhile[r])
    PROVE  ListingInv'
<1>1. meanwhile' = [meanwhile EXCEPT ![r] = meanwhile[r]] /\ meanwhile[r] \in Histories
  BY DEF ListingInv, GetTypeOK
<1> QED BY <1>1, OneReader

LEMMA RequestStep ==
    ASSUME ListingInv, TaskTypeOK, NEW r \in Readers, Request(r), UNCHANGED taskVars
    PROVE  ListingInv'
<1> DEFINE g == [NoGet EXCEPT !.at = "listing"]
<1>1. /\ g.at = "listing" /\ g.asked = FALSE /\ g.left = {} /\ g.bound = FALSE
      /\ g.found = {} /\ g.items = {} /\ g.total = 0
      /\ g \in Gets
  BY DEF NoGet, Gets
<1>2. /\ Now \in Histories
      /\ Now.stayed = Present /\ Now.seen = Metadata(Present)
  BY MetadataType DEF Now, Histories, Present
<1> HIDE DEF g
<1>3. ReaderOK(g, Now)
  BY <1>1, <1>2 DEF ReaderOK, AllReal, NoneMissed, FailedFirst, Runs, PluginsOf
<1>4. get' = [get EXCEPT ![r] = g] /\ meanwhile' = [meanwhile EXCEPT ![r] = Now] /\ known' = known
  BY DEF Request, g
<1> QED BY <1>1, <1>2, <1>3, <1>4, OneReader

LEMMA ListPackagesStep ==
    ASSUME ListingInv, NEW r \in Readers, ListPackages(r), UNCHANGED taskVars
    PROVE  ListingInv'
<1> DEFINE L == {PackageOf(p) : p \in known} \union Strangers
           g == [get[r] EXCEPT !.asked = TRUE, !.bound = FALSE, !.found = {}, !.left = L]
<1>1. get[r] \in Gets /\ known \subseteq Plugins /\ Present \subseteq known
      /\ ReaderOK(get[r], meanwhile[r])
  BY DEF ListingInv, GetTypeOK
<1>2. L \subseteq AllPackages
  BY <1>1 DEF AllPackages
<1>3. \A p \in known : PackageOf(p) \in L
  OBVIOUS
<1> HIDE DEF L
<1>4. /\ g.at = get[r].at /\ g.asked = TRUE /\ g.left = L /\ g.bound = FALSE
      /\ g.found = {} /\ g.items = get[r].items /\ g.total = get[r].total
      /\ g \in Gets
  BY <1>1, <1>2 DEF Gets
<1>5. get' = [get EXCEPT ![r] = g]
  BY <1>1 DEF ListPackages, L, ListingInv, GetTypeOK
<1>6. Runs(get[r])
  BY DEF ListPackages, Listing, Runs
<1> HIDE DEF g
<1>7. AllReal(g, meanwhile[r])
  BY <1>1, <1>4 DEF ReaderOK, AllReal, Runs, PluginsOf
<1>8. NoneMissed(g, meanwhile[r])
  <2>1. NoneMissed(get[r], meanwhile[r])
    BY <1>1 DEF ReaderOK
  <2>2. \A p \in meanwhile[r].stayed : PackageOf(p) \in L
    BY <1>1, <1>3, <1>6, <2>1 DEF NoneMissed
  <2>3. Runs(g) /\ g.at # "answered"
    BY <1>4, <1>6 DEF Runs
  <2>4. g.at = "counting" => meanwhile[r].stayed \subseteq PluginsOf(g.items)
    BY <1>4, <2>1 DEF NoneMissed
  <2>5. meanwhile[r].stayed \subseteq Present
    BY <1>6, <2>1 DEF NoneMissed
  <2> QED BY <1>4, <2>2, <2>3, <2>4, <2>5 DEF NoneMissed
<1>9. FailedFirst(g, meanwhile[r])
  BY <1>4, <1>6 DEF FailedFirst, Runs
<1> QED BY <1>4, <1>5, <1>7, <1>8, <1>9, OneGet DEF ListPackages, ReaderOK

LEMMA ReadPackageStep ==
    ASSUME ListingInv, TaskTypeOK, NEW r \in Readers,
           Listing(r), ReadPackage(r), UNCHANGED taskVars
    PROVE  ListingInv'
<1>1. PICK e \in get[r].left :
          /\ First(r, e)
          /\ ExtractNamespaceAndName(e) # Unnamed
          /\ get' = [get EXCEPT ![r].left = @ \ {e}, ![r].bound = TRUE,
                                ![r].found = @ \union Read(e)]
          /\ UNCHANGED <<known, meanwhile>>
  BY DEF ReadPackage
<1> DEFINE m == meanwhile[r]
           F == get[r].found \union Read(e)
           g == [get[r] EXCEPT !.left = @ \ {e}, !.bound = TRUE, !.found = F]
<1>2. get[r] \in Gets /\ m \in Histories /\ ReaderOK(get[r], m)
  BY DEF ListingInv, GetTypeOK
<1>3. Runs(get[r])
  BY DEF Listing, Runs
<1>4. e \in AllPackages
  BY <1>1, <1>2 DEF Gets
<1>5. PICK q \in Plugins :
          /\ e = PackageOf(q)
          /\ Read(e) = IF q \in Present THEN {[plugin |-> q, version |-> pkg[q].version]}
                       ELSE {}
  BY <1>1, <1>4, ReadsItsPackage
<1>6. Read(e) \subseteq Items
  BY <1>5, MetadataType DEF Metadata
<1>7. \A i \in Read(e) : i.plugin = q /\ i = [plugin |-> q, version |-> pkg[q].version]
  BY <1>5
<1>8. get' = [get EXCEPT ![r] = g]
  BY <1>1, <1>2 DEF ListingInv, GetTypeOK
<1>9. F \subseteq Items
  BY <1>2, <1>6 DEF Gets
<1>10. q \in Present => q \in PluginsOf(F)
  BY <1>5 DEF PluginsOf
<1>11. PluginsOf(get[r].found) \subseteq PluginsOf(F)
  BY DEF PluginsOf
<1>12. PluginsOf(F) \subseteq PluginsOf(get[r].found) \union {q}
  BY <1>7 DEF PluginsOf
<1>13. PackageOf(q) \notin get[r].left \ {e}
  BY <1>5
<1>14. q \notin PluginsOf(get[r].found)
  BY <1>1, <1>2, <1>3, <1>5 DEF ReaderOK, AllReal
<1>15. /\ g.at = get[r].at /\ g.asked = get[r].asked /\ g.left = get[r].left \ {e}
       /\ g.bound = TRUE /\ g.found = F /\ g.items = get[r].items /\ g.total = get[r].total
       /\ g \in Gets
  BY <1>2, <1>9 DEF Gets
<1>16. \A i, j \in F : i.plugin = j.plugin => i = j
  <2> SUFFICES ASSUME NEW i \in F, NEW j \in F, i.plugin = j.plugin PROVE i = j
    OBVIOUS
  <2>1. CASE i \in get[r].found /\ j \in get[r].found
    BY <1>2, <2>1 DEF ReaderOK, AllReal
  <2>2. CASE i \in Read(e) /\ j \in Read(e)
    BY <1>7, <2>2
  <2>3. CASE i \in get[r].found /\ j \in Read(e)
    BY <1>7, <1>14, <2>3 DEF PluginsOf
  <2>4. CASE i \in Read(e) /\ j \in get[r].found
    BY <1>7, <1>14, <2>4 DEF PluginsOf
  <2> QED BY <2>1, <2>2, <2>3, <2>4
<1>17. \A p \in m.stayed : p \in Plugins /\ (p # q => PackageOf(p) # e)
  BY <1>2, <1>5, OwnPackage DEF Histories
<1> HIDE DEF g, F
<1>18. F \subseteq m.seen
  <2>1. Metadata(Present) \subseteq m.seen /\ get[r].found \subseteq m.seen
    BY <1>2, <1>3 DEF ReaderOK, AllReal
  <2>2. Read(e) \subseteq Metadata(Present)
    BY <1>5 DEF Metadata
  <2> QED BY <2>1, <2>2 DEF F
<1>19. AllReal(g, m)
  BY <1>2, <1>3, <1>12, <1>13, <1>15, <1>16, <1>18 DEF ReaderOK, AllReal, Runs
<1>20. NoneMissed(g, m)
  BY <1>2, <1>3, <1>10, <1>11, <1>15, <1>17, <1>1 DEF ReaderOK, NoneMissed, Runs
<1>21. FailedFirst(g, m)
  BY <1>3, <1>15 DEF FailedFirst, Runs
<1> QED BY <1>1, <1>8, <1>15, <1>19, <1>20, <1>21, OneGet DEF ReaderOK

LEMMA SkipStrangerStep ==
    ASSUME ListingInv, NEW r \in Readers,
           Listing(r), SkipStranger(r), UNCHANGED taskVars
    PROVE  ListingInv'
<1>1. PICK e \in get[r].left :
          /\ First(r, e)
          /\ ExtractNamespaceAndName(e) = Unnamed
          /\ get' = IF get[r].bound
                    THEN [get EXCEPT ![r].left = @ \ {e}]
                    ELSE [get EXCEPT ![r].at = "failed"]
          /\ UNCHANGED <<known, meanwhile>>
  BY DEF SkipStranger
<1> DEFINE m == meanwhile[r]
<1>2. get[r] \in Gets /\ m \in Histories /\ ReaderOK(get[r], m)
  BY DEF ListingInv, GetTypeOK
<1>3. Runs(get[r]) /\ get[r].asked
  BY <1>1, <1>2 DEF Listing, Runs, ReaderOK, NoneMissed
<1>4. \A p \in Plugins : PackageOf(p) # e
  BY <1>1, OwnPackage
<1>5. m.stayed \subseteq Plugins
  BY <1>2 DEF Histories
<1>6. CASE get[r].bound
  <2> DEFINE g == [get[r] EXCEPT !.left = @ \ {e}]
  <2>1. get' = [get EXCEPT ![r] = g]
    BY <1>1, <1>6
  <2>2. /\ g.at = get[r].at /\ g.asked = get[r].asked /\ g.left = get[r].left \ {e}
        /\ g.bound = get[r].bound /\ g.found = get[r].found
        /\ g.items = get[r].items /\ g.total = get[r].total
        /\ g \in Gets
    BY <1>2 DEF Gets
  <2> HIDE DEF g
  <2>3. AllReal(g, m)
    BY <1>2, <2>2 DEF ReaderOK, AllReal, Runs
  <2>4. NoneMissed(g, m)
    BY <1>2, <1>3, <1>4, <1>5, <2>2 DEF ReaderOK, NoneMissed, Runs
  <2>5. FailedFirst(g, m)
    BY <1>3, <2>2 DEF FailedFirst, Runs
  <2> QED BY <1>1, <2>1, <2>2, <2>3, <2>4, <2>5, OneGet DEF ReaderOK
<1>7. CASE ~get[r].bound
  <2> DEFINE g == [get[r] EXCEPT !.at = "failed"]
  <2>1. get' = [get EXCEPT ![r] = g]
    BY <1>1, <1>7
  <2>2. /\ g.at = "failed" /\ g.found = get[r].found /\ g.items = get[r].items
        /\ g \in Gets
    BY <1>2 DEF Gets
  <2>3. e \in AllPackages /\ get[r].left \subseteq AllPackages
    BY <1>1, <1>2 DEF Gets
  <2>4. e \in Strangers
    BY <1>4, <2>3 DEF AllPackages
  <2>5. ASSUME NEW p \in m.stayed PROVE Rank[e] < Rank[PackageOf(p)]
    <3>1. PackageOf(p) \in get[r].left
      BY <1>2, <1>3, <1>7 DEF ReaderOK, NoneMissed
    <3>2. PackageOf(p) # e /\ PackageOf(p) \in AllPackages
      BY <1>4, <1>5, <2>3, <3>1
    <3>3. Rank[e] <= Rank[PackageOf(p)]
      BY <1>1, <3>1 DEF First
    <3>4. /\ Rank[e] \in Nat /\ Rank[PackageOf(p)] \in Nat
          /\ Rank[e] # Rank[PackageOf(p)]
      BY <2>3, <3>2, PluginListingAssumption
    <3> QED BY <3>3, <3>4
  <2> HIDE DEF g
  <2>6. FailedFirst(g, m)
    BY <2>4, <2>5 DEF FailedFirst
  <2>7. AllReal(g, m)
    BY <1>2, <2>2 DEF ReaderOK, AllReal, Runs
  <2>8. NoneMissed(g, m)
    BY <2>2 DEF NoneMissed, Runs
  <2> QED BY <1>1, <2>1, <2>2, <2>6, <2>7, <2>8, OneGet DEF ReaderOK
<1> QED BY <1>6, <1>7

(* What was found is as many plugins, since none was found twice.          *)
LEMMA FoundAreFinite ==
    ASSUME NEW g \in Gets, NEW m, AllReal(g, m)
    PROVE  /\ IsFiniteSet(g.found)
           /\ Cardinality(g.found) = Cardinality(PluginsOf(g.found))
           /\ Cardinality(g.found) \in Nat
<1> DEFINE P == PluginsOf(g.found)
           f == [i \in g.found |-> i.plugin]
<1>1. P \subseteq Plugins
  BY DEF PluginsOf, Gets, Items
<1>2. IsFiniteSet(P)
  BY <1>1, FS_Subset, PluginListingAssumption
<1>3. f \in Injection(g.found, P)
  <2>1. f \in [g.found -> P]
    BY DEF PluginsOf
  <2>2. \A i, j \in g.found : f[i] = f[j] => i = j
    BY DEF AllReal
  <2> HIDE DEF f, P
  <2> QED BY <2>1, <2>2 DEF Injection, IsInjective
<1>4. f \in Surjection(g.found, P)
  <2>1. f \in [g.found -> P]
    BY DEF PluginsOf
  <2>2. \A p \in P : \E i \in g.found : f[i] = p
    BY DEF PluginsOf
  <2> HIDE DEF f, P
  <2> QED BY <2>1, <2>2 DEF Surjection
<1> HIDE DEF f, P
<1>5. IsFiniteSet(g.found) /\ (Cardinality(g.found) = Cardinality(P) <=> f \in Surjection(g.found, P))
  BY <1>2, <1>3, FS_Injection
<1> QED BY <1>4, <1>5, FS_CardinalityType DEF P

LEMMA ReturnStep ==
    ASSUME ListingInv, NEW r \in Readers, Return(r), UNCHANGED taskVars
    PROVE  ListingInv'
<1> DEFINE m == meanwhile[r]
<1>1. get[r] \in Gets /\ m \in Histories /\ ReaderOK(get[r], m)
  BY DEF ListingInv, GetTypeOK
<1>2. Runs(get[r]) /\ get[r].asked /\ get[r].left = {} /\ UNCHANGED <<known, meanwhile>>
  BY DEF Return, Listing, Runs
<1>3. m.stayed \subseteq PluginsOf(get[r].found)
  BY <1>1, <1>2 DEF ReaderOK, NoneMissed
<1>4. CASE get[r].at = "listing"
  <2> DEFINE g == [get[r] EXCEPT !.at = "counting", !.asked = FALSE, !.items = get[r].found]
  <2>1. get' = [get EXCEPT ![r] = g]
    BY <1>1, <1>4 DEF Return, ListingInv, GetTypeOK
  <2>2. /\ g.at = "counting" /\ g.asked = FALSE /\ g.left = {}
        /\ g.found = get[r].found /\ g.items = get[r].found
        /\ g \in Gets
    BY <1>1, <1>2 DEF Gets
  <2> HIDE DEF g
  <2>3. AllReal(g, m)
    BY <1>1, <1>2, <2>2 DEF ReaderOK, AllReal, Runs
  <2>4. NoneMissed(g, m)
    BY <1>1, <1>2, <1>3, <2>2 DEF ReaderOK, NoneMissed, Runs
  <2>5. FailedFirst(g, m)
    BY <2>2 DEF FailedFirst
  <2> QED BY <1>2, <2>1, <2>2, <2>3, <2>4, <2>5, OneGet DEF ReaderOK
<1>5. CASE get[r].at = "counting"
  <2> DEFINE n == Cardinality(get[r].found)
             g == [get[r] EXCEPT !.at = "answered", !.total = n]
  <2>1. get' = [get EXCEPT ![r] = g]
    BY <1>1, <1>5 DEF Return, ListingInv, GetTypeOK
  <2>2. n \in Nat
    BY <1>1, FoundAreFinite DEF ReaderOK
  <2> HIDE DEF n
  <2>3. /\ g.at = "answered" /\ g.total = n
        /\ g.found = get[r].found /\ g.items = get[r].items
        /\ g \in Gets
    BY <1>1, <2>2 DEF Gets
  <2> HIDE DEF g
  <2>4. AllReal(g, m)
    BY <1>1, <2>3 DEF ReaderOK, AllReal, Runs
  <2>5. NoneMissed(g, m)
    BY <1>1, <1>3, <1>5, <2>3 DEF ReaderOK, NoneMissed, Runs, n
  <2>6. FailedFirst(g, m)
    BY <2>3 DEF FailedFirst
  <2> QED BY <1>2, <2>1, <2>3, <2>4, <2>5, <2>6, OneGet DEF ReaderOK
<1> QED BY <1>2, <1>4, <1>5 DEF Runs

-----------------------------------------------------------------------------
(* The steps of the tasks.                                                 *)

(* What stayed is less than it was, what was seen is more.                 *)
LEMMA HistoriesMove ==
    ASSUME NEW g, NEW m, NEW n, ReaderOK(g, m), Runs(g),
           n.seen = m.seen \union Metadata(Present)',
           n.stayed = m.stayed \intersect Present'
    PROVE  ReaderOK(g, n)'
<1>1. AllReal(g, n)'
  BY DEF ReaderOK, AllReal
<1>2. g.at # "answered" /\ g.at # "failed"
  BY DEF Runs
<1>3. g.at = "counting" => n.stayed \subseteq PluginsOf(g.items)
  BY DEF ReaderOK, NoneMissed
<1>4. /\ g.asked => \A p \in n.stayed : \/ PackageOf(p) \in g.left
                                        \/ p \in PluginsOf(g.found) /\ g.bound
      /\ ~g.asked => g.left = {}
      /\ n.stayed \subseteq Present'
  BY DEF ReaderOK, NoneMissed
<1>5. NoneMissed(g, n)'
  BY <1>2, <1>3, <1>4 DEF NoneMissed
<1>6. FailedFirst(g, n)'
  BY <1>2 DEF FailedFirst
<1> QED BY <1>1, <1>5, <1>6 DEF ReaderOK

LEMMA TasksMoveStep ==
    ASSUME ListingInv, TaskTypeOK', TasksMove
    PROVE  ListingInv'
<1>1. /\ get' = get /\ known' = known \union Present'
      /\ \A q \in Readers :
            meanwhile'[q] = IF Listing(q)
                            THEN [meanwhile[q] EXCEPT
                                     !.seen = @ \union Metadata(Present)',
                                     !.stayed = @ \intersect Present']
                            ELSE meanwhile[q]
      /\ meanwhile' = [q \in Readers |-> meanwhile'[q]]
  BY DEF TasksMove
<1>2. Metadata(Present)' \subseteq Items
  <2>1. (TaskTypeOK => Metadata(Present) \subseteq Items)'
    BY MetadataType, PTL
  <2> QED BY <2>1
<1>3. Present' \subseteq Plugins
  BY DEF Present
<1>4. ASSUME NEW q \in Readers
      PROVE  meanwhile'[q] \in Histories /\ ReaderOK(get[q], meanwhile[q])'
  <2> DEFINE g == get[q]
             m == meanwhile[q]
             n == meanwhile'[q]
  <2>1. g \in Gets /\ m \in Histories /\ ReaderOK(g, m) /\ get'[q] = g
    BY <1>1 DEF ListingInv, GetTypeOK
  <2>2. CASE Runs(g)
    <3>1. n = [m EXCEPT !.seen = @ \union Metadata(Present)', !.stayed = @ \intersect Present']
      BY <1>1, <2>2 DEF Listing, Runs
    <3>2. /\ n.seen = m.seen \union Metadata(Present)'
          /\ n.stayed = m.stayed \intersect Present'
          /\ n \in Histories
      BY <1>2, <1>3, <2>1, <3>1 DEF Histories
    <3>3. n \in Histories /\ \E h \in Histories : h = n /\ ReaderOK(g, h)'
      BY <2>1, <2>2, <3>2, HistoriesMove
    <3> QED
      BY <2>1, <3>3 DEF ReaderOK, AllReal, NoneMissed, FailedFirst, Runs, PluginsOf
  <2>3. CASE ~Runs(g)
    <3>1. n = m
      BY <1>1, <2>3 DEF Listing, Runs
    <3> QED
      BY <2>1, <2>3, <3>1 DEF ReaderOK, AllReal, NoneMissed, FailedFirst, Runs, PluginsOf
  <2> QED BY <2>2, <2>3
<1>5. (GetTypeOK /\ Present \subseteq known)'
  BY <1>1, <1>3, <1>4 DEF ListingInv, GetTypeOK
<1> QED
  BY <1>4, <1>5 DEF ListingInv

LEMMA ListingInitOK == ListingInit => ListingInv
<1> SUFFICES ASSUME ListingInit PROVE ListingInv
  OBVIOUS
<1>1. Metadata(Present) \subseteq Items /\ Present \subseteq Plugins
  <2>1. pkg \in [Plugins -> Packages]
    BY PluginTasksAssumption DEF ListingInit, HistoryInit, Init
  <2> QED BY <2>1 DEF Present, Installed, Metadata, Items, Packages
<1>2. /\ NoGet.at = "idle" /\ NoGet.found = {} /\ NoGet.items = {}
      /\ NoGet \in Gets
  BY DEF NoGet, Gets
<1>3. Now \in Histories
  BY <1>1 DEF Now, Histories
<1>4. get = [r \in Readers |-> NoGet] /\ meanwhile = [r \in Readers |-> Now] /\ known = Present
  BY DEF ListingInit
<1>5. GetTypeOK
  BY <1>1, <1>2, <1>3, <1>4 DEF GetTypeOK
<1>6. ReaderOK(NoGet, Now)
  BY <1>2, <1>3 DEF ReaderOK, AllReal, NoneMissed, FailedFirst, Runs, PluginsOf
<1> QED BY <1>1, <1>4, <1>5, <1>6 DEF ListingInv

-----------------------------------------------------------------------------
(* The theorems.                                                           *)

(* Readers only look: with them the tasks do nothing they would not do     *)
(* without, so all that is proved of the tasks holds.                      *)
THEOREM ReadersOnlyLook == ListingSpec => HistorySpec
<1>1. ListingInit => HistoryInit
  BY DEF ListingInit
<1>2. [ListingNext]_allVars => [HistoryNext]_historyVars
  BY DEF ListingNext, TasksMove, allVars
<1> QED BY <1>1, <1>2, PTL DEF ListingSpec, HistorySpec

THEOREM ListingInductive == ListingSpec => []ListingInv
<1>1. ListingInv /\ TaskTypeOK /\ TaskTypeOK' /\ [ListingNext]_allVars => ListingInv'
  <2> SUFFICES ASSUME ListingInv, TaskTypeOK, TaskTypeOK', [ListingNext]_allVars
               PROVE  ListingInv'
    OBVIOUS
  <2>1. CASE TasksMove
    BY <2>1, TasksMoveStep
  <2>2. ASSUME NEW r \in Readers, UNCHANGED taskVars,
               Request(r) \/ ListPackages(r) \/ ReadStep(r) \/ Return(r)
        PROVE  ListingInv'
    BY <2>2, RequestStep, ListPackagesStep, ReadPackageStep, SkipStrangerStep, ReturnStep
       DEF ReadStep
  <2>3. CASE UNCHANGED allVars
    <3>1. get' = get /\ known' = known /\ meanwhile' = meanwhile /\ pkg' = pkg
      BY <2>3 DEF allVars, listingVars, historyVars, taskVars, packageVars
    <3> QED
      BY <3>1 DEF ListingInv, GetTypeOK, ReaderOK, AllReal, NoneMissed, FailedFirst, Present,
                  Metadata, Installed
  <2> QED BY <2>1, <2>2, <2>3 DEF ListingNext, historyVars
<1>2. ListingSpec => []TaskTypeOK
  BY ReadersOnlyLook, HistoryOfTasks, TasksTypeCorrect, PTL
<1> QED BY <1>1, <1>2, ListingInitOK, PTL DEF ListingSpec

(* The listings keep their types whatever the tasks do.                    *)
THEOREM ListingTypeCorrect == ListingSpec => []GetTypeOK
<1>1. ListingInv => GetTypeOK
  BY DEF ListingInv
<1> QED BY <1>1, ListingInductive, PTL

LEMMA SeenPlugins ==
    ASSUME NEW m \in Histories
    PROVE  IsFiniteSet(PluginsOf(m.seen))
<1>1. PluginsOf(m.seen) \subseteq Plugins
  BY DEF PluginsOf, Histories, Items
<1> QED BY <1>1, FS_Subset, PluginListingAssumption

(* What PluginDB.list_ lists and count counts was installed while it ran,  *)
(* although dpkg lists removed packages too and packages come and go       *)
(* between the reads (db.py:240-253).                                      *)
THEOREM ListedWereThereHolds == ListingSpec => []ListedWereThere
<1>1. ListingInv => ListedWereThere
  <2> SUFFICES ASSUME ListingInv, NEW r \in Readers, Answered200(r)
               PROVE  /\ get[r].items \subseteq meanwhile[r].seen
                      /\ get[r].total <= Cardinality(PluginsOf(meanwhile[r].seen))
    BY DEF ListedWereThere
  <2>1. /\ get[r] \in Gets /\ meanwhile[r] \in Histories
        /\ AllReal(get[r], meanwhile[r])
        /\ get[r].total = Cardinality(get[r].found)
    BY DEF ListingInv, GetTypeOK, ReaderOK, NoneMissed, Answered200
  <2>2. PluginsOf(get[r].found) \subseteq PluginsOf(meanwhile[r].seen)
    BY <2>1 DEF AllReal, PluginsOf
  <2>3. Cardinality(PluginsOf(get[r].found)) <= Cardinality(PluginsOf(meanwhile[r].seen))
    BY <2>1, <2>2, SeenPlugins, FS_Subset
  <2>4. get[r].total = Cardinality(PluginsOf(get[r].found))
    BY <2>1, FoundAreFinite
  <2> QED BY <2>1, <2>3, <2>4 DEF AllReal
<1> QED BY <1>1, ListingInductive, PTL

(* A plugin that stays installed is listed and counted, also when its name *)
(* holds dashes and whatever else the section holds (db.py:240-253, 292).  *)
THEOREM StayedAreListedHolds == ListingSpec => []StayedAreListed
<1>1. ListingInv => StayedAreListed
  <2> SUFFICES ASSUME ListingInv, NEW r \in Readers, Answered200(r)
               PROVE  /\ meanwhile[r].stayed \subseteq PluginsOf(get[r].items)
                      /\ Cardinality(meanwhile[r].stayed) <= get[r].total
    BY DEF StayedAreListed
  <2>1. /\ get[r] \in Gets /\ meanwhile[r] \in Histories
        /\ AllReal(get[r], meanwhile[r])
        /\ get[r].total = Cardinality(get[r].found)
        /\ meanwhile[r].stayed \subseteq PluginsOf(get[r].items)
        /\ meanwhile[r].stayed \subseteq PluginsOf(get[r].found)
    BY DEF ListingInv, GetTypeOK, ReaderOK, NoneMissed, Answered200
  <2>2. PluginsOf(get[r].found) \subseteq Plugins
    BY <2>1 DEF PluginsOf, Gets, Items
  <2>3. IsFiniteSet(PluginsOf(get[r].found))
    BY <2>2, FS_Subset, PluginListingAssumption
  <2>4. Cardinality(meanwhile[r].stayed) <= Cardinality(PluginsOf(get[r].found))
    BY <2>1, <2>3, FS_Subset
  <2>5. get[r].total = Cardinality(PluginsOf(get[r].found))
    BY <2>1, FoundAreFinite
  <2> QED BY <2>1, <2>4, <2>5
<1> QED BY <1>1, ListingInductive, PTL

(* Only a package without a plugin's name can make list_ raise, and only   *)
(* when dpkg gives it before the packages of all the plugins that stay     *)
(* (db.py:248-252).                                                        *)
THEOREM FailsOnlyFirstHolds == ListingSpec => []FailsOnlyFirst
<1>1. ListingInv => FailsOnlyFirst
  BY DEF ListingInv, FailsOnlyFirst, ReaderOK, FailedFirst
<1> QED BY <1>1, ListingInductive, PTL

-----------------------------------------------------------------------------
(* Those who wait for "completed" and then list.                           *)

(* What was installed when the bus told of it stays until its file         *)
(* disappears, and what was uninstalled is not seen until one appears.     *)
WaitedOK(r, c) ==
    /\ told[c] = <<"completed">>
    /\ order[c].kind = "install" /\ ~NothingFits(c) =>
          Plugin(c) \in meanwhile[r].stayed \/ Plugin(c) \in since[c].gone
    /\ order[c].kind = "uninstall" =>
          Plugin(c) \notin PluginsOf(meanwhile[r].seen) \/ Plugin(c) \in since[c].came

WaitedInv == \A r \in Readers : \A c \in meanwhile[r].waited : WaitedOK(r, c)

(* What holds of a task that the bus told of before, whatever came since.  *)
ToldOK(c) ==
    /\ at[c] \in Ends /\ Plugin(c) \in Plugins
    /\ order[c].kind = "install" /\ ~NothingFits(c) => WasThere(Plugin(c), c)
    /\ order[c].kind = "uninstall" => WasGone(Plugin(c), c)

TellsTrue == \A c \in Contexts : told[c] = <<"completed">> => ToldOK(c)

Outcomes == CompletedMeansInstalled /\ CompletedMeansRemoved

LEMMA ToldOf == IInv /\ Outcomes => TellsTrue
<1> SUFFICES ASSUME IInv, Outcomes, NEW c \in Contexts, told[c] = <<"completed">>
             PROVE  ToldOK(c)
  BY DEF TellsTrue
<1>1. at[c] \in Ends /\ Plugin(c) \in Plugins
  <2>1. at[c] \in Ends
    BY Verdicts DEF IInv, ContextOK, Telling, TaskTypeOK, Stays, Between, Ends
  <2> QED BY <2>1 DEF IInv, ContextOK, Ends, Requests, Plugin
<1>2. ASSUME order[c].kind = "install", ~NothingFits(c)
      PROVE  WasThere(Plugin(c), c)
  BY <1>1, <1>2 DEF Outcomes, CompletedMeansInstalled, Completed, WasThere
<1>3. ASSUME order[c].kind = "uninstall"
      PROVE  WasGone(Plugin(c), c)
  BY <1>1, <1>3, RemovedWithItself DEF Outcomes, CompletedMeansRemoved, Completed, WasGone
<1> QED BY <1>1, <1>2, <1>3 DEF ToldOK

(* The tasks that have ended do not move.                                  *)
LEMMA EndedIsQuiet ==
    ASSUME NEW c \in Contexts, at[c] \in Ends, Kinds(c)
    PROVE  Quiet(c)
BY DEF Kinds, Born, InCall, Handled, Handling, Onward, Exited, Concluded, Ends, Stays, Steps,
       InstallSteps, UninstallSteps

(* Their history grows.                                                    *)
LEMMA HistoryGrows ==
    ASSUME IInv, HistoryNext, NEW c \in Contexts, at[c] \in Ends
    PROVE  since[c].gone \subseteq since'[c].gone /\ since[c].came \subseteq since'[c].came
<1>1. Began(c) /\ ~Reported(c)
  BY ReportedInCall DEF Began, Ends
<1>2. /\ since'[c].gone = since[c].gone \union Disappeared
      /\ since'[c].came = since[c].came \union Appeared
  BY <1>1 DEF HistoryNext, Remember
<1> QED BY <1>2

LEMMA WaitedMoves ==
    ASSUME IInv, IInv', Outcomes, Outcomes', WaitedInv, TasksMove, ListingInv
    PROVE  WaitedInv'
<1> SUFFICES ASSUME NEW r \in Readers, NEW c \in meanwhile'[r].waited
             PROVE  WaitedOK(r, c)'
  BY DEF WaitedInv
<1> DEFINE m == meanwhile[r]
           n == meanwhile'[r]
<1>1. /\ m \in Histories
      /\ \/ n = [m EXCEPT !.seen = @ \union Metadata(Present)',
                          !.stayed = @ \intersect Present']
         \/ n = m
  BY DEF TasksMove, ListingInv, GetTypeOK
<1>2. /\ n.waited = m.waited /\ m.waited \subseteq Contexts
      /\ \/ n.seen = m.seen \union Metadata(Present)' /\ n.stayed = m.stayed \intersect Present'
         \/ n.seen = m.seen /\ n.stayed = m.stayed
  BY <1>1 DEF Histories
<1>3. c \in Contexts /\ WaitedOK(r, c)
  BY <1>2 DEF WaitedInv
<1>4. HistoryNext /\ [Next]_taskVars
  BY DEF TasksMove, HistoryNext
<1>5. at[c] \in Ends /\ Plugin(c) \in Plugins
  BY <1>3, ToldOf DEF WaitedOK, TellsTrue, ToldOK
<1>6. Quiet(c)
  BY <1>3, <1>4, <1>5, StepKind, EndedIsQuiet DEF StepOf, Kinds
<1>7. PICK p \in Plugins : p = Plugin(c)
  BY <1>5
<1>8. /\ Plugin(c)' = p /\ order'[c] = order[c] /\ told'[c] = <<"completed">>
      /\ NothingFits(c)' = NothingFits(c)
  BY <1>3, <1>6, <1>7 DEF Quiet, Same, WaitedOK, Plugin, NothingFits, Wanted
<1>9. /\ order[c].kind = "install" /\ ~NothingFits(c) => p \in m.stayed \/ p \in since[c].gone
      /\ order[c].kind = "uninstall" => p \notin PluginsOf(m.seen) \/ p \in since[c].came
  BY <1>3, <1>7 DEF WaitedOK
<1>10. since[c].gone \subseteq since'[c].gone /\ since[c].came \subseteq since'[c].came
  BY <1>3, <1>4, <1>5, HistoryGrows
<1>11. /\ order[c].kind = "install" /\ ~NothingFits(c) => p \in Present' \/ p \in since'[c].gone
       /\ order[c].kind = "uninstall" => p \notin Present' \/ p \in since'[c].came
  <2>1. (IInv /\ Outcomes => TellsTrue)'
    BY ToldOf, PTL
  <2>2. ToldOK(c)'
    BY <1>3, <1>8, <2>1 DEF TellsTrue
  <2> QED BY <1>8, <2>2 DEF ToldOK, WasThere, WasGone, Present
<1>12. PluginsOf(m.seen \union Metadata(Present)') \subseteq PluginsOf(m.seen) \union Present'
  BY DEF PluginsOf, Metadata
<1>13. /\ order[c].kind = "install" /\ ~NothingFits(c) => p \in n.stayed \/ p \in since'[c].gone
       /\ order[c].kind = "uninstall" => p \notin PluginsOf(n.seen) \/ p \in since'[c].came
  BY <1>2, <1>9, <1>10, <1>11, <1>12
<1> QED
  BY <1>8, <1>13 DEF WaitedOK, PluginsOf

(* The readers' own steps leave what WaitedOK says of a task.              *)
LEMMA TasksStand ==
    ASSUME UNCHANGED historyVars, NEW r \in Readers, NEW c,
           told[c] = <<"completed">>,
           /\ order[c].kind = "install" /\ ~NothingFits(c) =>
                Plugin(c) \in meanwhile'[r].stayed \/ Plugin(c) \in since[c].gone
           /\ order[c].kind = "uninstall" =>
                Plugin(c) \notin PluginsOf(meanwhile'[r].seen) \/ Plugin(c) \in since[c].came
    PROVE  WaitedOK(r, c)'
<1>1. told' = told /\ order' = order /\ since' = since
  BY DEF historyVars, taskVars, contextVars, handlerVars
<1> QED
  BY <1>1 DEF WaitedOK, Plugin, NothingFits, Wanted, PluginsOf

(* Who asks now has waited for the tasks that were told of by now.         *)
LEMMA WaitedAsks ==
    ASSUME IInv, Outcomes, WaitedInv, ListingInv, NEW r \in Readers, Request(r),
           UNCHANGED historyVars
    PROVE  WaitedInv'
<1>1. /\ meanwhile'[r] = Now
      /\ \A q \in Readers : q # r => meanwhile'[q] = meanwhile[q]
  BY DEF Request, ListingInv, GetTypeOK
<1>2. /\ Now.stayed = Present
      /\ Now.waited = {c \in Contexts : told[c] = <<"completed">>}
      /\ PluginsOf(Now.seen) = PluginsOf(Metadata(Present))
  BY DEF Now
<1>3. PluginsOf(Metadata(Present)) \subseteq Present
  BY DEF PluginsOf, Metadata
<1>4. ASSUME NEW q \in Readers, NEW c \in meanwhile'[q].waited PROVE WaitedOK(q, c)'
  <2>1. CASE q = r
    <3>1. c \in Contexts /\ told[c] = <<"completed">>
      BY <1>1, <1>2, <1>4, <2>1
    <3>2. ToldOK(c)
      BY <3>1, ToldOf DEF TellsTrue
    <3>3. PluginsOf(meanwhile'[q].seen) \subseteq Present /\ meanwhile'[q].stayed = Present
      BY <1>1, <1>2, <1>3, <2>1
    <3>4. /\ order[c].kind = "install" /\ ~NothingFits(c) =>
                Plugin(c) \in meanwhile'[q].stayed \/ Plugin(c) \in since[c].gone
          /\ order[c].kind = "uninstall" =>
                Plugin(c) \notin PluginsOf(meanwhile'[q].seen) \/ Plugin(c) \in since[c].came
      BY <3>2, <3>3 DEF ToldOK, WasThere, WasGone, Present
    <3> QED
      BY <3>1, <3>4, TasksStand
  <2>2. CASE q # r
    <3>1. WaitedOK(q, c) /\ meanwhile'[q] = meanwhile[q]
      BY <1>1, <1>4, <2>2 DEF WaitedInv
    <3> QED
      BY <3>1, TasksStand DEF WaitedOK
  <2> QED BY <2>1, <2>2
<1> QED BY <1>4 DEF WaitedInv

LEMMA WaitedStays ==
    ASSUME WaitedInv, UNCHANGED <<historyVars, meanwhile>>
    PROVE  WaitedInv'
BY TasksStand DEF WaitedInv, WaitedOK

THEOREM WaitedInductive == ListingSpec => []WaitedInv
<1>1. ListingInit => WaitedInv
  <2> SUFFICES ASSUME ListingInit PROVE WaitedInv
    OBVIOUS
  <2>1. \A c \in Contexts : told[c] # <<"completed">>
    BY Verdicts DEF ListingInit, HistoryInit, Init
  <2>2. Now.waited = {}
    BY <2>1 DEF Now
  <2> QED BY <2>2 DEF WaitedInv, ListingInit
<1>2. ASSUME IInv, IInv', Outcomes, Outcomes', ListingInv, WaitedInv,
             [ListingNext]_allVars
      PROVE  WaitedInv'
  <2>1. CASE TasksMove
    BY <1>2, <2>1, WaitedMoves
  <2>2. ASSUME NEW r \in Readers, UNCHANGED historyVars, Request(r)
        PROVE  WaitedInv'
    BY <1>2, <2>2, WaitedAsks
  <2>3. ASSUME NEW r \in Readers, UNCHANGED historyVars,
               ListPackages(r) \/ ReadStep(r) \/ Return(r)
        PROVE  WaitedInv'
    <3>1. UNCHANGED meanwhile
      BY <2>3 DEF ListPackages, ReadStep, ReadPackage, SkipStranger, Return
    <3> QED BY <1>2, <2>3, <3>1, WaitedStays
  <2>4. CASE UNCHANGED allVars
    <3>1. UNCHANGED <<historyVars, meanwhile>>
      BY <2>4 DEF allVars, listingVars
    <3> QED BY <1>2, <3>1, WaitedStays
  <2> QED BY <1>2, <2>1, <2>2, <2>3, <2>4 DEF ListingNext
<1>3. ListingSpec => [](IInv /\ Outcomes)
  <2>1. CompletedMeansInstalled /\ CompletedMeansRemoved => Outcomes
    BY DEF Outcomes
  <2> QED
    BY <2>1, ReadersOnlyLook, HistoryOfTasks, TasksInductive, CompletedMeansInstalledHolds,
       CompletedMeansRemovedHolds, PTL
<1> QED BY <1>1, <1>2, <1>3, ListingInductive, PTL DEF ListingSpec

(* Whoever sees "completed" on the bus and then asks GET /plugins finds    *)
(* what was installed, unless its file has disappeared since, and not what *)
(* was uninstalled, unless a file has appeared since (tasks.py:43, 86,     *)
(* db.py:240): the event is published after the look or the command, and   *)
(* the listing looks after the event.                                      *)
THEOREM WaitedThenListedHolds == ListingSpec => []WaitedThenListed
<1>1. ListingInv /\ WaitedInv => WaitedThenListed
  <2> SUFFICES ASSUME ListingInv, WaitedInv, NEW r \in Readers, NEW c \in Contexts,
                      Answered200(r), c \in meanwhile[r].waited
               PROVE  /\ /\ order[c].kind = "install" /\ ~NothingFits(c)
                         /\ Plugin(c) \notin since[c].gone
                         => Plugin(c) \in PluginsOf(get[r].items)
                      /\ /\ order[c].kind = "uninstall"
                         /\ Plugin(c) \notin since[c].came
                         => Plugin(c) \notin PluginsOf(get[r].items)
    BY DEF WaitedThenListed
  <2>1. WaitedOK(r, c)
    BY DEF WaitedInv
  <2>2. /\ meanwhile[r].stayed \subseteq PluginsOf(get[r].items)
        /\ get[r].items \subseteq meanwhile[r].seen
    BY DEF ListingInv, ReaderOK, AllReal, NoneMissed, Answered200
  <2>3. PluginsOf(get[r].items) \subseteq PluginsOf(meanwhile[r].seen)
    BY <2>2 DEF PluginsOf
  <2> QED BY <2>1, <2>2, <2>3 DEF WaitedOK
<1> QED BY <1>1, WaitedInductive, ListingInductive, PTL

=============================================================================
