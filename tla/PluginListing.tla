--------------------------- MODULE PluginListing ---------------------------
(***************************************************************************)
(* GET /plugins (http.py, service.py, db.py, debian.py) while tasks install*)
(* and remove: dpkg is asked once for the packages of the plugins' section,*)
(* and the metadata file of each is opened one after the other.  All of it *)
(* is done twice, for the items and for their number.                      *)
(*                                                                         *)
(* dpkg goes on listing a package that was removed and not purged, and the *)
(* section may hold packages that are no plugin's.                         *)
(***************************************************************************)
EXTENDS PackageHistory, PackageNames

CONSTANTS Readers,    (* the HTTP threads that answer GET /plugins         *)
          NameOf,     (* namespace and name of each plugin                 *)
          Strangers,  (* packages of the section that are not plugins'     *)
          Rank        (* dpkg-query's order of the packages                *)

PackageOf(p) == PackageName(NameOf[p])

AllPackages == {PackageOf(p) : p \in Plugins} \union Strangers

ASSUME PluginListingAssumption ==
    /\ NameOf \in [Plugins -> PluginNames]
    /\ \A p, q \in Plugins : NameOf[p] = NameOf[q] => p = q
    /\ \A s \in Strangers : ExtractNamespaceAndName(s) = Unnamed
    /\ Rank \in [AllPackages -> Nat]
    /\ \A e, f \in AllPackages : Rank[e] = Rank[f] => e = f
    /\ IsFiniteSet(Plugins) /\ IsFiniteSet(Strangers)

VARIABLES get,       (* the request of each reader                         *)
          known,     (* the plugins that dpkg has an entry of              *)
          meanwhile  (* history: what was there while the request ran      *)

listingVars == <<get, known, meanwhile>>
allVars == <<historyVars, listingVars>>

(* Where list_ is: dpkg was asked, the packages left, "plugin" is bound,   *)
(* the metadata found; and the answer.                                     *)
NoGet == [at |-> "idle", asked |-> FALSE, left |-> {}, bound |-> FALSE,
          found |-> {}, items |-> {}, total |-> 0]

Present == {p \in Plugins : Installed(p)}
Metadata(S) == {[plugin |-> p, version |-> pkg[p].version] : p \in S}

Listing(r) == get[r].at \in {"listing", "counting"}

(* seen: what was there at some moment; stayed: at every moment; waited:   *)
(* the tasks whose end the bus had told of before.                         *)
Now == [seen |-> Metadata(Present), stayed |-> Present,
        waited |-> {c \in Contexts : told[c] = <<"completed">>}]

ListingInit ==
    /\ HistoryInit
    /\ get = [r \in Readers |-> NoGet]
    /\ known = Present
    /\ meanwhile = [r \in Readers |-> Now]

-----------------------------------------------------------------------------

Request(r) ==
    /\ ~Listing(r)
    /\ get' = [get EXCEPT ![r] = [NoGet EXCEPT !.at = "listing"]]
    /\ meanwhile' = [meanwhile EXCEPT ![r] = Now]
    /\ UNCHANGED known

(* dpkg-query -W, with the packages that were removed.                     *)
ListPackages(r) ==
    /\ Listing(r)
    /\ ~get[r].asked
    /\ get' = [get EXCEPT ![r].asked = TRUE, ![r].bound = FALSE, ![r].found = {},
                          ![r].left = {PackageOf(p) : p \in known} \union Strangers]
    /\ UNCHANGED <<known, meanwhile>>

First(r, e) == e \in get[r].left /\ \A f \in get[r].left : Rank[e] <= Rank[f]

(* Plugin.metadata: the file at namespace/name, when it is there.          *)
Read(package) ==
    Metadata({p \in Present : NameOf[p] = ExtractNamespaceAndName(package)})

(* Mutant: what dpkg lists is taken to be installed.                       *)
ReadPackageUnchecked(r) ==
    \E e \in get[r].left :
        /\ First(r, e)
        /\ ExtractNamespaceAndName(e) # Unnamed
        /\ get' = [get EXCEPT ![r].left = @ \ {e}, ![r].bound = TRUE,
                      ![r].found = @ \union
                          Metadata({p \in Plugins : NameOf[p] = ExtractNamespaceAndName(e)})]
        /\ UNCHANGED <<known, meanwhile>>

(* Mutant: the try clause is around the loop.                              *)
ReadPackageBreaks(r) ==
    \E e \in get[r].left :
        /\ First(r, e)
        /\ ExtractNamespaceAndName(e) # Unnamed
        /\ get' = [get EXCEPT ![r].left = IF Read(e) = {} THEN {} ELSE @ \ {e},
                              ![r].bound = TRUE,
                              ![r].found = @ \union Read(e)]
        /\ UNCHANGED <<known, meanwhile>>

(* A package without a metadata file is logged and left out.               *)
ReadPackage(r) ==
    \E e \in get[r].left :
        /\ First(r, e)
        /\ ExtractNamespaceAndName(e) # Unnamed
        /\ get' = [get EXCEPT ![r].left = @ \ {e}, ![r].bound = TRUE,
                              ![r].found = @ \union Read(e)]
        /\ UNCHANGED <<known, meanwhile>>

(* The log names the plugin before, and raises when there was none.        *)
SkipStranger(r) ==
    \E e \in get[r].left :
        /\ First(r, e)
        /\ ExtractNamespaceAndName(e) = Unnamed
        /\ get' = IF get[r].bound
                  THEN [get EXCEPT ![r].left = @ \ {e}]
                  ELSE [get EXCEPT ![r].at = "failed"]
        /\ UNCHANGED <<known, meanwhile>>

(* list_ returns, to be answered, and to be counted.                       *)
Return(r) ==
    /\ Listing(r)
    /\ get[r].asked
    /\ get[r].left = {}
    /\ get' = IF get[r].at = "listing"
              THEN [get EXCEPT ![r].at = "counting", ![r].asked = FALSE,
                               ![r].items = get[r].found]
              ELSE [get EXCEPT ![r].at = "answered",
                               ![r].total = Cardinality(get[r].found)]
    /\ UNCHANGED <<known, meanwhile>>

ReadStep(r) == Listing(r) /\ (ReadPackage(r) \/ SkipStranger(r))

(* A removed package keeps its entry, for its postrm script.               *)
TasksMove ==
    /\ HistoryNext
    /\ known' = known \union Present'
    /\ meanwhile' = [r \in Readers |->
                        IF Listing(r)
                        THEN [meanwhile[r] EXCEPT
                                 !.seen = @ \union Metadata(Present)',
                                 !.stayed = @ \intersect Present']
                        ELSE meanwhile[r]]
    /\ UNCHANGED get

ListingNext ==
    \/ TasksMove
    \/ /\ \E r \in Readers : Request(r) \/ ListPackages(r) \/ ReadStep(r) \/ Return(r)
       /\ UNCHANGED historyVars

ListingSpec == ListingInit /\ [][ListingNext]_allVars

-----------------------------------------------------------------------------
(* Properties.                                                             *)

Items == [plugin : Plugins, version : Versions]

Gets == [at : {"idle", "listing", "counting", "answered", "failed"},
         asked : BOOLEAN, left : SUBSET AllPackages, bound : BOOLEAN,
         found : SUBSET Items, items : SUBSET Items, total : Nat]

Histories == [seen : SUBSET Items, stayed : SUBSET Plugins, waited : SUBSET Contexts]

GetTypeOK ==
    /\ get \in [Readers -> Gets]
    /\ known \in SUBSET Plugins
    /\ meanwhile \in [Readers -> Histories]

PluginsOf(items) == {i.plugin : i \in items}

Answered200(r) == get[r].at = "answered"

(* What GET /plugins lists was installed, in the version it gives, at some  *)
(* moment while the request ran, and it counts no more than were: db.py:240,*)
(* where dpkg also lists what was removed, and the packages change between  *)
(* the reads.                                                               *)
ListedWereThere ==
    \A r \in Readers :
        Answered200(r) =>
            /\ get[r].items \subseteq meanwhile[r].seen
            /\ get[r].total <= Cardinality(PluginsOf(meanwhile[r].seen))

(* A plugin that is installed all the while is listed and counted, whatever *)
(* comes and goes around it, and whatever other packages are in the section.*)
StayedAreListed ==
    \A r \in Readers :
        Answered200(r) =>
            /\ meanwhile[r].stayed \subseteq PluginsOf(get[r].items)
            /\ Cardinality(meanwhile[r].stayed) <= get[r].total

(* The listing fails only for a package that is no plugin's and that comes  *)
(* before all the plugins that were there: the except clause of list_ is    *)
(* for such packages, but its log takes a plugin to be there (db.py:248).   *)
FailsOnlyFirst ==
    \A r \in Readers :
        get[r].at = "failed" =>
            \E s \in Strangers : \A p \in meanwhile[r].stayed : Rank[s] < Rank[PackageOf(p)]

(* Whoever waits for "completed" and then lists finds what was installed,   *)
(* unless its file has disappeared since gdebi was done (since the install  *)
(* began, when it had nothing to do), and does not find what was            *)
(* uninstalled, unless a file has appeared since apt-get was done: the      *)
(* order in which test_plugin_installation.py uses the service, while other *)
(* tasks, and a command whose worker was killed, go on.                     *)
WaitedThenListed ==
    \A r \in Readers, c \in Contexts :
        Answered200(r) /\ c \in meanwhile[r].waited =>
            /\ /\ order[c].kind = "install"
               /\ ~NothingFits(c)
               /\ Plugin(c) \notin since[c].gone
               => Plugin(c) \in PluginsOf(get[r].items)
            /\ /\ order[c].kind = "uninstall"
               /\ Plugin(c) \notin since[c].came
               => Plugin(c) \notin PluginsOf(get[r].items)

=============================================================================
