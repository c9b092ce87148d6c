--------------------------- MODULE MarketListing ---------------------------
(***************************************************************************)
(* GET /market (http.py, service.py, db.py): one request lists the         *)
(* market's plugins, with what is installed of them, and then counts them  *)
(* twice.  The three calls share a MarketProxy, which keeps the market's   *)
(* content, and list_ writes what it reads of the installed packages into  *)
(* that content, one plugin and one version after the other.  Meanwhile    *)
(* tasks install and remove packages, and the market changes.              *)
(*                                                                         *)
(* Requests share nothing, so one at a time is enough.                     *)
(***************************************************************************)
EXTENDS Naturals, Sequences, FiniteSets

CONSTANTS Plugins,
          Versions,   (* plugin versions, in their order                   *)
          Nothing,    (* Python's None                                     *)
          Markets,    (* what the market may answer                        *)
          Queries     (* the query strings                                 *)

Offers == [version : Versions, fits : BOOLEAN]

(* A plugin of the market.  "name" stands for any field one can order by,  *)
(* and need not be there.                                                  *)
Entries == [plugin : Plugins, name : Nat \union {Nothing}, versions : Seq(Offers)]

(* installed_version and upgradable are unset, which get() takes for None. *)
Local(e) == [entry |-> e, installed |-> 0,
             upgradable |-> [j \in DOMAIN e.versions |-> FALSE]]

(* "plugin" is a strict filter, and "plugins" and "versions" are the       *)
(* fields the search text is found in.  Without a search it is all.        *)
QueryType == [plugin : Plugins \union {Nothing},
              installed : BOOLEAN \union {Nothing},
              plugins : SUBSET Plugins, versions : SUBSET Versions,
              order : {"name", "installed_version"}, desc : BOOLEAN,
              limit : Nat \union {Nothing}, offset : Nat]

ASSUME MarketListingAssumption ==
    /\ Versions \subseteq Nat \ {0}
    /\ Nothing \notin Nat \union Plugins \union BOOLEAN
    /\ Markets \subseteq Seq(Entries)
    /\ Queries \subseteq QueryType

VARIABLES market,     (* what the market has now                           *)
          packages,   (* the versions installed now, 0 for none            *)
          at,
          query,
          content,    (* MarketProxy._content                              *)
          fetches,    (* how often the proxy asked the market              *)
          spot,       (* the plugin and the version list_ has come to      *)
          known,      (* Plugin._metadata of that plugin: its version      *)
          answer

outside == <<market, packages>>
listing == <<spot, known>>
vars == <<outside, at, query, content, fetches, listing, answer>>

NoAnswer == [items |-> <<>>, total |-> 0, filtered |-> 0]

Over == {"idle", "answered", "failed", "refused"}

Init ==
    /\ market \in Markets
    /\ packages = [p \in Plugins |-> 0]
    /\ at = "idle"
    /\ query \in Queries
    /\ content = <<>>
    /\ fetches = 0
    /\ spot = <<0, 0>>
    /\ known = 0
    /\ answer = NoAnswer

-----------------------------------------------------------------------------
(* Filters, order and pages.                                               *)

(* InstalledVersionMatcher, and the other strict filters.                  *)
StrictMatch(e) ==
    /\ query.plugin \in {Nothing, e.entry.plugin}
    /\ query.installed \in {Nothing, e.installed # 0}

SearchMatch(e) == e.entry.plugin \in query.plugins \/ e.installed \in query.versions

Match(e) == StrictMatch(e) /\ SearchMatch(e)

Matching(s) == {i \in 1..Len(s) : Match(s[i])}

Key(e) == IF query.order = "name" THEN e.entry.name ELSE e.installed

(* AlwaysLast is greater than anything, and not less than itself.          *)
Less(a, b) == Key(a) # Nothing /\ (Key(b) = Nothing \/ Key(a) < Key(b))

(* "desc" turns the order round, the plugins without the key included.     *)
Precedes(a, b) == IF query.desc THEN Less(b, a) ELSE Less(a, b)

(* None compares with nothing, not with itself either.                     *)
Unsortable(s, I) ==
    /\ query.order = "installed_version"
    /\ Cardinality(I) > 1
    /\ \E i \in I : s[i].installed = 0

(* Python's sort is stable, in both directions.                            *)
Before(s, i, j) ==
    \/ Precedes(s[i], s[j])
    \/ ~Precedes(s[j], s[i]) /\ i <= j

(* The elements of s at the places I, in order.                            *)
Sorted(s, I) ==
    LET Place(i) == Cardinality({j \in I : Before(s, j, i)}) IN
    [k \in 1..Cardinality(I) |-> s[CHOOSE i \in I : Place(i) = k]]

(* A limit of 0 is no limit.                                               *)
Page(s) ==
    SubSeq(s, query.offset + 1,
           IF query.limit \in {Nothing, 0} \/ query.limit + query.offset > Len(s)
           THEN Len(s)
           ELSE query.limit + query.offset)

(* Mutant: the page is cut out before it is sorted.                        *)
SelectPageFirst(s) ==
    LET page == Page(SelectSeq(s, Match)) IN Sorted(page, DOMAIN page)

Select(s) == Page(Sorted(s, Matching(s)))

-----------------------------------------------------------------------------
(* The request.                                                            *)

Request(q) ==
    /\ at \in Over
    /\ at' = "listing"
    /\ query' = q
    /\ content' = <<>>
    /\ fetches' = 0
    /\ answer' = NoAnswer
    /\ UNCHANGED <<outside, listing>>

(* The proxy asks the market as long as it has nothing.                    *)
GetContent ==
    IF content = <<>>
    THEN /\ content' = [i \in DOMAIN market |-> Local(market[i])]
         /\ fetches' = fetches + 1
    ELSE UNCHANGED <<content, fetches>>

(* Mutant: what the market could not be asked for is asked again.          *)
FetchFailsRetries ==
    /\ at \in {"listing", "counting", "filtering"}
    /\ content = <<>>
    /\ fetches' = fetches + 1
    /\ UNCHANGED <<outside, at, query, content, listing, answer>>

(* No connection, or a content of None that nothing can be done with.      *)
FetchFails ==
    /\ at \in {"listing", "counting", "filtering"}
    /\ content = <<>>
    /\ fetches' = fetches + 1
    /\ at' = "failed"
    /\ UNCHANGED <<outside, query, content, listing, answer>>

List ==
    /\ at = "listing"
    /\ GetContent
    /\ at' = "updating"
    /\ spot' = <<1, 0>>
    /\ known' = 0
    /\ UNCHANGED <<outside, query, answer>>

Entry == content[spot[1]].entry

(* The next version of the plugin, or the next plugin, with its own Plugin *)
(* object.                                                                 *)
Proceed(metadata) ==
    IF spot[2] < Len(Entry.versions)
    THEN spot' = <<spot[1], spot[2] + 1>> /\ known' = metadata
    ELSE spot' = <<spot[1] + 1, 0>> /\ known' = 0

AddInstalledVersion ==
    /\ at = "updating"
    /\ spot[1] <= Len(content)
    /\ spot[2] = 0
    /\ content' = [content EXCEPT ![spot[1]].installed = packages[Entry.plugin]]
    /\ Proceed(packages[Entry.plugin])
    /\ UNCHANGED <<outside, at, query, fetches, answer>>

(* Mutant: Plugin.metadata reads the file each time.                       *)
AddUpgradableUncached ==
    /\ at = "updating"
    /\ spot[1] <= Len(content)
    /\ spot[2] > 0
    /\ LET offer == Entry.versions[spot[2]] IN
       /\ content' = [content EXCEPT ![spot[1]].upgradable[spot[2]] =
                         offer.fits /\ packages[Entry.plugin] < offer.version]
       /\ Proceed(packages[Entry.plugin])
    /\ UNCHANGED <<outside, at, query, fetches, answer>>

(* The file is read for a version that fits, until it was there once.      *)
AddUpgradable ==
    /\ at = "updating"
    /\ spot[1] <= Len(content)
    /\ spot[2] > 0
    /\ LET offer == Entry.versions[spot[2]]
           metadata == IF offer.fits /\ known = 0
                       THEN packages[Entry.plugin]
                       ELSE known IN
       /\ content' = [content EXCEPT ![spot[1]].upgradable[spot[2]] =
                         offer.fits /\ metadata < offer.version]
       /\ Proceed(metadata)
    /\ UNCHANGED <<outside, at, query, fetches, answer>>

Listed ==
    /\ at = "updating"
    /\ spot[1] > Len(content)
    /\ IF Unsortable(content, Matching(content))
       THEN at' = "refused" /\ UNCHANGED answer
       ELSE /\ at' = "counting"
            /\ answer' = [answer EXCEPT !.items = Select(content)]
    /\ UNCHANGED <<outside, query, content, fetches, listing>>

Count ==
    /\ at = "counting"
    /\ GetContent
    /\ at' = "filtering"
    /\ answer' = [answer EXCEPT !.total = Len(content')]
    /\ UNCHANGED <<outside, query, listing>>

(* Mutant: the count looks at the installed packages again.                *)
CountFilteredAfresh ==
    LET Now(e) == [e EXCEPT !.installed = packages[e.entry.plugin]]
        MatchingNow(s) == {i \in 1..Len(s) : Match(Now(s[i]))} IN
    /\ at = "filtering"
    /\ GetContent
    /\ at' = "answered"
    /\ answer' = [answer EXCEPT !.filtered = Cardinality(MatchingNow(content'))]
    /\ UNCHANGED <<outside, query, listing>>

(* It counts what list_ wrote, with no look at the installed packages, and *)
(* without order and page.                                                 *)
CountFiltered ==
    /\ at = "filtering"
    /\ GetContent
    /\ at' = "answered"
    /\ answer' = [answer EXCEPT !.filtered = Cardinality(Matching(content'))]
    /\ UNCHANGED <<outside, query, listing>>

-----------------------------------------------------------------------------
(* Meanwhile.                                                              *)

PackageChanges(p, v) ==
    /\ packages[p] # v
    /\ packages' = [packages EXCEPT ![p] = v]
    /\ UNCHANGED <<market, at, query, content, fetches, listing, answer>>

MarketChanges(m) ==
    /\ market' = m
    /\ UNCHANGED <<packages, at, query, content, fetches, listing, answer>>

-----------------------------------------------------------------------------

RequestStep ==
    \/ \E q \in Queries : Request(q)
    \/ FetchFails
    \/ List
    \/ AddInstalledVersion
    \/ AddUpgradable
    \/ Listed
    \/ Count
    \/ CountFiltered

Next ==
    \/ RequestStep
    \/ \E p \in Plugins, v \in Versions \union {0} : PackageChanges(p, v)
    \/ \E m \in Markets : MarketChanges(m)

Spec == Init /\ [][Next]_vars

-----------------------------------------------------------------------------
(* Properties.                                                             *)

LocalEntries == [entry : Entries, installed : Versions \union {0},
                 upgradable : Seq(BOOLEAN)]

ListingTypeOK ==
    /\ market \in Seq(Entries)
    /\ packages \in [Plugins -> Versions \union {0}]
    /\ at \in Over \union {"listing", "updating", "counting", "filtering"}
    /\ query \in QueryType
    /\ content \in Seq(LocalEntries)
    /\ fetches \in 0..3
    /\ spot \in Nat \X Nat
    /\ known \in Versions \union {0}
    /\ answer \in [items : Seq(LocalEntries), total : Nat, filtered : Nat]

(* How many of n matching plugins are on the page.                          *)
PageSize(n) ==
    LET rest == IF n > query.offset THEN n - query.offset ELSE 0 IN
    IF query.limit \in {Nothing, 0} \/ query.limit > rest THEN rest ELSE query.limit

Unfiltered ==
    /\ query.plugin = Nothing
    /\ query.installed = Nothing
    /\ query.plugins = Plugins

(* The market had plugins when they were listed.                            *)
SomeListed == spot[1] > 1

(* The parts of an answer agree, although packages and market change        *)
(* between the calls that make them: the page is as long as the number of   *)
(* matching plugins says, which is at most the number of plugins, and is    *)
(* that number when nothing was filtered (http.py:112-137).  It is not so   *)
(* of a market that was empty at first, see FetchedOnce.                    *)
AnswerAddsUp ==
    at = "answered" /\ SomeListed =>
        /\ Len(answer.items) = PageSize(answer.filtered)
        /\ answer.filtered <= answer.total
        /\ Unfiltered => answer.filtered = answer.total

(* The k-th item of the page is the one with that place among all that      *)
(* match: no more than the offset and its predecessors on the page come     *)
(* before it, and no fewer do not come after.  Whoever asks for one page    *)
(* after the other of an unchanged market sees all of it.                   *)
PageInOrder ==
    at \in {"counting", "filtering", "answered"} =>
        \A k \in DOMAIN answer.items :
            LET item == answer.items[k]
                earlier == {i \in Matching(content) : Precedes(content[i], item)}
                notLater == {i \in Matching(content) : ~Precedes(item, content[i])} IN
            /\ Cardinality(earlier) < query.offset + k
            /\ Cardinality(notLater) >= query.offset + k

(* A version that is offered as an upgrade is for this Wazo and newer than  *)
(* the installed version shown beside it, whenever the package was          *)
(* installed, replaced or removed while the list was made.                  *)
UpgradableIsNewer ==
    \A k \in DOMAIN answer.items :
        LET item == answer.items[k] IN
        \A j \in DOMAIN item.upgradable :
            item.upgradable[j] =>
                /\ item.entry.versions[j].fits
                /\ item.entry.versions[j].version > item.installed

(* "The proxy will only fetch the content of the market once, it is meant   *)
(* to be instanciated at each received HTTP request." (db.py:54)            *)
FetchedOnce == fetches <= 1

(* "Maximum number of items to return in the list" (api.yml:205)            *)
LimitIsMaximum ==
    at = "answered" /\ query.limit # Nothing => Len(answer.items) <= query.limit

=============================================================================
