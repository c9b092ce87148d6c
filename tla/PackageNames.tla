---------------------------- MODULE PackageNames ----------------------------
(***************************************************************************)
(* The Debian package of a plugin is named prefix-name-namespace, and the  *)
(* plugin is found back from that name with a regular expression           *)
(* (db.py:257-299, debian.py:45).  Names may hold dashes, namespaces may   *)
(* not (schema.py): it takes that to tell where the one ends and the other *)
(* begins.                                                                 *)
(*                                                                         *)
(* A name is the sequence of its characters, and the prefix is one.        *)
(***************************************************************************)
EXTENDS Naturals, Sequences

CONSTANTS Alnum,   (* [a-z0-9]                                             *)
          Dash,
          Prefix,  (* default_debian_package_prefix                        *)
          Unnamed  (* what the regular expression answers without a match  *)

NonEmpty(S) == Seq(S) \ {<<>>}

Names == NonEmpty(Alnum \union {Dash})
Namespaces == NonEmpty(Alnum)
PluginNames == [namespace : Namespaces, name : Names]

ASSUME PackageNamesAssumption ==
    /\ Dash \notin Alnum
    /\ Unnamed \notin PluginNames

PackageName(plugin) ==
    <<Prefix, Dash>> \o plugin.name \o <<Dash>> \o plugin.namespace

(* The regular expression matches with its last dash at i: before it comes *)
(* a prefix and a name, after it a namespace.                              *)
MatchesAt(package, i) ==
    /\ SubSeq(package, 1, 2) = <<Prefix, Dash>>
    /\ package[i] = Dash
    /\ SubSeq(package, 3, i - 1) \in Names
    /\ SubSeq(package, i + 1, Len(package)) \in Namespaces

(* Mutant: the name is [a-z0-9]+ too.                                      *)
ExtractPlainName(package) ==
    LET found == {i \in 4..Len(package) - 1 :
                     MatchesAt(package, i) /\ SubSeq(package, 3, i - 1) \in Seq(Alnum)}
        i == CHOOSE j \in found : TRUE IN
    IF found = {} THEN Unnamed
    ELSE [namespace |-> SubSeq(package, i + 1, Len(package)),
          name |-> SubSeq(package, 3, i - 1)]

ExtractNamespaceAndName(package) ==
    LET found == {i \in 4..Len(package) - 1 : MatchesAt(package, i)}
        i == CHOOSE j \in found : TRUE IN
    IF found = {} THEN Unnamed
    ELSE [namespace |-> SubSeq(package, i + 1, Len(package)),
          name |-> SubSeq(package, 3, i - 1)]

=============================================================================
