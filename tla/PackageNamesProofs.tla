------------------------- MODULE PackageNamesProofs -------------------------
(***************************************************************************)
(* Whatever the characters are, the plugin found back from the name of a   *)
(* plugin's package is that plugin: the last dash of the package's name is *)
(* the one before the namespace, since a namespace holds none, and it is   *)
(* the only place where the regular expression can match.                  *)
(***************************************************************************)
EXTENDS PackageNames, SequenceTheorems, TLAPS

Characters == Alnum \union {Dash, Prefix}

(* What each place of a package's name holds.                              *)
LEMMA PackageNameAt ==
    ASSUME NEW p \in PluginNames
    PROVE  LET s == PackageName(p)
               n == Len(p.name) IN
           /\ p.name \in Seq(Alnum \union {Dash}) /\ p.namespace \in Seq(Alnum)
           /\ n \in Nat \ {0} /\ Len(p.namespace) \in Nat \ {0}
           /\ s \in Seq(Characters)
           /\ Len(s) = n + 3 + Len(p.namespace)
           /\ s[1] = Prefix /\ s[2] = Dash /\ s[n + 3] = Dash
           /\ \A i \in 1..n : s[i + 2] = p.name[i]
           /\ \A i \in 1..Len(p.namespace) : s[n + 3 + i] = p.namespace[i]
<1> DEFINE n == Len(p.name)
           m == Len(p.namespace)
           front == <<Prefix, Dash>> \o p.name
           head == front \o <<Dash>>
<1>1. /\ p.name \in Seq(Alnum \union {Dash}) /\ p.namespace \in Seq(Alnum)
      /\ p.name # <<>> /\ p.namespace # <<>>
  BY DEF PluginNames, Names, Namespaces, NonEmpty
<1>2. n \in Nat \ {0} /\ m \in Nat \ {0}
  BY <1>1, EmptySeq
<1>3. p.name \in Seq(Characters) /\ p.namespace \in Seq(Characters)
  BY <1>1, SeqMonotonic DEF Characters
<1>4. /\ <<Prefix, Dash>> \in Seq(Characters) /\ <<Dash>> \in Seq(Characters)
      /\ Len(<<Prefix, Dash>>) = 2 /\ Len(<<Dash>>) = 1
      /\ <<Prefix, Dash>>[1] = Prefix /\ <<Prefix, Dash>>[2] = Dash /\ <<Dash>>[1] = Dash
  BY DEF Characters
<1>a. Len(p.name) = n /\ Len(p.namespace) = m
  OBVIOUS
<1> HIDE DEF n, m
<1>5. /\ front \in Seq(Characters) /\ Len(front) = n + 2
      /\ \A i \in 1..n + 2 : front[i] = IF i <= 2 THEN <<Prefix, Dash>>[i]
                                                 ELSE p.name[i - 2]
  BY <1>2, <1>3, <1>4, <1>a, ConcatProperties
<1> HIDE DEF front
<1>6. /\ head \in Seq(Characters) /\ Len(head) = n + 3
      /\ \A i \in 1..n + 3 : head[i] = IF i <= n + 2 THEN front[i]
                                                    ELSE <<Dash>>[i - (n + 2)]
  BY <1>2, <1>4, <1>5, ConcatProperties
<1> HIDE DEF head
<1>7. PackageName(p) = head \o p.namespace
  BY DEF PackageName, head, front
<1>8. /\ PackageName(p) \in Seq(Characters) /\ Len(PackageName(p)) = n + 3 + m
      /\ \A i \in 1..n + 3 + m :
            PackageName(p)[i] = IF i <= n + 3 THEN head[i] ELSE p.namespace[i - (n + 3)]
  <2>1. /\ head \o p.namespace \in Seq(Characters)
        /\ Len(head \o p.namespace) = Len(head) + Len(p.namespace)
        /\ \A i \in 1..Len(head) + Len(p.namespace) :
              (head \o p.namespace)[i] = IF i <= Len(head) THEN head[i]
                                         ELSE p.namespace[i - Len(head)]
    BY <1>3, <1>6, ConcatProperties
  <2> QED BY <1>2, <1>6, <1>7, <1>a, <2>1
<1>9. PackageName(p)[1] = Prefix /\ PackageName(p)[2] = Dash
  BY <1>2, <1>4, <1>5, <1>6, <1>8
<1>10. PackageName(p)[n + 3] = Dash
  <2>1. PackageName(p)[n + 3] = head[n + 3]
    BY <1>2, <1>8
  <2>2. head[n + 3] = <<Dash>>[1]
    BY <1>2, <1>6
  <2> QED BY <2>1, <2>2, <1>4
<1>11. ASSUME NEW i \in 1..n PROVE PackageName(p)[i + 2] = p.name[i]
  BY <1>2, <1>5, <1>6, <1>8
<1>12. ASSUME NEW i \in 1..m PROVE PackageName(p)[n + 3 + i] = p.namespace[i]
  BY <1>2, <1>8
<1> QED BY <1>1, <1>2, <1>8, <1>9, <1>10, <1>11, <1>12, <1>a

(* The place of the dash before the namespace.                             *)
LastDash(p) == Len(p.name) + 3

LEMMA PartsOfPackageName ==
    ASSUME NEW p \in PluginNames
    PROVE  LET s == PackageName(p)
               i == LastDash(p) IN
           /\ SubSeq(s, 1, 2) = <<Prefix, Dash>>
           /\ SubSeq(s, 3, i - 1) = p.name
           /\ SubSeq(s, i + 1, Len(s)) = p.namespace
<1> DEFINE s == PackageName(p)
           n == Len(p.name)
           m == Len(p.namespace)
<1>1. /\ p.name \in Seq(Alnum \union {Dash}) /\ p.namespace \in Seq(Alnum)
      /\ n \in Nat \ {0} /\ m \in Nat \ {0}
      /\ s \in Seq(Characters)
      /\ Len(s) = n + 3 + m
      /\ s[1] = Prefix /\ s[2] = Dash
      /\ \A i \in 1..n : s[i + 2] = p.name[i]
      /\ \A i \in 1..m : s[n + 3 + i] = p.namespace[i]
  BY PackageNameAt
<1>2. p.name \in Seq(Characters) /\ p.namespace \in Seq(Characters)
  BY <1>1, SeqMonotonic DEF Characters
<1>3. \A i \in 1..Len(s) : s[i] \in Characters
  BY <1>1, ElementOfSeq
<1> HIDE DEF s, n, m
<1>4. SubSeq(s, 1, 2) = <<Prefix, Dash>>
  <2> DEFINE t == SubSeq(s, 1, 2)
  <2>1. /\ t \in Seq(Characters) /\ Len(t) = 2
        /\ \A i \in 1..2 : t[i] = s[i]
    <3>1. \A i \in 1..2 : s[i] \in Characters
      BY <1>1, <1>3
    <3>2. /\ t \in Seq(Characters) /\ Len(t) = IF 1 <= 2 THEN 2 - 1 + 1 ELSE 0
          /\ \A i \in 1..2 - 1 + 1 : t[i] = s[1 + i - 1]
      BY <3>1, SubSeqProperties
    <3> QED BY <3>2
  <2>2. <<Prefix, Dash>> \in Seq(Characters) /\ Len(<<Prefix, Dash>>) = 2
    BY DEF Characters
  <2>3. \A i \in 1..2 : t[i] = <<Prefix, Dash>>[i]
    BY <1>1, <2>1
  <2> HIDE DEF t
  <2> QED BY <2>1, <2>2, <2>3, SeqEqual DEF t
<1>5. SubSeq(s, 3, n + 2) = p.name
  <2> DEFINE t == SubSeq(s, 3, n + 2)
  <2>1. /\ t \in Seq(Characters) /\ Len(t) = n
        /\ \A i \in 1..n : t[i] = s[i + 2]
    <3>1. \A i \in 3..n + 2 : s[i] \in Characters
      BY <1>1, <1>3
    <3>2. /\ t \in Seq(Characters) /\ Len(t) = IF 3 <= n + 2 THEN (n + 2) - 3 + 1 ELSE 0
          /\ \A i \in 1..(n + 2) - 3 + 1 : t[i] = s[3 + i - 1]
      BY <1>1, <3>1, SubSeqProperties
    <3> HIDE DEF t
    <3> QED BY <1>1, <3>2
  <2> HIDE DEF t
  <2>2. \A i \in 1..n : t[i] = p.name[i]
    BY <1>1, <2>1
  <2> QED BY <1>2, <2>1, <2>2, SeqEqual DEF t, n
<1>6. SubSeq(s, n + 4, Len(s)) = p.namespace
  <2> DEFINE t == SubSeq(s, n + 4, Len(s))
  <2>1. /\ t \in Seq(Characters) /\ Len(t) = m
        /\ \A i \in 1..m : t[i] = s[n + 3 + i]
    <3>1. \A i \in n + 4..Len(s) : s[i] \in Characters
      BY <1>1, <1>3
    <3>2. /\ t \in Seq(Characters)
          /\ Len(t) = IF n + 4 <= Len(s) THEN Len(s) - (n + 4) + 1 ELSE 0
          /\ \A i \in 1..Len(s) - (n + 4) + 1 : t[i] = s[n + 4 + i - 1]
      BY <1>1, <3>1, SubSeqProperties
    <3> HIDE DEF t
    <3> QED BY <1>1, <3>2
  <2> HIDE DEF t
  <2>2. \A i \in 1..m : t[i] = p.namespace[i]
    BY <1>1, <2>1
  <2> QED BY <1>2, <2>1, <2>2, SeqEqual DEF t, m
<1>7. LastDash(p) - 1 = n + 2 /\ LastDash(p) + 1 = n + 4
  BY <1>1 DEF LastDash, n
<1> QED BY <1>4, <1>5, <1>6, <1>7 DEF s

(* The regular expression matches there and nowhere else.                  *)
LEMMA OneMatch ==
    ASSUME NEW p \in PluginNames
    PROVE  {i \in 4..Len(PackageName(p)) - 1 : MatchesAt(PackageName(p), i)} = {LastDash(p)}
<1> DEFINE s == PackageName(p)
           n == Len(p.name)
           m == Len(p.namespace)
<1>1. /\ p.namespace \in Seq(Alnum)
      /\ n \in Nat \ {0} /\ m \in Nat \ {0}
      /\ Len(s) = n + 3 + m
      /\ s[n + 3] = Dash
      /\ \A i \in 1..m : s[n + 3 + i] = p.namespace[i]
  BY PackageNameAt
<1>2. LastDash(p) \in 4..Len(s) - 1
  BY <1>1 DEF LastDash
<1>3. MatchesAt(s, LastDash(p))
  BY <1>1, PartsOfPackageName DEF MatchesAt, PluginNames, LastDash
<1>4. ASSUME NEW i \in 4..Len(s) - 1, MatchesAt(s, i) PROVE i = LastDash(p)
  <2> HIDE DEF s, n, m
  <2>1. ~(i > n + 3)
    <3> SUFFICES ASSUME i > n + 3 PROVE FALSE
      OBVIOUS
    <3>1. i - (n + 3) \in 1..m /\ i = n + 3 + (i - (n + 3))
      BY <1>1
    <3>2. p.namespace[i - (n + 3)] \in Alnum
      BY <1>1, <3>1, ElementOfSeq DEF m
    <3>3. s[i] = p.namespace[i - (n + 3)]
      BY <1>1, <3>1
    <3> QED BY <1>4, <3>2, <3>3, PackageNamesAssumption DEF MatchesAt
  <2>2. ~(i < n + 3)
    <3> SUFFICES ASSUME i < n + 3 PROVE FALSE
      OBVIOUS
    <3> DEFINE t == SubSeq(s, i + 1, Len(s))
               k == n + 3 - i
    <3>1. t \in Seq(Alnum)
      BY <1>4 DEF MatchesAt, Namespaces, NonEmpty
    <3>2. k \in 1..Len(s) - (i + 1) + 1 /\ (i + 1) + k - 1 = n + 3
      BY <1>1
    <3>3. s \in Seq(Characters)
      BY PackageNameAt DEF s
    <3>4. \A j \in i + 1..Len(s) : s[j] \in Characters
      BY <1>1, <3>3, ElementOfSeq
    <3>5. /\ Len(t) = IF i + 1 <= Len(s) THEN Len(s) - (i + 1) + 1 ELSE 0
          /\ \A j \in 1..Len(s) - (i + 1) + 1 : t[j] = s[(i + 1) + j - 1]
      <4>1. i + 1 \in Int /\ Len(s) \in Int
        BY <1>1
      <4> QED BY <3>4, <4>1, SubSeqProperties
    <3> HIDE DEF t, k
    <3>6. t[k] = s[(i + 1) + k - 1]
      BY <3>2, <3>5
    <3>7. t[k] = Dash
      BY <1>1, <3>2, <3>6
    <3>8. k \in 1..Len(t)
      BY <1>1, <3>2, <3>5
    <3> QED BY <3>1, <3>7, <3>8, ElementOfSeq, PackageNamesAssumption
  <2> QED BY <1>1, <2>1, <2>2 DEF LastDash, n
<1> QED BY <1>2, <1>3, <1>4

(* PluginDB.list_ finds the plugin of a package again, although its name   *)
(* may hold dashes: Plugin._extract_namespace_and_name undoes              *)
(* Plugin.debian_package_name (db.py:257-262, 291-299).                    *)
THEOREM RoundTrip == \A p \in PluginNames : ExtractNamespaceAndName(PackageName(p)) = p
<1> SUFFICES ASSUME NEW p \in PluginNames
             PROVE  ExtractNamespaceAndName(PackageName(p)) = p
  OBVIOUS
<1> DEFINE s == PackageName(p)
<1>1. {i \in 4..Len(s) - 1 : MatchesAt(s, i)} = {LastDash(p)}
  BY OneMatch
<1>2. (CHOOSE j \in {LastDash(p)} : TRUE) = LastDash(p)
  OBVIOUS
<1>3. ExtractNamespaceAndName(s) =
        [namespace |-> SubSeq(s, LastDash(p) + 1, Len(s)),
         name |-> SubSeq(s, 3, LastDash(p) - 1)]
  BY <1>1, <1>2 DEF ExtractNamespaceAndName
<1>4. SubSeq(s, 3, LastDash(p) - 1) = p.name /\ SubSeq(s, LastDash(p) + 1, Len(s)) = p.namespace
  BY PartsOfPackageName
<1>5. p = [namespace |-> p.namespace, name |-> p.name]
  BY DEF PluginNames
<1> QED BY <1>3, <1>4, <1>5

(* Two plugins never share a package: an install of one does not replace   *)
(* the other, and an uninstall does not remove it (service.py:91).         *)
THEOREM PackagesDiffer ==
    \A p, q \in PluginNames : PackageName(p) = PackageName(q) => p = q
BY RoundTrip

=============================================================================
