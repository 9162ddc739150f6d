---------------------------- MODULE GridLinkProofs ----------------------------
(***************************************************************************)
(* The serial portal and the package tables, for all frames, manifests and *)
(* sizes: every module belongs to a package that is installed, as long as  *)
(* no manifest names two; a restart finds the modules of the manifests on  *)
(* the disk; and on a terminal that loops each echo is taken off the line  *)
(* once.                                                                   *)
(***************************************************************************)
EXTENDS GridLink, FoldLemmas, FiniteSetTheorems

------------------------------------------------------------------------------
(***************************************************************************)
(* The tables                                                              *)
(***************************************************************************)
\* What the names and the paths in a table may be: parts of lines.
Parts ==
    {NoName, SeedPath} \cup Paths \cup {l[2] : l \in Lines} \cup {l[3] : l \in Lines}

PkgEntry == [used : BOOLEAN, name : Parts, manifest : Parts, files : SUBSET Parts]
ModEntry == [used : BOOLEAN, name : Parts, path : Parts, pkg : Parts]
Tables == [pkgs : [PkgSlots -> PkgEntry], mods : [ModSlots -> ModEntry]]

Once(t) ==
    \A s, r \in ModSlots :
        t.mods[s].used /\ t.mods[r].used /\ t.mods[s].name = t.mods[r].name => s = r
HasPkg(t, n) == n = NoName \/ \E s \in PkgSlots : t.pkgs[s].used /\ t.pkgs[s].name = n
Owned(t) == \A s \in ModSlots : t.mods[s].used => HasPkg(t, t.mods[s].pkg)
TableOK(t) == t \in Tables /\ Once(t) /\ Owned(t)

\* A manifest that names one package, or none.
NamesOne(text) == \E n : \A i \in DOMAIN text : text[i][1] = "name" => text[i][2] = n

LEMMA LowestSlot ==
    ASSUME NEW n \in Nat, NEW S \in SUBSET (1 .. n), S # {}
    PROVE  Lowest(S) \in S
<1>1. S \in SUBSET Nat
  OBVIOUS
<1>2. \E x \in S : \A y \in S : x <= y
  BY <1>1, SmallestOf
<1> QED
  BY <1>2 DEF Lowest

LEMMA SlotNumbers ==
    /\ PkgMax \in Nat /\ ModMax \in Nat
    /\ \A S \in SUBSET PkgSlots : S # {} => Lowest(S) \in S
    /\ \A S \in SUBSET ModSlots : S # {} => Lowest(S) \in S
<1>1. PkgMax \in Nat /\ ModMax \in Nat
  BY TableAssumption
<1> QED
  BY <1>1, LowestSlot DEF PkgSlots, ModSlots

LEMMA EmptyOK == TableOK(EmptyTables) /\ FreePkg \in PkgEntry /\ FreeMod \in ModEntry
<1>1. FreePkg \in PkgEntry /\ FreeMod \in ModEntry
  BY DEF FreePkg, FreeMod, PkgEntry, ModEntry, Parts
<1>2. EmptyTables \in Tables
  BY <1>1 DEF EmptyTables, Tables
<1>3. \A s \in ModSlots : ~ EmptyTables.mods[s].used
  BY DEF EmptyTables, FreeMod
<1> QED
  BY <1>1, <1>2, <1>3 DEF TableOK, Once, Owned

\* Registering a module: nobody else has its name afterwards.
LEMMA AddModKeeps ==
    ASSUME NEW t, TableOK(t), NEW n \in Parts, HasPkg(t, n), NEW m \in Parts, NEW path \in Parts
    PROVE  TableOK([t EXCEPT !.mods = pkg_add_mod(@, n, m, path)])
<1> DEFINE new == pkg_add_mod(t.mods, n, m, path)
           entry == [used |-> TRUE, name |-> m, path |-> path, pkg |-> n]
           same == {s \in ModSlots : t.mods[s].used /\ t.mods[s].name = m}
           free == {s \in ModSlots : ~ t.mods[s].used}
<1>1. t.mods \in [ModSlots -> ModEntry] /\ t.pkgs \in [PkgSlots -> PkgEntry]
      /\ t = [pkgs |-> t.pkgs, mods |-> t.mods] /\ entry \in ModEntry
  BY DEF TableOK, Tables, ModEntry
<1>2. \/ new = t.mods
      \/ \E x \in ModSlots : new = [t.mods EXCEPT ![x] = entry]
                             /\ \A s \in ModSlots : t.mods[s].used /\ t.mods[s].name = m => s = x
  <2>1. CASE same # {}
    <3>1. Lowest(same) \in same
      BY <2>1, SlotNumbers
    <3>2. new = [t.mods EXCEPT ![Lowest(same)] = entry]
      BY <2>1 DEF pkg_add_mod
    <3> QED
      BY <3>1, <3>2 DEF TableOK, Once
  <2>2. CASE same = {} /\ free # {}
    <3>1. Lowest(free) \in free
      BY <2>2, SlotNumbers
    <3>2. new = [t.mods EXCEPT ![Lowest(free)] = entry]
      BY <2>2 DEF pkg_add_mod, pkg_add_mod_new
    <3> QED
      BY <2>2, <3>1, <3>2
  <2>3. CASE same = {} /\ free = {}
    BY <2>3 DEF pkg_add_mod, pkg_add_mod_new
  <2> QED
    BY <2>1, <2>2, <2>3
<1>3. [t EXCEPT !.mods = pkg_add_mod(@, n, m, path)] = [pkgs |-> t.pkgs, mods |-> new]
  BY <1>1
<1> HIDE DEF new
<1>4. CASE new = t.mods
  BY <1>1, <1>3, <1>4
<1>5. ASSUME NEW x \in ModSlots, new = [t.mods EXCEPT ![x] = entry],
             \A s \in ModSlots : t.mods[s].used /\ t.mods[s].name = m => s = x
      PROVE  TableOK([pkgs |-> t.pkgs, mods |-> new])
  <2> DEFINE u == [pkgs |-> t.pkgs, mods |-> new]
  <2>1. u.mods \in [ModSlots -> ModEntry] /\ u.pkgs = t.pkgs
    BY <1>1, <1>5
  <2>2. \A s \in ModSlots : u.mods[s] = IF s = x THEN entry ELSE t.mods[s]
    BY <1>1, <1>5
  <2>3. u \in Tables
    BY <1>1, <2>1 DEF Tables
  <2> HIDE DEF u
  <2>4. entry.used /\ entry.name = m /\ entry.pkg = n
    OBVIOUS
  <2> HIDE DEF entry
  <2>5. Once(u)
    BY <1>5, <2>2, <2>4 DEF Once, TableOK
  <2>6. Owned(u)
    BY <2>1, <2>2, <2>4 DEF Owned, TableOK, HasPkg
  <2> QED
    BY <2>3, <2>5, <2>6 DEF TableOK, u
<1> QED
  BY <1>2, <1>3, <1>4, <1>5

\* A line of a manifest that names no other package than n.
Reading(t, s, n) == TableOK(t) /\ t.pkgs[s].used /\ t.pkgs[s].name \in {NoName, n}

LEMMA LineKeeps ==
    ASSUME NEW t, NEW s \in PkgSlots, NEW n, Reading(t, s, n), NEW l \in Lines,
           l[1] = "name" => l[2] = n
    PROVE  Reading(pkg_parse_line(t, s, l), s, n)
<1> DEFINE u == pkg_parse_line(t, s, l)
<1>1. l[2] \in Parts /\ l[3] \in Parts
  BY DEF Parts
<1>2. t \in Tables /\ t.pkgs \in [PkgSlots -> PkgEntry] /\ t.mods \in [ModSlots -> ModEntry]
      /\ t = [pkgs |-> t.pkgs, mods |-> t.mods]
  BY DEF Reading, TableOK, Tables
<1>3. CASE l[1] = "name"
  <2>1. u = [t EXCEPT !.pkgs[s].name = l[2]]
    BY <1>3 DEF pkg_parse_line
  <2>2. u = [pkgs |-> [t.pkgs EXCEPT ![s].name = l[2]], mods |-> t.mods]
    BY <1>2, <2>1
  <2> HIDE DEF u
  <2>3. /\ u.pkgs = [t.pkgs EXCEPT ![s] = [@ EXCEPT !.name = l[2]]] /\ u.mods = t.mods
        /\ [t.pkgs[s] EXCEPT !.name = l[2]] \in PkgEntry
    BY <1>1, <1>2, <2>2 DEF PkgEntry
  <2>4. u \in Tables
    BY <1>2, <2>2, <2>3 DEF Tables
  <2>5. /\ u.pkgs[s].used /\ u.pkgs[s].name = n
        /\ \A r \in PkgSlots \ {s} : u.pkgs[r] = t.pkgs[r]
    BY <1>2, <1>3, <2>3 DEF Reading, PkgEntry
  <2>6. \A m : HasPkg(t, m) => HasPkg(u, m)
    BY <2>5 DEF HasPkg, Reading
  <2> QED
    BY <2>3, <2>4, <2>5, <2>6 DEF u, Reading, TableOK, Once, Owned
<1>4. CASE l[1] = "own"
  <2>1. u = [t EXCEPT !.pkgs[s].files = pkg_add_file(@, l[2])]
    BY <1>4 DEF pkg_parse_line
  <2> DEFINE files == pkg_add_file(t.pkgs[s].files, l[2])
  <2>2. u = [pkgs |-> [t.pkgs EXCEPT ![s].files = files], mods |-> t.mods]
    BY <1>2, <2>1
  <2>3. files \in SUBSET Parts
    BY <1>1, <1>2 DEF PkgEntry, pkg_add_file
  <2> HIDE DEF u, files
  <2>4. /\ u.pkgs = [t.pkgs EXCEPT ![s] = [@ EXCEPT !.files = files]] /\ u.mods = t.mods
        /\ [t.pkgs[s] EXCEPT !.files = files] \in PkgEntry
    BY <1>2, <2>2, <2>3 DEF PkgEntry
  <2>5. u \in Tables
    BY <1>2, <2>2, <2>4 DEF Tables
  <2>6. \A r \in PkgSlots : u.pkgs[r].used = t.pkgs[r].used /\ u.pkgs[r].name = t.pkgs[r].name
    BY <1>2, <2>4 DEF PkgEntry
  <2> QED
    BY <2>4, <2>5, <2>6 DEF u, Reading, TableOK, Once, Owned, HasPkg
<1>5. CASE l[1] = "mod"
  <2>1. u = [t EXCEPT !.mods = pkg_add_mod(@, t.pkgs[s].name, l[2], l[3])]
    BY <1>5 DEF pkg_parse_line
  <2>2. t.pkgs[s].name \in Parts /\ HasPkg(t, t.pkgs[s].name)
    BY <1>2 DEF Reading, HasPkg, PkgEntry
  <2>3. TableOK(u)
    BY <1>1, <2>1, <2>2, AddModKeeps DEF Reading
  <2>4. u.pkgs = t.pkgs
    BY <1>2, <2>1
  <2> QED
    BY <2>3, <2>4 DEF Reading
<1>6. CASE l[1] \notin {"name", "own", "mod"}
  BY <1>6 DEF pkg_parse_line
<1> QED
  BY <1>3, <1>4, <1>5, <1>6

\* Reading a manifest, line after line.
Read(start, s, text) == FoldLeft(LAMBDA u, w : pkg_parse_line(u, s, w), start, text)

LEMMA ReadSteps ==
    ASSUME NEW start, NEW s \in PkgSlots, NEW n, Reading(start, s, n),
           NEW text \in Seq(Lines), \A i \in DOMAIN text : text[i][1] = "name" => text[i][2] = n
    PROVE  \E f : /\ f[0] = start
                  /\ \A i \in 1 .. Len(text) : f[i] = pkg_parse_line(f[i - 1], s, text[i])
                  /\ Read(start, s, text) = f[Len(text)]
<1>1. PICK N \in Nat : N = Len(text) /\ DOMAIN text = 1 .. N /\ \A i \in 1 .. N : text[i] \in Lines
  OBVIOUS
<1>2. PICK A : A = {t \in Tables : Reading(t, s, n)}
  OBVIOUS
<1>3. start \in A /\ \A i \in 1 .. N : \A t \in A : pkg_parse_line(t, s, text[i]) \in A
  <2>1. ASSUME NEW i \in 1 .. N, NEW t \in A PROVE pkg_parse_line(t, s, text[i]) \in A
    <3>1. Reading(t, s, n) /\ text[i] \in Lines /\ (text[i][1] = "name" => text[i][2] = n)
      BY <1>1, <1>2
    <3>2. Reading(pkg_parse_line(t, s, text[i]), s, n)
      BY <3>1, LineKeeps
    <3> QED
      BY <1>2, <3>2 DEF Reading, TableOK
  <2> QED
    BY <1>2, <2>1 DEF Reading, TableOK
<1>4. PICK step : step = [i \in 1 .. N |-> [t \in A |-> pkg_parse_line(t, s, text[i])]]
  OBVIOUS
<1>5. step \in [1 .. N -> [A -> A]]
  BY <1>3, <1>4
<1>6. PICK g : FoldOf(g, N, A, start, step)
  BY <1>3, <1>5, FoldSteps
<1> DEFINE body(h) == [S \in SUBSET DOMAIN text |->
                         IF S = {} THEN start
                         ELSE pkg_parse_line(h[S \ {Max(S)}], s, text[Max(S)])]
           iter == CHOOSE h : h = body(h)
           f == [i \in 0 .. N |-> iter[1 .. i]]
<1>7. g = body(g)
  <2>1. \A S \in SUBSET (1 .. N) : S # {} =>
           g[S] = pkg_parse_line(g[S \ {Max(S)}], s, text[Max(S)])
    <3> TAKE S \in SUBSET (1 .. N)
    <3> HAVE S # {}
    <3>1. Max(S) \in 1 .. N /\ S \ {Max(S)} \in SUBSET (1 .. N)
      BY LargestOf
    <3>2. g[S] = step[Max(S)][g[S \ {Max(S)}]] /\ g[S \ {Max(S)}] \in A
      BY <1>6, <3>1 DEF FoldOf
    <3> QED
      BY <1>4, <3>1, <3>2
  <2> QED
    BY <1>1, <1>6, <2>1 DEF FoldOf
<1>8. iter = body(iter)
  <2> HIDE DEF body
  <2> QED
    BY <1>7, Zenon
<1>9. Read(start, s, text) = f[N]
  <2>1. Read(start, s, text) = iter[DOMAIN text]
    BY DEF Read, FoldLeft, MapThenFoldSet
  <2> HIDE DEF iter
  <2> QED
    BY <1>1, <2>1
<1> HIDE DEF iter
<1>10. f[0] = start
  BY <1>1, <1>8
<1>11. ASSUME NEW i \in 1 .. N PROVE f[i] = pkg_parse_line(f[i - 1], s, text[i])
  <2>1. Max(1 .. i) = i /\ (1 .. i) \ {i} = 1 .. (i - 1)
    BY LargestUpTo
  <2>2. 1 .. i \in SUBSET DOMAIN text /\ 1 .. i # {}
    BY <1>1
  <2>3. iter[1 .. i] = pkg_parse_line(iter[(1 .. i) \ {Max(1 .. i)}], s, text[Max(1 .. i)])
    BY <1>8, <2>2
  <2>4. f[i] = iter[1 .. i] /\ f[i - 1] = iter[1 .. (i - 1)]
    BY <1>1
  <2> HIDE DEF f, body
  <2> QED
    BY <2>1, <2>3, <2>4
<1> HIDE DEF f
<1> QED
  BY <1>1, <1>9, <1>10, <1>11

LEMMA ReadKeeps ==
    ASSUME NEW start, NEW s \in PkgSlots, NEW n, Reading(start, s, n),
           NEW text \in Seq(Lines), \A i \in DOMAIN text : text[i][1] = "name" => text[i][2] = n
    PROVE  Reading(Read(start, s, text), s, n)
<1>1. PICK f : /\ f[0] = start
               /\ \A i \in 1 .. Len(text) : f[i] = pkg_parse_line(f[i - 1], s, text[i])
               /\ Read(start, s, text) = f[Len(text)]
  BY ReadSteps
<1>2. Len(text) \in Nat /\ DOMAIN text = 1 .. Len(text) /\ \A i \in 1 .. Len(text) : text[i] \in Lines
  OBVIOUS
<1> DEFINE T == {i \in 0 .. Len(text) : Reading(f[i], s, n)}
<1>3. 0 \in T
  BY <1>1, <1>2
<1>4. ASSUME NEW i \in 0 .. (Len(text) - 1), i \in T PROVE i + 1 \in T
  <2>1. i + 1 \in 1 .. Len(text) /\ (i + 1) - 1 = i
    BY <1>2
  <2>2. f[i + 1] = pkg_parse_line(f[i], s, text[i + 1])
    BY <1>1, <2>1
  <2>3. Reading(pkg_parse_line(f[i], s, text[i + 1]), s, n)
    BY <1>2, <1>4, <2>1, LineKeeps
  <2> QED
    BY <2>1, <2>2, <2>3, <1>2
<1>5. Len(text) \in T
  <2> HIDE DEF T
  <2>1. \A i \in 0 .. Len(text) : i \in T
    BY <1>2, <1>3, <1>4, UpToInduction
  <2> QED
    BY <1>2, <2>1
<1> QED
  BY <1>1, <1>5

\* What happens to modules and packages when one package gives way.
LEMMA ClearedKeeps ==
    ASSUME NEW t, TableOK(t), NEW n \in Parts, NEW s \in PkgSlots, t.pkgs[s].used, t.pkgs[s].name = n
    PROVE  TableOK([pkgs |-> [t.pkgs EXCEPT ![s] = FreePkg], mods |-> pkg_clear_mods_for(t.mods, n)])
<1> DEFINE u == [pkgs |-> [t.pkgs EXCEPT ![s] = FreePkg], mods |-> pkg_clear_mods_for(t.mods, n)]
<1>1. t.pkgs \in [PkgSlots -> PkgEntry] /\ t.mods \in [ModSlots -> ModEntry]
  BY DEF TableOK, Tables
<1>2. /\ u.pkgs \in [PkgSlots -> PkgEntry] /\ u.mods \in [ModSlots -> ModEntry] /\ u \in Tables
      /\ \A r \in PkgSlots \ {s} : u.pkgs[r] = t.pkgs[r]
  BY <1>1, EmptyOK DEF Tables, pkg_clear_mods_for
<1>3. \A r \in ModSlots : u.mods[r].used =>
         u.mods[r] = t.mods[r] /\ t.mods[r].used /\ t.mods[r].pkg # n
  BY DEF pkg_clear_mods_for, FreeMod
<1>4. \A m : HasPkg(t, m) /\ m # n => HasPkg(u, m)
  BY <1>2 DEF HasPkg
<1> HIDE DEF u
<1>5. Once(u) /\ Owned(u)
  BY <1>3, <1>4 DEF Once, Owned, TableOK
<1> QED
  BY <1>2, <1>5 DEF u, TableOK

\* A manifest without a name gives its slot back.
LEMMA NamelessKeeps ==
    ASSUME NEW t, TableOK(t), NEW s \in PkgSlots, t.pkgs[s].name = NoName
    PROVE  TableOK([t EXCEPT !.pkgs[s] = FreePkg])
<1>1. t.pkgs \in [PkgSlots -> PkgEntry] /\ t.mods \in [ModSlots -> ModEntry]
      /\ t = [pkgs |-> t.pkgs, mods |-> t.mods]
  BY DEF TableOK, Tables
<1> DEFINE u == [t EXCEPT !.pkgs[s] = FreePkg]
<1>2. u = [pkgs |-> [t.pkgs EXCEPT ![s] = FreePkg], mods |-> t.mods]
  BY <1>1
<1> HIDE DEF u
<1>3. /\ u.mods = t.mods /\ u \in Tables
      /\ \A r \in PkgSlots \ {s} : u.pkgs[r] = t.pkgs[r]
  BY <1>1, <1>2, EmptyOK DEF Tables
<1>4. \A m : HasPkg(t, m) => HasPkg(u, m)
  BY <1>3 DEF HasPkg
<1> QED
  BY <1>3, <1>4 DEF u, TableOK, Once, Owned

LEMMA ParseKeeps ==
    ASSUME NEW t, TableOK(t), NEW text \in Seq(Lines), NamesOne(text), NEW path \in Parts
    PROVE  TableOK(pkg_parse_manifest_text(t, text, path))
<1> DEFINE free == {s \in PkgSlots : ~ t.pkgs[s].used}
           s == Lowest(free)
           start == [t EXCEPT !.pkgs[s] =
                       [used |-> TRUE, name |-> NoName, manifest |-> path, files |-> {path}]]
           read == Read(start, s, text)
           name == read.pkgs[s].name
           old == Lowest(Installed(read, name))
<1>1. pkg_parse_manifest_text(t, text, path) =
         IF free = {} THEN t
         ELSE IF name = NoName THEN [read EXCEPT !.pkgs[s] = FreePkg]
         ELSE IF old = s THEN read
         ELSE [pkgs |-> [read.pkgs EXCEPT ![old] = FreePkg],
               mods |-> pkg_clear_mods_for(read.mods, name)]
  BY DEF pkg_parse_manifest_text, Read
<1>2. CASE free = {}
  BY <1>1, <1>2
<1>3. CASE free # {}
  <2> DEFINE entry == [used |-> TRUE, name |-> NoName, manifest |-> path, files |-> {path}]
  <2>1. s \in PkgSlots /\ ~ t.pkgs[s].used
    <3>1. free \in SUBSET PkgSlots
      OBVIOUS
    <3>2. Lowest(free) \in free
      BY <1>3, <3>1, SlotNumbers
    <3> QED
      BY <3>2
  <2>2. PICK n : \A i \in DOMAIN text : text[i][1] = "name" => text[i][2] = n
    BY DEF NamesOne
  <2>3. Reading(start, s, n)
    <3> HIDE DEF s
    <3>1. t.pkgs \in [PkgSlots -> PkgEntry] /\ t.mods \in [ModSlots -> ModEntry]
          /\ t = [pkgs |-> t.pkgs, mods |-> t.mods]
      BY DEF TableOK, Tables
    <3>2. entry \in PkgEntry
      BY DEF PkgEntry, Parts
    <3>3. start = [pkgs |-> [t.pkgs EXCEPT ![s] = entry], mods |-> t.mods]
      <4> HIDE DEF entry
      <4>1. start = [t EXCEPT !.pkgs[s] = entry]
        BY DEF entry
      <4> HIDE DEF start
      <4> QED
        BY <3>1, <4>1
    <3> HIDE DEF start, entry
    <3>4. /\ start.mods = t.mods /\ start \in Tables /\ start.pkgs[s] = entry
          /\ \A r \in PkgSlots \ {s} : start.pkgs[r] = t.pkgs[r]
      BY <2>1, <3>1, <3>2, <3>3 DEF Tables
    <3>5. \A m : HasPkg(t, m) => HasPkg(start, m)
      BY <2>1, <3>4 DEF HasPkg
    <3> QED
      BY <3>4, <3>5 DEF Reading, TableOK, Once, Owned, entry
  <2>4. Reading(read, s, n)
    <3> HIDE DEF start, s
    <3> QED
      BY <2>1, <2>2, <2>3, ReadKeeps
  <2> HIDE DEF read, s
  <2>5. name \in Parts /\ s \in Installed(read, name)
    BY <2>1, <2>4 DEF Reading, TableOK, Tables, PkgEntry, Installed
  <2>6. old \in PkgSlots /\ read.pkgs[old].used /\ read.pkgs[old].name = name
    <3>1. Installed(read, name) \in SUBSET PkgSlots
      BY DEF Installed
    <3>2. old \in Installed(read, name)
      BY <2>5, <3>1, SlotNumbers
    <3> QED
      BY <3>2 DEF Installed
  <2>7. CASE name = NoName
    BY <1>1, <1>3, <2>1, <2>4, <2>7, NamelessKeeps DEF Reading
  <2>8. CASE name # NoName /\ old = s
    BY <1>1, <1>3, <2>4, <2>8 DEF Reading
  <2>9. CASE name # NoName /\ old # s
    <3>1. TableOK([pkgs |-> [read.pkgs EXCEPT ![old] = FreePkg],
                   mods |-> pkg_clear_mods_for(read.mods, name)])
      <4> HIDE DEF old, name
      <4> QED
        BY <2>4, <2>5, <2>6, ClearedKeeps DEF Reading
    <3> QED
      BY <1>1, <1>3, <2>9, <3>1
  <2> QED
    BY <2>7, <2>8, <2>9
<1> QED
  BY <1>2, <1>3

LEMMA RemoveKeeps ==
    ASSUME NEW t, TableOK(t), NEW n
    PROVE  TableOK(pkg_remove(t, n))
<1>1. CASE Installed(t, n) = {}
  BY <1>1 DEF pkg_remove
<1>2. CASE Installed(t, n) # {}
  <2>1. Installed(t, n) \in SUBSET PkgSlots
    BY DEF Installed
  <2>2. Lowest(Installed(t, n)) \in Installed(t, n)
    BY <1>2, <2>1, SlotNumbers
  <2>3. PICK s \in PkgSlots : s = Lowest(Installed(t, n)) /\ t.pkgs[s].used /\ t.pkgs[s].name = n
    BY <2>2 DEF Installed
  <2>4. n \in Parts
    BY <2>3 DEF TableOK, Tables, PkgEntry
  <2>5. pkg_remove(t, n) = [pkgs |-> [t.pkgs EXCEPT ![s] = FreePkg],
                            mods |-> pkg_clear_mods_for(t.mods, n)]
    BY <1>2, <2>3 DEF pkg_remove
  <2> QED
    BY <2>3, <2>4, <2>5, ClearedKeeps
<1> QED
  BY <1>1, <1>2

------------------------------------------------------------------------------
(***************************************************************************)
(* The manifests on the disk                                               *)
(***************************************************************************)
DiskOK(d) == \A p \in Paths : d[p] = NoFile \/ (d[p] \in Seq(Lines) /\ NamesOne(d[p]))

LEMMA InstallKeeps ==
    ASSUME NEW t, TableOK(t), NEW d, DiskOK(d), NEW p \in Paths
    PROVE  TableOK(pkg_install_manifest(t, d, p))
<1>1. p \in Parts
  BY DEF Parts
<1>2. CASE d[p] \in {NoFile, <<>>}
  BY <1>2 DEF pkg_install_manifest
<1>3. CASE d[p] \notin {NoFile, <<>>}
  <2>1. d[p] \in Seq(Lines) /\ NamesOne(d[p])
    BY <1>3 DEF DiskOK
  <2>2. pkg_install_manifest(t, d, p) = pkg_parse_manifest_text(t, d[p], p)
    BY <1>3 DEF pkg_install_manifest
  <2> QED
    BY <1>1, <2>1, <2>2, ParseKeeps
<1> QED
  BY <1>2, <1>3

\* Installing one manifest after the other.
LEMMA RescanSteps ==
    ASSUME NEW t, TableOK(t), NEW d, DiskOK(d)
    PROVE  \E f : /\ f[0] = t
                  /\ \A i \in 1 .. Len(ManifestPaths) :
                        f[i] = pkg_install_manifest(f[i - 1], d, ManifestPaths[i])
                  /\ pkg_rescan_more(t, d) = f[Len(ManifestPaths)]
<1>1. PICK N \in Nat : /\ N = Len(ManifestPaths) /\ DOMAIN ManifestPaths = 1 .. N
                       /\ \A i \in 1 .. N : ManifestPaths[i] \in Paths
  BY TextAssumption
<1>2. PICK A : A = {u \in Tables : TableOK(u)}
  OBVIOUS
<1>3. t \in A /\ \A i \in 1 .. N : \A u \in A : pkg_install_manifest(u, d, ManifestPaths[i]) \in A
  <2>1. ASSUME NEW i \in 1 .. N, NEW u \in A
        PROVE  pkg_install_manifest(u, d, ManifestPaths[i]) \in A
    <3>1. TableOK(u) /\ ManifestPaths[i] \in Paths
      BY <1>1, <1>2
    <3>2. TableOK(pkg_install_manifest(u, d, ManifestPaths[i]))
      BY <3>1, InstallKeeps
    <3> QED
      BY <1>2, <3>2 DEF TableOK
  <2> QED
    BY <1>2, <2>1 DEF TableOK
<1>4. PICK step : step = [i \in 1 .. N |-> [u \in A |-> pkg_install_manifest(u, d, ManifestPaths[i])]]
  OBVIOUS
<1>5. step \in [1 .. N -> [A -> A]]
  BY <1>3, <1>4
<1>6. PICK g : FoldOf(g, N, A, t, step)
  BY <1>3, <1>5, FoldSteps
<1> DEFINE body(h) == [S \in SUBSET DOMAIN ManifestPaths |->
                         IF S = {} THEN t
                         ELSE pkg_install_manifest(h[S \ {Max(S)}], d, ManifestPaths[Max(S)])]
           iter == CHOOSE h : h = body(h)
           f == [i \in 0 .. N |-> iter[1 .. i]]
<1>7. g = body(g)
  <2>1. \A S \in SUBSET (1 .. N) : S # {} =>
           g[S] = pkg_install_manifest(g[S \ {Max(S)}], d, ManifestPaths[Max(S)])
    <3> TAKE S \in SUBSET (1 .. N)
    <3> HAVE S # {}
    <3>1. Max(S) \in 1 .. N /\ S \ {Max(S)} \in SUBSET (1 .. N)
      BY LargestOf
    <3>2. g[S] = step[Max(S)][g[S \ {Max(S)}]] /\ g[S \ {Max(S)}] \in A
      BY <1>6, <3>1 DEF FoldOf
    <3> QED
      BY <1>4, <3>1, <3>2
  <2> QED
    BY <1>1, <1>6, <2>1 DEF FoldOf
<1>8. iter = body(iter)
  <2> HIDE DEF body
  <2> QED
    BY <1>7, Zenon
<1>9. pkg_rescan_more(t, d) = iter[1 .. N]
  <2>1. pkg_rescan_more(t, d) = iter[DOMAIN ManifestPaths]
    BY DEF pkg_rescan_more, FoldLeft, MapThenFoldSet
  <2> HIDE DEF iter
  <2> QED
    BY <1>1, <2>1
<1> HIDE DEF iter
<1>10. f[0] = t
  BY <1>1, <1>8
<1>11. ASSUME NEW i \in 1 .. N PROVE f[i] = pkg_install_manifest(f[i - 1], d, ManifestPaths[i])
  <2>1. Max(1 .. i) = i /\ (1 .. i) \ {i} = 1 .. (i - 1)
    BY LargestUpTo
  <2>2. 1 .. i \in SUBSET DOMAIN ManifestPaths /\ 1 .. i # {}
    <3>1. 1 .. i \in SUBSET (1 .. N) /\ 1 .. i # {}
      BY FirstNumbers
    <3>2. DOMAIN ManifestPaths = 1 .. N
      BY <1>1
    <3> HIDE DEF f, body
    <3> QED
      BY <3>1, <3>2
  <2>3. f[i] = iter[1 .. i] /\ f[i - 1] = iter[1 .. (i - 1)]
    BY <1>1
  <2> HIDE DEF f
  <2>4. iter[1 .. i] = pkg_install_manifest(iter[(1 .. i) \ {Max(1 .. i)}], d, ManifestPaths[Max(1 .. i)])
    BY <1>8, <2>2
  <2> HIDE DEF body
  <2> QED
    BY <2>1, <2>3, <2>4
<1>12. f[N] = iter[1 .. N]
  BY <1>1
<1> HIDE DEF f
<1> QED
  BY <1>1, <1>9, <1>10, <1>11, <1>12

LEMMA RescanKeeps ==
    ASSUME NEW t, TableOK(t), NEW d, DiskOK(d)
    PROVE  TableOK(pkg_rescan_more(t, d))
<1>1. PICK f : /\ f[0] = t
               /\ \A i \in 1 .. Len(ManifestPaths) :
                     f[i] = pkg_install_manifest(f[i - 1], d, ManifestPaths[i])
               /\ pkg_rescan_more(t, d) = f[Len(ManifestPaths)]
  BY RescanSteps
<1>2. PICK N \in Nat : N = Len(ManifestPaths) /\ \A i \in 1 .. N : ManifestPaths[i] \in Paths
  BY TextAssumption
<1> DEFINE T == {i \in 0 .. N : TableOK(f[i])}
<1>3. 0 \in T
  BY <1>1
<1>4. ASSUME NEW i \in 0 .. (N - 1), i \in T PROVE i + 1 \in T
  <2>1. i + 1 \in 1 .. N /\ (i + 1) - 1 = i /\ i + 1 \in 0 .. N
    OBVIOUS
  <2>2. f[i + 1] = pkg_install_manifest(f[i], d, ManifestPaths[i + 1])
    BY <1>1, <1>2, <2>1
  <2>3. TableOK(pkg_install_manifest(f[i], d, ManifestPaths[i + 1]))
    BY <1>2, <1>4, <2>1, InstallKeeps
  <2> QED
    BY <2>1, <2>2, <2>3
<1>5. N \in T
  <2> HIDE DEF T
  <2>1. \A i \in 0 .. N : i \in T
    BY <1>3, <1>4, UpToInduction
  <2> QED
    BY <2>1
<1> QED
  BY <1>1, <1>2, <1>5

LEMMA BootKeeps ==
    ASSUME NEW t, NEW d, DiskOK(d), NamesOne(Seed)
    PROVE  TableOK(pkg_init(t, d))
<1>1. TableOK(pkg_rescan(t, d))
  BY EmptyOK, RescanKeeps DEF pkg_rescan
<1>2. Seed \in Seq(Lines) /\ SeedPath \in Parts
  BY TextAssumption DEF Texts, Parts
<1>3. TableOK(pkg_parse_manifest_text(pkg_rescan(t, d), Seed, SeedPath))
  BY <1>1, <1>2, ParseKeeps
<1> QED
  BY <1>1, <1>3 DEF pkg_init

------------------------------------------------------------------------------
(***************************************************************************)
(* Every module has its package                                            *)
(***************************************************************************)
\* No manifest, built in or on the disk, names two packages.
ManifestsNameOne ==
    NamesOne(Seed) /\ \A p \in Paths : disk[p] = NoFile \/ NamesOne(disk[p])

Bytes == [c : Words, echo : BOOLEAN]

FilesTyped ==
    /\ disk \in [Paths -> {NoFile} \cup Seq(Lines)]
    /\ last = NoName \/ last \in Paths
    /\ got = [path |-> got.path, size |-> got.size, data |-> got.data]
    /\ got.data \in Seq(Words)
    /\ host \in Seq(Words) /\ rx \in Seq(Bytes)

PkgInv == FilesTyped /\ TableOK(table)

LEMMA WordsAreLines == Seq(Words) \subseteq Seq(Lines)
<1>1. Words \subseteq Lines
  BY DEF Lines
<1> QED
  BY <1>1

LEMMA SpokenAreWords == Spoken \subseteq Words
  BY DEF Words

LEMMA PathsOfManifests == Range(ManifestPaths) \subseteq Paths
  BY TextAssumption DEF Range

LEMMA DiskTyped ==
    ASSUME FilesTyped, ManifestsNameOne
    PROVE  DiskOK(disk) /\ NamesOne(Seed)
  BY DEF FilesTyped, ManifestsNameOne, DiskOK

\* What one symbol off the line leaves.
LEMMA TakeTyped ==
    ASSUME FilesTyped, TakeByte
    PROVE  host' \in Seq(Words) /\ rx' \in Seq(Bytes) /\ Head(rx).c \in Words
<1>1. rx # <<>> /\ rx' = Tail(rx) /\ host' = host
  BY DEF TakeByte
<1>2. rx \in Seq(Bytes) /\ host \in Seq(Words)
  BY DEF FilesTyped
<1>3. Head(rx) \in Bytes /\ Tail(rx) \in Seq(Bytes)
  BY <1>1, <1>2
<1> QED
  BY <1>1, <1>2, <1>3 DEF Bytes

\* What is written is a part of a frame, or torn.
LEMMA WriteTyped ==
    ASSUME FilesTyped, NEW p, NEW d \in Seq(Words),
           \/ p \in Paths /\ disk' = [disk EXCEPT ![p] = d]
           \/ p \in Paths /\ disk' = [disk EXCEPT ![p] = Torn]
           \/ UNCHANGED disk
    PROVE  disk' \in [Paths -> {NoFile} \cup Seq(Lines)]
<1>1. Torn \in Seq(Lines) /\ d \in Seq(Lines)
  BY TextAssumption, WordsAreLines DEF Texts
<1>2. disk \in [Paths -> {NoFile} \cup Seq(Lines)]
  BY DEF FilesTyped
<1> QED
  BY <1>1, <1>2

Rest == /\ got' = [path |-> got'.path, size |-> got'.size, data |-> got'.data]
        /\ got'.data \in Seq(Words)
        /\ last' = NoName \/ last' \in Paths

LEMMA NothingTyped ==
    Nothing = [path |-> Nothing.path, size |-> Nothing.size, data |-> Nothing.data]
    /\ Nothing.data \in Seq(Words)
  BY DEF Nothing

LEMMA ReturnTyped == \A r : Return(r) => Rest
  BY NothingTyped DEF Return, Rest

LEMMA LineTyped ==
    ASSUME FilesTyped, NEW l, OnLine(l)
    PROVE  disk' \in [Paths -> {NoFile} \cup Seq(Lines)] /\ Rest /\ table' = table
<1>1. disk \in [Paths -> {NoFile} \cup Seq(Lines)] /\ (got' = got /\ last' = last => Rest)
  BY DEF FilesTyped, Rest
<1>2. ASSUME PkgHeaderLine(l)
      PROVE  disk' \in [Paths -> {NoFile} \cup Seq(Lines)] /\ Rest /\ table' = table
  BY <1>1, <1>2, ReturnTyped DEF PkgHeaderLine, store
<1>3. ASSUME PkgEntryLine(l)
      PROVE  disk' \in [Paths -> {NoFile} \cup Seq(Lines)] /\ Rest /\ table' = table
  <2>1. UNCHANGED <<disk, table, last>>
    BY <1>3 DEF PkgEntryLine, store
  <2>2. got' = got \/ got' = Nothing \/ got' = [path |-> l[1][2], size |-> l[2][2], data |-> <<>>]
    BY <1>3 DEF PkgEntryLine, NextEntry
  <2>3. last = NoName \/ last \in Paths
    BY DEF FilesTyped
  <2>4. CASE got' = got
    BY <1>1, <2>1, <2>4
  <2>5. CASE got' = Nothing
    BY <1>1, <2>1, <2>3, <2>5, NothingTyped DEF Rest
  <2>6. CASE got' = [path |-> l[1][2], size |-> l[2][2], data |-> <<>>]
    BY <1>1, <2>1, <2>3, <2>6 DEF Rest
  <2> QED
    BY <2>2, <2>4, <2>5, <2>6
<1>4. ASSUME FileHeaderLine(l)
      PROVE  disk' \in [Paths -> {NoFile} \cup Seq(Lines)] /\ Rest /\ table' = table
  <2>1. UNCHANGED <<disk, table>>
    BY <1>4 DEF FileHeaderLine, store
  <2>2. \/ got' = got /\ last' = last
        \/ got' = [Nothing EXCEPT !.path = l[2][2]] /\ last' = last
        \/ \E r : Return(r)
    BY <1>4 DEF FileHeaderLine
  <2>3. last = NoName \/ last \in Paths
    BY DEF FilesTyped
  <2>4. CASE got' = [Nothing EXCEPT !.path = l[2][2]] /\ last' = last
    <3>1. got' = [path |-> l[2][2], size |-> 0, data |-> <<>>] /\ last' = last
      BY <2>4 DEF Nothing
    <3> QED
      BY <1>1, <2>1, <2>3, <3>1 DEF Rest
  <2>5. \A r : Return(r) => Rest
    BY ReturnTyped
  <2>6. Rest
    BY <1>1, <2>2, <2>4, <2>5, Zenon
  <2> QED
    BY <1>1, <2>1, <2>6
<1>5. ASSUME FileSizeLine(l)
      PROVE  disk' \in [Paths -> {NoFile} \cup Seq(Lines)] /\ Rest /\ table' = table
  <2>1. UNCHANGED <<disk, table>>
    BY <1>5 DEF FileSizeLine, store
  <2>2. \/ got' = got /\ last' = last
        \/ got' = [got EXCEPT !.size = l[1][2]] /\ last' = last
        \/ \E r : Return(r)
    BY <1>5 DEF FileSizeLine
  <2>3. (last = NoName \/ last \in Paths) /\ got.data \in Seq(Words)
        /\ got = [path |-> got.path, size |-> got.size, data |-> got.data]
    BY DEF FilesTyped
  <2>4. CASE got' = [got EXCEPT !.size = l[1][2]] /\ last' = last
    <3>1. got' = [path |-> got.path, size |-> l[1][2], data |-> got.data]
      BY <2>3, <2>4
    <3> QED
      BY <1>1, <2>1, <2>3, <2>4, <3>1 DEF Rest
  <2> QED
    BY <1>1, <2>1, <2>2, <2>4, ReturnTyped
<1>6. ASSUME FileEndLine(l)
      PROVE  disk' \in [Paths -> {NoFile} \cup Seq(Lines)] /\ Rest /\ table' = table
  <2>1. CASE Continue("file_end", tries + 1) /\ UNCHANGED <<store, got, last, mode>>
    BY <1>1, <2>1 DEF store
  <2>2. CASE /\ WriteFile(got.path, got.data, Return("received"), Return("write failed"))
             /\ UNCHANGED table
    <3>1. got.data \in Seq(Words)
      BY DEF FilesTyped
    <3>2. Rest
      BY <2>2, ReturnTyped DEF WriteFile
    <3>3. disk' \in [Paths -> {NoFile} \cup Seq(Lines)]
      BY <2>2, <3>1, WriteTyped DEF WriteFile
    <3> QED
      BY <2>2, <3>2, <3>3
  <2> QED
    BY <1>6, <2>1, <2>2 DEF FileEndLine
<1>7. ASSUME AiLine(l)
      PROVE  disk' \in [Paths -> {NoFile} \cup Seq(Lines)] /\ Rest /\ table' = table
  <2>1. UNCHANGED <<disk, table>>
    BY <1>7 DEF AiLine, store
  <2>2. (got' = got /\ last' = last) \/ \E r : Return(r)
    BY <1>7 DEF AiLine, AiNextLine
  <2> QED
    BY <1>1, <2>1, <2>2, ReturnTyped
<1> QED
  BY <1>2, <1>3, <1>4, <1>5, <1>6, <1>7 DEF OnLine

LEMMA PkgInvInit == Init /\ ManifestsNameOne => PkgInv
<1> SUFFICES ASSUME Init, ManifestsNameOne PROVE PkgInv
  OBVIOUS
<1>1. disk = OnDisk /\ table = pkg_init(EmptyTables, OnDisk)
  BY DEF Init
<1>2. OnDisk \in [Paths -> {NoFile} \cup Seq(Lines)]
  <2>1. \A p \in Paths : OnDisk[p] = NoFile \/ OnDisk[p] \in Texts
    BY DEF Texts
  <2>2. \A p \in Paths : OnDisk[p] = NoFile \/ OnDisk[p] \in Seq(Lines)
    BY <2>1, TextAssumption
  <2> HIDE DEF Texts
  <2> QED
    BY <2>2, LinkAssumption
<1>3. FilesTyped
  BY <1>1, <1>2, NothingTyped DEF Init, FilesTyped
<1>4. DiskOK(disk) /\ NamesOne(Seed)
  BY <1>3, DiskTyped
<1> QED
  BY <1>1, <1>3, <1>4, BootKeeps DEF PkgInv

LEMMA PkgInvStep == PkgInv /\ ManifestsNameOne /\ [Next]_vars => PkgInv'
<1> SUFFICES ASSUME PkgInv, ManifestsNameOne, [Next]_vars PROVE PkgInv'
  OBVIOUS
<1>1. FilesTyped /\ TableOK(table) /\ DiskOK(disk) /\ NamesOne(Seed)
  BY DiskTyped DEF PkgInv
<1>2. disk \in [Paths -> {NoFile} \cup Seq(Lines)] /\ host \in Seq(Words) /\ rx \in Seq(Bytes)
      /\ (last = NoName \/ last \in Paths)
  BY <1>1 DEF FilesTyped
<1>3. got' = got /\ last' = last => Rest
  BY <1>1 DEF FilesTyped, Rest
<1> DEFINE DiskNew == disk' \in [Paths -> {NoFile} \cup Seq(Lines)]
           LineNew == host' \in Seq(Words) /\ rx' \in Seq(Bytes)
<1>4. ASSUME DiskNew, Rest, LineNew, TableOK(table)' PROVE PkgInv'
  BY <1>4 DEF PkgInv, FilesTyped, Rest
<1>5. UNCHANGED <<disk, table>> => DiskNew /\ TableOK(table)'
  BY <1>1, <1>2
<1>6. UNCHANGED <<host, rx>> => LineNew
  BY <1>2
<1> HIDE DEF DiskNew, LineNew
<1>7. CASE HostStarts
  <2>1. UNCHANGED <<disk, table, got, last, rx>> /\ host' \in Frames
    BY <1>7 DEF HostStarts, reader, store
  <2>2. LineNew
    BY <1>2, <2>1, TextAssumption DEF LineNew
  <2> QED
    BY <1>3, <1>4, <1>5, <2>1, <2>2
<1>8. CASE HostSends
  <2>1. UNCHANGED <<disk, table, got, last>>
    BY <1>8 DEF HostSends, reader, store
  <2>2. host # <<>> /\ rx' = Append(rx, FromHost(Head(host))) /\ host' = Tail(host)
    BY <1>8 DEF HostSends
  <2>3. Head(host) \in Words /\ Tail(host) \in Seq(Words)
    BY <1>2, <2>2
  <2>4. FromHost(Head(host)) \in Bytes
    BY <2>3 DEF FromHost, Bytes
  <2>5. LineNew
    BY <1>2, <2>2, <2>3, <2>4 DEF LineNew
  <2> QED
    BY <1>3, <1>4, <1>5, <2>1, <2>5
<1>9. ASSUME NEW at, Receive(at) PROVE PkgInv'
  <2>1. UNCHANGED <<disk, table>> /\ Rest
    BY <1>9, NothingTyped DEF Receive, StartReading, store, Rest
  <2>2. LineNew
    <3>1. CASE UNCHANGED port
      BY <1>6, <3>1 DEF port
    <3>2. ASSUME NEW w \in Spoken, Say(w) PROVE LineNew
      <4>1. w \in Words
        BY SpokenAreWords
      <4>2. Echo(w) \in Bytes
        BY <4>1 DEF Echo, Bytes
      <4> QED
        BY <1>2, <3>2, <4>2 DEF Say, LineNew
    <3> QED
      BY <1>9, <3>1, <3>2 DEF Receive
  <2> QED
    BY <1>4, <1>5, <2>1, <2>2
<1>10. CASE PkgInstall
  <2>1. UNCHANGED <<disk, got, last, rx, host>>
    BY <1>10 DEF PkgInstall, reader, port
  <2>2. PICK p \in Range(ManifestPaths) : table' = pkg_install_manifest(table, disk, p)
    BY <1>10 DEF PkgInstall
  <2>3. TableOK(table)'
    BY <1>1, <2>2, PathsOfManifests, InstallKeeps
  <2>4. DiskNew
    BY <1>2, <2>1 DEF DiskNew
  <2> QED
    BY <1>3, <1>4, <1>6, <2>1, <2>3, <2>4
<1>11. CASE PkgRemove
  <2>1. UNCHANGED <<got, last, rx, host>>
    BY <1>11 DEF PkgRemove, reader, port
  <2>2. \E n : table' = pkg_remove(table, n)
    BY <1>11 DEF PkgRemove
  <2>3. \E gone : disk' = [p \in Paths |-> IF p \in gone THEN NoFile ELSE disk[p]]
    BY <1>11 DEF PkgRemove
  <2>4. TableOK(table)'
    BY <1>1, <2>2, RemoveKeeps
  <2>5. DiskNew
    BY <1>2, <2>3 DEF DiskNew
  <2> QED
    BY <1>3, <1>4, <1>6, <2>1, <2>4, <2>5
<1>12. CASE Boot
  <2>1. UNCHANGED <<host, disk>> /\ rx' = <<>> /\ got' = Nothing /\ last' = NoName
        /\ table' = pkg_init(table, disk)
    BY <1>12 DEF Boot
  <2>2. TableOK(table)'
    BY <1>1, <2>1, BootKeeps
  <2>3. Rest
    BY <2>1, NothingTyped DEF Rest
  <2>4. DiskNew /\ LineNew
    BY <1>2, <2>1 DEF DiskNew, LineNew
  <2> QED
    BY <1>4, <2>2, <2>3, <2>4
<1>13. CASE Typed
  <2>1. TakeByte /\ UNCHANGED <<disk, table, got, last>>
    BY <1>13 DEF Typed, reader, store
  <2>2. LineNew
    BY <1>1, <2>1, TakeTyped DEF LineNew
  <2> QED
    BY <1>3, <1>4, <1>5, <2>1, <2>2
<1>14. CASE LineByte
  <2>1. TakeByte
    BY <1>14 DEF LineByte
  <2>2. LineNew
    BY <1>1, <2>1, TakeTyped DEF LineNew
  <2>3. \/ UNCHANGED <<disk, table, got, last>>
        \/ \E l : OnLine(l)
    BY <1>14 DEF LineByte, LineGets, reader, store
  <2>4. CASE \E l : OnLine(l)
    <3>1. DiskNew /\ Rest /\ table' = table
      BY <1>1, <2>4, LineTyped DEF DiskNew
    <3> QED
      BY <1>1, <1>4, <2>2, <3>1
  <2> QED
    BY <1>3, <1>4, <1>5, <2>2, <2>3, <2>4
<1>15. CASE LineTimeout
  <2>1. OnLine(line) /\ UNCHANGED <<host, rx>>
    BY <1>15 DEF LineTimeout
  <2>2. DiskNew /\ Rest /\ table' = table
    BY <1>1, <2>1, LineTyped DEF DiskNew
  <2> QED
    BY <1>1, <1>4, <1>6, <2>1, <2>2
<1>16. CASE PkgDataByte
  <2>1. TakeByte
    BY <1>16 DEF PkgDataByte
  <2>2. LineNew /\ Head(rx).c \in Words
    BY <1>1, <2>1, TakeTyped DEF LineNew
  <2>3. CASE PkgDataGets(Head(rx).c)
    <3> DEFINE d == Append(got.data, Head(rx).c)
    <3>1. d \in Seq(Words) /\ got = [path |-> got.path, size |-> got.size, data |-> got.data]
      BY <1>1, <2>2 DEF FilesTyped
    <3>2. CASE Len(d) < got.size
      <4>1. got' = [got EXCEPT !.data = d] /\ UNCHANGED <<last, disk, table>>
        BY <2>3, <3>2 DEF PkgDataGets, store
      <4> HIDE DEF d
      <4>2. got' = [path |-> got.path, size |-> got.size, data |-> d]
        BY <3>1, <4>1
      <4>3. Rest
        BY <1>2, <3>1, <4>1, <4>2 DEF Rest
      <4> QED
        BY <1>4, <1>5, <2>2, <4>1, <4>3
    <3>3. CASE ~ (Len(d) < got.size)
      <4>1. /\ WriteFile(got.path, d, last' = IF got.path \in Range(ManifestPaths)
                                              THEN got.path ELSE last, UNCHANGED last)
            /\ got' = Nothing /\ table' = table
        BY <2>3, <3>3 DEF PkgDataGets, NextEntry
      <4> HIDE DEF d
      <4>2. DiskNew
        BY <1>1, <3>1, <4>1, WriteTyped DEF WriteFile, DiskNew
      <4>3. last' = NoName \/ last' \in Paths
        BY <1>2, <4>1, PathsOfManifests DEF WriteFile
      <4>4. Rest
        BY <4>1, <4>3, NothingTyped DEF Rest
      <4> QED
        BY <1>1, <1>4, <2>2, <4>1, <4>2, <4>4
    <3> QED
      BY <3>2, <3>3
  <2>4. CASE PkgDataGivesUp
    <3>1. got' = Nothing /\ UNCHANGED <<last, disk, table>>
      BY <2>4 DEF PkgDataGivesUp, NextEntry, store
    <3>2. Rest
      BY <1>2, <3>1, NothingTyped DEF Rest
    <3> QED
      BY <1>4, <1>5, <2>2, <3>1, <3>2
  <2> QED
    BY <1>16, <2>3, <2>4 DEF PkgDataByte
<1>17. CASE PkgDataNone
  <2>1. got' = Nothing /\ UNCHANGED <<last, disk, table, host, rx>>
    BY <1>17 DEF PkgDataNone, PkgDataGivesUp, NextEntry, store, port
  <2>2. Rest
    BY <1>2, <2>1, NothingTyped DEF Rest
  <2> QED
    BY <1>4, <1>5, <1>6, <2>1, <2>2
<1>18. CASE FileDataByte
  <2>1. TakeByte
    BY <1>18 DEF FileDataByte
  <2>2. LineNew /\ Head(rx).c \in Words
    BY <1>1, <2>1, TakeTyped DEF LineNew
  <2>3. CASE FileDataGets(Head(rx).c)
    <3> DEFINE d == Append(got.data, Head(rx).c)
    <3>1. d \in Seq(Words) /\ got = [path |-> got.path, size |-> got.size, data |-> got.data]
      BY <1>1, <2>2 DEF FilesTyped
    <3>2. got' = [got EXCEPT !.data = d] /\ UNCHANGED <<last, disk, table>>
      BY <2>3 DEF FileDataGets, store
    <3> HIDE DEF d
    <3>3. got' = [path |-> got.path, size |-> got.size, data |-> d]
      BY <3>1, <3>2
    <3>4. Rest
      BY <1>2, <3>1, <3>2, <3>3 DEF Rest
    <3> QED
      BY <1>4, <1>5, <2>2, <3>2, <3>4
  <2>4. CASE UNCHANGED <<reader, result, store>>
    <3>1. UNCHANGED <<got, last, disk, table>>
      BY <2>4 DEF reader, store
    <3> QED
      BY <1>3, <1>4, <1>5, <2>2, <3>1
  <2> QED
    BY <1>18, <2>3, <2>4 DEF FileDataByte
<1>19. CASE PkgFinish
  <2>1. UNCHANGED <<disk, rx, host>> /\ Rest
    BY <1>19, ReturnTyped DEF PkgFinish, port
  <2>2. table' = IF last # NoName THEN pkg_install_manifest(table, disk, last)
                 ELSE pkg_rescan(table, disk)
    BY <1>19 DEF PkgFinish
  <2>3. TableOK(table)'
    <3>1. CASE last # NoName
      BY <1>1, <1>2, <2>2, <3>1, InstallKeeps
    <3>2. CASE last = NoName
      BY <1>1, <2>2, <3>2, EmptyOK, RescanKeeps DEF pkg_rescan
    <3> QED
      BY <3>1, <3>2
  <2>4. DiskNew
    BY <1>2, <2>1 DEF DiskNew
  <2> QED
    BY <1>4, <1>6, <2>1, <2>3, <2>4
<1>20. CASE UNCHANGED vars
  BY <1>3, <1>4, <1>5, <1>6, <1>20 DEF vars, port, reader, store
<1> QED
  BY <1>7, <1>8, <1>9, <1>10, <1>11, <1>12, <1>13, <1>14, <1>15, <1>16, <1>17, <1>18,
     <1>19, <1>20 DEF Next, Shell, Kernel, PkgRecv, PortalRecv, AiAsk

LEMMA PkgInvSafe == PkgInv => ModulesOwned
<1> SUFFICES ASSUME TableOK(table), NEW s \in ModSlots, table.mods[s].used
             PROVE  /\ Registered(table, table.mods[s].name) = {s}
                    /\ table.mods[s].pkg = NoName \/ Installed(table, table.mods[s].pkg) # {}
  BY DEF PkgInv, ModulesOwned
<1>1. Registered(table, table.mods[s].name) = {s}
  BY DEF TableOK, Once, Registered
<1>2. table.mods[s].pkg = NoName \/ Installed(table, table.mods[s].pkg) # {}
  BY DEF TableOK, Owned, HasPkg, Installed
<1> QED
  BY <1>1, <1>2

(***************************************************************************)
(* As long as no manifest names two packages, a module is registered once  *)
(* and its package is installed: pkg_parse_manifest_text, pkg_remove and   *)
(* pkg_rescan keep it so, in any order, for frames that are cut anywhere,  *)
(* files that are torn and tables that are full.  A manifest of two names  *)
(* registers the modules before the second for a package that is then no   *)
(* entry of g_pkgs; two frames read as one can make such a file.           *)
(***************************************************************************)
THEOREM ModulesOwnedHolds == Spec /\ []ManifestsNameOne => []ModulesOwned
<1>1. Init /\ ManifestsNameOne => PkgInv
  BY PkgInvInit
<1>2. PkgInv /\ ManifestsNameOne /\ [Next]_vars => PkgInv'
  BY PkgInvStep
<1>3. PkgInv => ModulesOwned
  BY PkgInvSafe
<1> QED
  BY <1>1, <1>2, <1>3, PTL DEF Spec

------------------------------------------------------------------------------
(***************************************************************************)
(* What a restart finds                                                    *)
(***************************************************************************)
\* The modules of a table, and the names of a manifest: of the package it is
\* of, and of its modules.
Found(t) == {<<m.name, m.path, m.pkg>> : m \in {n \in Range(t.mods) : n.used}}
NamesIn(text) == {l[2] : l \in {k \in Range(text) : k[1] = "name"}}
ModsIn(text) == {l[2] : l \in ModLines(text)}

\* A manifest that names its package before its modules, and each module once.
Proper(text) ==
    /\ NamesOne(text)
    /\ \A i \in DOMAIN text : text[i][1] = "mod" => \E j \in 1 .. (i - 1) : text[j][1] = "name"
    /\ \A k, l \in ModLines(text) : k[2] = l[2] => k[3] = l[3]

\* What a manifest makes of the modules there are.
Over(F, text) ==
    {e \in F : e[1] \notin ModsIn(text)}
      \cup {<<l[2], l[3], NameOf(text)>> : l \in ModLines(text)}

\* Its first i lines, for the package n.
FirstOver(F, text, n, i) ==
    {e \in F : \A j \in 1 .. i : text[j][1] = "mod" => text[j][2] # e[1]}
      \cup {<<text[j][2], text[j][3], n>> : j \in {k \in 1 .. i : text[k][1] = "mod"}}

\* The names of all modules in a table, with m too, fit the table.
RoomIn(t, M) == IsFiniteSet(M) /\ Cardinality(M) <= ModMax /\ \A e \in Found(t) : e[1] \in M

LEMMA FoundIn ==
    ASSUME NEW t, t.mods \in [ModSlots -> ModEntry]
    PROVE  \A e : e \in Found(t) <=>
              \E s \in ModSlots : /\ t.mods[s].used
                                  /\ e = <<t.mods[s].name, t.mods[s].path, t.mods[s].pkg>>
<1>1. Range(t.mods) = {t.mods[s] : s \in ModSlots}
  BY DEF Range
<1> QED
  BY <1>1 DEF Found

\* A table with room for the name of one more module has a slot for it.
LEMMA SlotFree ==
    ASSUME NEW t, TableOK(t), NEW M, RoomIn(t, M), NEW m \in M,
           \A s \in ModSlots : t.mods[s].used => t.mods[s].name # m
    PROVE  \E s \in ModSlots : ~ t.mods[s].used
<1> SUFFICES ASSUME \A s \in ModSlots : t.mods[s].used
             PROVE  FALSE
  OBVIOUS
<1> DEFINE f == [s \in ModSlots |-> t.mods[s].name]
           R == M \ {m}
<1>1. t.mods \in [ModSlots -> ModEntry]
  BY DEF TableOK, Tables
<1>2. \A s \in ModSlots : t.mods[s].name \in M
  <2> TAKE s \in ModSlots
  <2>1. <<t.mods[s].name, t.mods[s].path, t.mods[s].pkg>> \in Found(t)
    BY <1>1, FoundIn
  <2> QED
    BY <2>1 DEF RoomIn
<1>3. f \in [ModSlots -> R]
  BY <1>2
<1>4. IsFiniteSet(M) /\ Cardinality(M) <= ModMax /\ Cardinality(M) \in Nat
  BY FS_CardinalityType DEF RoomIn
<1>5. IsFiniteSet(R) /\ Cardinality(R) = Cardinality(M) - 1
  BY <1>4, FS_RemoveElement
<1>6. IsFiniteSet(ModSlots) /\ Cardinality(ModSlots) = ModMax /\ ModMax \in Nat \ {0}
  <2>1. ModMax \in Nat \ {0}
    BY TableAssumption
  <2>2. 1 \in Int /\ ModMax \in Int /\ ~ (1 > ModMax) /\ ModMax - 1 + 1 = ModMax
    BY <2>1
  <2> QED
    BY <2>1, <2>2, FS_Interval DEF ModSlots
<1>7. Cardinality(R) < Cardinality(ModSlots)
  BY <1>4, <1>5, <1>6
<1> HIDE DEF R
<1>8. \E x, y \in ModSlots : x # y /\ f[x] = f[y]
  <2> HIDE DEF f
  <2> QED
    BY <1>3, <1>5, <1>6, <1>7, FS_PigeonHole
<1>9. PICK x \in ModSlots, y \in ModSlots : x # y /\ t.mods[x].name = t.mods[y].name
  BY <1>8
<1> QED
  BY <1>9 DEF TableOK, Once

\* Registering a module takes it from whoever had it and leaves the others.
LEMMA AddModMakes ==
    ASSUME NEW t, TableOK(t), NEW M, RoomIn(t, M), NEW m \in M, m \in Parts,
           NEW n \in Parts, NEW path \in Parts
    PROVE  LET u == [t EXCEPT !.mods = pkg_add_mod(@, n, m, path)]
           IN  /\ u.pkgs = t.pkgs
               /\ Found(u) = {e \in Found(t) : e[1] # m} \cup {<<m, path, n>>}
<1> DEFINE u == [t EXCEPT !.mods = pkg_add_mod(@, n, m, path)]
           new == pkg_add_mod(t.mods, n, m, path)
           entry == [used |-> TRUE, name |-> m, path |-> path, pkg |-> n]
           same == {s \in ModSlots : t.mods[s].used /\ t.mods[s].name = m}
           free == {s \in ModSlots : ~ t.mods[s].used}
<1>1. t.mods \in [ModSlots -> ModEntry] /\ t.pkgs \in [PkgSlots -> PkgEntry]
      /\ t = [pkgs |-> t.pkgs, mods |-> t.mods] /\ entry \in ModEntry
  BY DEF TableOK, Tables, ModEntry
<1>2. \E x \in ModSlots : /\ new = [t.mods EXCEPT ![x] = entry]
                          /\ \A s \in ModSlots : t.mods[s].used /\ t.mods[s].name = m => s = x
                          /\ t.mods[x].used => t.mods[x].name = m
  <2>1. CASE same # {}
    <3>1. Lowest(same) \in same
      BY <2>1, SlotNumbers
    <3>2. new = [t.mods EXCEPT ![Lowest(same)] = entry]
      BY <2>1 DEF pkg_add_mod
    <3> QED
      BY <3>1, <3>2 DEF TableOK, Once
  <2>2. CASE same = {}
    <3>1. free # {}
      BY <2>2, SlotFree
    <3>2. Lowest(free) \in free
      BY <3>1, SlotNumbers
    <3>3. new = [t.mods EXCEPT ![Lowest(free)] = entry]
      BY <2>2, <3>1 DEF pkg_add_mod, pkg_add_mod_new
    <3> QED
      BY <2>2, <3>2, <3>3
  <2> QED
    BY <2>1, <2>2
<1>3. u = [pkgs |-> t.pkgs, mods |-> new]
  BY <1>1
<1> HIDE DEF new
<1>4. PICK x \in ModSlots : /\ new = [t.mods EXCEPT ![x] = entry]
                            /\ \A s \in ModSlots : t.mods[s].used /\ t.mods[s].name = m => s = x
                            /\ t.mods[x].used => t.mods[x].name = m
  BY <1>2
<1> HIDE DEF entry
<1>5. u.pkgs = t.pkgs /\ u.mods \in [ModSlots -> ModEntry]
      /\ \A s \in ModSlots : u.mods[s] = IF s = x THEN entry ELSE t.mods[s]
  <2> HIDE DEF u
  <2>1. u.pkgs = t.pkgs /\ u.mods = [t.mods EXCEPT ![x] = entry]
    BY <1>3, <1>4
  <2> QED
    BY <1>1, <2>1
<1>6. entry.used /\ entry.name = m /\ entry.path = path /\ entry.pkg = n
  BY DEF entry
<1> HIDE DEF u
<1>7. ASSUME NEW e PROVE e \in Found(u) <=> e \in {d \in Found(t) : d[1] # m} \cup {<<m, path, n>>}
  <2>1. e \in Found(u) <=>
           \E s \in ModSlots : /\ u.mods[s].used
                               /\ e = <<u.mods[s].name, u.mods[s].path, u.mods[s].pkg>>
    BY <1>5, FoundIn
  <2>2. e \in Found(t) <=>
           \E s \in ModSlots : /\ t.mods[s].used
                               /\ e = <<t.mods[s].name, t.mods[s].path, t.mods[s].pkg>>
    BY <1>1, FoundIn
  <2>3. ASSUME e \in Found(u) PROVE e \in {d \in Found(t) : d[1] # m} \cup {<<m, path, n>>}
    <3>1. PICK s \in ModSlots : /\ u.mods[s].used
                                /\ e = <<u.mods[s].name, u.mods[s].path, u.mods[s].pkg>>
      BY <2>1, <2>3
    <3>2. CASE s = x
      BY <1>5, <1>6, <3>1, <3>2
    <3>3. CASE s # x
      <4>1. t.mods[s].used /\ e = <<t.mods[s].name, t.mods[s].path, t.mods[s].pkg>>
        BY <1>5, <3>1, <3>3
      <4>2. t.mods[s].name # m
        BY <1>4, <3>3, <4>1
      <4>3. e[1] = t.mods[s].name
        BY <4>1
      <4> QED
        BY <2>2, <4>1, <4>2, <4>3
    <3> QED
      BY <3>2, <3>3
  <2>4. ASSUME e = <<m, path, n>> PROVE e \in Found(u)
    BY <1>5, <1>6, <2>1, <2>4
  <2>5. ASSUME e \in Found(t), e[1] # m PROVE e \in Found(u)
    <3>1. PICK s \in ModSlots : /\ t.mods[s].used
                                /\ e = <<t.mods[s].name, t.mods[s].path, t.mods[s].pkg>>
      BY <2>2, <2>5
    <3>2. e[1] = t.mods[s].name
      BY <3>1
    <3>3. s # x
      BY <1>4, <2>5, <3>1, <3>2
    <3> QED
      BY <1>5, <2>1, <3>1, <3>3
  <2> QED
    BY <2>3, <2>4, <2>5
<1>8. Found(u) = {e \in Found(t) : e[1] # m} \cup {<<m, path, n>>}
  BY <1>7
<1> QED
  BY <1>5, <1>8 DEF u

\* The first lines of a manifest have been read at slot s, from the table t.
ReadTo(u, t, s, F, text, n, i) ==
    /\ Reading(u, s, n)
    /\ \A r \in PkgSlots \ {s} : u.pkgs[r] = t.pkgs[r]
    /\ (\E j \in 1 .. i : text[j][1] = "name") => u.pkgs[s].name = n
    /\ (\A j \in 1 .. i : text[j][1] # "name") => u.pkgs[s].name = NoName
    /\ Found(u) = FirstOver(F, text, n, i)

\* A line that names no module changes the slot of its package only.
LEMMA OtherLineMakes ==
    ASSUME NEW t, NEW s \in PkgSlots, TableOK(t), NEW l \in Lines, l[1] # "mod"
    PROVE  LET u == pkg_parse_line(t, s, l)
           IN  /\ u.mods = t.mods
               /\ \A r \in PkgSlots \ {s} : u.pkgs[r] = t.pkgs[r]
               /\ u.pkgs[s].name = IF l[1] = "name" THEN l[2] ELSE t.pkgs[s].name
<1> DEFINE u == pkg_parse_line(t, s, l)
<1>1. t.pkgs \in [PkgSlots -> PkgEntry] /\ t.mods \in [ModSlots -> ModEntry]
      /\ t = [pkgs |-> t.pkgs, mods |-> t.mods]
  BY DEF TableOK, Tables
<1>2. CASE l[1] = "name"
  <2>1. u = [t EXCEPT !.pkgs[s].name = l[2]]
    BY <1>2 DEF pkg_parse_line
  <2>2. u = [pkgs |-> [t.pkgs EXCEPT ![s].name = l[2]], mods |-> t.mods]
    BY <1>1, <2>1
  <2> HIDE DEF u
  <2>3. u.pkgs = [t.pkgs EXCEPT ![s] = [@ EXCEPT !.name = l[2]]] /\ u.mods = t.mods
    BY <1>1, <2>2
  <2> QED
    BY <1>1, <1>2, <2>3 DEF PkgEntry, u
<1>3. CASE l[1] = "own"
  <2> DEFINE files == pkg_add_file(t.pkgs[s].files, l[2])
  <2>1. u = [t EXCEPT !.pkgs[s].files = pkg_add_file(@, l[2])]
    BY <1>3 DEF pkg_parse_line
  <2>2. u = [pkgs |-> [t.pkgs EXCEPT ![s].files = files], mods |-> t.mods]
    BY <1>1, <2>1
  <2> HIDE DEF u, files
  <2>3. u.pkgs = [t.pkgs EXCEPT ![s] = [@ EXCEPT !.files = files]] /\ u.mods = t.mods
    BY <1>1, <2>2
  <2> QED
    BY <1>1, <1>3, <2>3 DEF PkgEntry, u
<1>4. CASE l[1] \notin {"name", "own", "mod"}
  BY <1>4 DEF pkg_parse_line
<1> QED
  BY <1>2, <1>3, <1>4

\* A line that registers a module takes it from whoever had it.
Taking(F, l, n) == {e \in F : e[1] # l[2]} \cup {<<l[2], l[3], n>>}

LEMMA FirstOverSteps ==
    ASSUME NEW F, NEW text \in Seq(Lines), NEW n, NEW i \in 0 .. (Len(text) - 1), Proper(text)
    PROVE  /\ text[i + 1][1] # "mod" => FirstOver(F, text, n, i + 1) = FirstOver(F, text, n, i)
           /\ text[i + 1][1] = "mod" =>
                FirstOver(F, text, n, i + 1) = Taking(FirstOver(F, text, n, i), text[i + 1], n)
<1>1. PICK j : j = i + 1 /\ j \in 1 .. Len(text) /\ 1 .. j = (1 .. i) \cup {j}
               /\ 1 .. i \subseteq 1 .. Len(text) /\ DOMAIN text = 1 .. Len(text)
  OBVIOUS
<1> DEFINE Of(k) == <<text[k][2], text[k][3], n>>
<1>2. \A k : Of(k)[1] = text[k][2]
  OBVIOUS
<1>3. \A x : \A k \in {i, j} : x \in FirstOver(F, text, n, k) <=>
         \/ x \in F /\ \A h \in 1 .. k : text[h][1] = "mod" => text[h][2] # x[1]
         \/ \E h \in 1 .. k : text[h][1] = "mod" /\ x = Of(h)
  BY DEF FirstOver
<1> HIDE DEF Of
<1>4. CASE text[j][1] # "mod"
  <2>1. \A x : x \in FirstOver(F, text, n, j) <=> x \in FirstOver(F, text, n, i)
    BY <1>1, <1>3, <1>4
  <2> QED
    BY <1>1, <1>4, <2>1
<1>5. CASE text[j][1] = "mod"
  <2>1. \A h \in 1 .. i : text[h][1] = "mod" /\ text[h][2] = text[j][2] => Of(h) = Of(j)
    <3> TAKE h \in 1 .. i
    <3> HAVE text[h][1] = "mod" /\ text[h][2] = text[j][2]
    <3>1. h \in DOMAIN text /\ j \in DOMAIN text
      BY <1>1
    <3>2. text[h] \in ModLines(text) /\ text[j] \in ModLines(text)
      BY <1>5, <3>1 DEF ModLines, Range
    <3>3. text[h][3] = text[j][3]
      BY <3>2 DEF Proper
    <3> QED
      BY <3>3 DEF Of
  <2>2. \A x : x \in FirstOver(F, text, n, j) <=>
           (x \in FirstOver(F, text, n, i) /\ x[1] # text[j][2]) \/ x = Of(j)
    <3> TAKE x
    <3>1. ASSUME x \in FirstOver(F, text, n, j)
          PROVE  (x \in FirstOver(F, text, n, i) /\ x[1] # text[j][2]) \/ x = Of(j)
      <4>1. CASE x \in F /\ \A h \in 1 .. j : text[h][1] = "mod" => text[h][2] # x[1]
        BY <1>1, <1>3, <1>5, <4>1
      <4>2. ASSUME NEW h \in 1 .. j, text[h][1] = "mod", x = Of(h)
            PROVE  (x \in FirstOver(F, text, n, i) /\ x[1] # text[j][2]) \/ x = Of(j)
        <5>1. x[1] = text[h][2]
          BY <1>2, <4>2
        <5>2. h \in 1 .. i \/ h = j
          BY <1>1
        <5> QED
          BY <1>1, <1>3, <2>1, <4>2, <5>1, <5>2
      <4> QED
        BY <1>3, <3>1, <4>1, <4>2
    <3>2. ASSUME x \in FirstOver(F, text, n, i), x[1] # text[j][2]
          PROVE  x \in FirstOver(F, text, n, j)
      BY <1>1, <1>3, <3>2
    <3>3. ASSUME x = Of(j) PROVE x \in FirstOver(F, text, n, j)
      BY <1>1, <1>3, <1>5, <3>3
    <3> QED
      BY <3>1, <3>2, <3>3
  <2>3. \A x : x \in Taking(FirstOver(F, text, n, i), text[j], n) <=>
           (x \in FirstOver(F, text, n, i) /\ x[1] # text[j][2]) \/ x = Of(j)
    BY DEF Taking, Of
  <2>4. FirstOver(F, text, n, j) = Taking(FirstOver(F, text, n, i), text[j], n)
    <3>1. \A x : x \in FirstOver(F, text, n, j) <=>
             x \in Taking(FirstOver(F, text, n, i), text[j], n)
      BY <2>2, <2>3, Zenon
    <3> QED
      BY <3>1
  <2> QED
    BY <1>1, <1>5, <2>4
<1> QED
  BY <1>4, <1>5

\* Reading one more line.
LEMMA LineMakes ==
    ASSUME NEW u, NEW t, NEW s \in PkgSlots, NEW M, RoomIn(t, M),
           NEW text \in Seq(Lines), Proper(text), ModsIn(text) \subseteq M,
           NEW n, \A i \in DOMAIN text : text[i][1] = "name" => text[i][2] = n,
           NEW i \in 0 .. (Len(text) - 1), ReadTo(u, t, s, Found(t), text, n, i)
    PROVE  ReadTo(pkg_parse_line(u, s, text[i + 1]), t, s, Found(t), text, n, i + 1)
<1>1. PICK j : j = i + 1 /\ j \in 1 .. Len(text) /\ 1 .. j = (1 .. i) \cup {j} /\ j - 1 = i
               /\ 1 .. i \subseteq 1 .. Len(text) /\ DOMAIN text = 1 .. Len(text)
  OBVIOUS
<1> DEFINE l == text[j]
           v == pkg_parse_line(u, s, l)
<1>7. l \in Lines
  BY <1>1
<1>2. Reading(u, s, n) /\ TableOK(u)
  BY DEF ReadTo, Reading
<1>3. Reading(v, s, n)
  <2>1. l[1] = "name" => l[2] = n
    BY <1>1
  <2> HIDE DEF l
  <2> QED
    BY <1>2, <1>7, <2>1, LineKeeps
<1>4. /\ l[1] # "mod" => FirstOver(Found(t), text, n, j) = FirstOver(Found(t), text, n, i)
      /\ l[1] = "mod" =>
           FirstOver(Found(t), text, n, j) = Taking(FirstOver(Found(t), text, n, i), l, n)
  BY <1>1, FirstOverSteps
<1>5. CASE l[1] # "mod"
  <2>1. /\ v.mods = u.mods
        /\ \A r \in PkgSlots \ {s} : v.pkgs[r] = u.pkgs[r]
        /\ v.pkgs[s].name = IF l[1] = "name" THEN l[2] ELSE u.pkgs[s].name
    BY <1>1, <1>2, <1>5, <1>7, OtherLineMakes
  <2> HIDE DEF v
  <2>2. Found(v) = Found(u)
    BY <2>1 DEF Found
  <2>3. Found(v) = FirstOver(Found(t), text, n, j)
    BY <1>4, <1>5, <2>2 DEF ReadTo
  <2>4. \A r \in PkgSlots \ {s} : v.pkgs[r] = t.pkgs[r]
    BY <2>1 DEF ReadTo
  <2>5. (\E h \in 1 .. j : text[h][1] = "name") => v.pkgs[s].name = n
    BY <1>1, <2>1 DEF ReadTo
  <2>6. (\A h \in 1 .. j : text[h][1] # "name") => v.pkgs[s].name = NoName
    BY <1>1, <2>1 DEF ReadTo
  <2>7. ReadTo(v, t, s, Found(t), text, n, j)
    BY <1>3, <2>3, <2>4, <2>5, <2>6 DEF ReadTo
  <2> QED
    BY <1>1, <2>7 DEF v
<1>6. CASE l[1] = "mod"
  <2>1. \E h \in 1 .. i : text[h][1] = "name"
    BY <1>1, <1>6 DEF Proper
  <2>2. u.pkgs[s].name = n
    BY <2>1 DEF ReadTo
  <2>3. n \in Parts /\ l[2] \in Parts /\ l[3] \in Parts
    <3>1. u.pkgs[s].name \in Parts
      BY <1>2 DEF TableOK, Tables, PkgEntry
    <3> QED
      BY <1>7, <2>2, <3>1 DEF Parts
  <2>4. l[2] \in M
    BY <1>1, <1>6 DEF ModsIn, ModLines, Range
  <2>5. RoomIn(u, M)
    <3> SUFFICES ASSUME NEW e \in Found(u) PROVE e[1] \in M
      BY DEF RoomIn
    <3>1. e \in FirstOver(Found(t), text, n, i)
      BY DEF ReadTo
    <3>2. CASE e \in Found(t)
      BY <3>2 DEF RoomIn
    <3>3. ASSUME NEW h \in 1 .. i, text[h][1] = "mod", e = <<text[h][2], text[h][3], n>>
          PROVE  e[1] \in M
      <4>1. e[1] = text[h][2] /\ text[h] \in ModLines(text)
        BY <1>1, <3>3 DEF ModLines, Range
      <4> QED
        BY <4>1 DEF ModsIn
    <3> QED
      BY <3>1, <3>2, <3>3 DEF FirstOver
  <2>6. v = [u EXCEPT !.mods = pkg_add_mod(@, n, l[2], l[3])]
    BY <1>6, <2>2 DEF pkg_parse_line
  <2>7. v.pkgs = u.pkgs /\ Found(v) = Taking(Found(u), l, n)
    <3> HIDE DEF l, v
    <3> QED
      BY <1>2, <2>3, <2>4, <2>5, <2>6, AddModMakes DEF Taking
  <2>8. Found(v) = FirstOver(Found(t), text, n, j)
    BY <1>4, <1>6, <2>7 DEF ReadTo
  <2> HIDE DEF v
  <2>9. \A r \in PkgSlots \ {s} : v.pkgs[r] = t.pkgs[r]
    BY <2>7 DEF ReadTo
  <2>10. v.pkgs[s].name = n /\ ~ \A h \in 1 .. j : text[h][1] # "name"
    BY <1>1, <2>1, <2>2, <2>7
  <2>11. ReadTo(v, t, s, Found(t), text, n, j)
    BY <1>3, <2>8, <2>9, <2>10 DEF ReadTo
  <2> QED
    BY <1>1, <2>11 DEF v
<1> QED
  BY <1>5, <1>6

LEMMA ReadMakes ==
    ASSUME NEW start, NEW t, NEW s \in PkgSlots, NEW M, RoomIn(t, M),
           NEW text \in Seq(Lines), Proper(text), ModsIn(text) \subseteq M,
           NEW n, \A i \in DOMAIN text : text[i][1] = "name" => text[i][2] = n,
           ReadTo(start, t, s, Found(t), text, n, 0)
    PROVE  ReadTo(Read(start, s, text), t, s, Found(t), text, n, Len(text))
<1>0. Reading(start, s, n)
  BY DEF ReadTo
<1>1. PICK f : /\ f[0] = start
               /\ \A i \in 1 .. Len(text) : f[i] = pkg_parse_line(f[i - 1], s, text[i])
               /\ Read(start, s, text) = f[Len(text)]
  BY <1>0, ReadSteps
<1>2. Len(text) \in Nat
  OBVIOUS
<1> DEFINE T == {i \in 0 .. Len(text) : ReadTo(f[i], t, s, Found(t), text, n, i)}
<1>3. 0 \in T
  BY <1>1, <1>2
<1>4. ASSUME NEW i \in 0 .. (Len(text) - 1), i \in T PROVE i + 1 \in T
  <2>1. i + 1 \in 1 .. Len(text) /\ (i + 1) - 1 = i /\ i + 1 \in 0 .. Len(text)
    BY <1>2
  <2>2. f[i + 1] = pkg_parse_line(f[i], s, text[i + 1])
    BY <1>1, <2>1
  <2>3. ReadTo(f[i], t, s, Found(t), text, n, i)
    BY <1>4
  <2>4. ReadTo(pkg_parse_line(f[i], s, text[i + 1]), t, s, Found(t), text, n, i + 1)
    BY <2>3, LineMakes
  <2> QED
    BY <2>1, <2>2, <2>4
<1>5. Len(text) \in T
  <2> HIDE DEF T
  <2>1. \A i \in 0 .. Len(text) : i \in T
    BY <1>2, <1>3, <1>4, UpToInduction
  <2> QED
    BY <1>2, <2>1
<1> QED
  BY <1>1, <1>5

\* All lines of a manifest.
LEMMA FirstOverAll ==
    ASSUME NEW F, NEW text \in Seq(Lines), Proper(text),
           NEW n, \A i \in DOMAIN text : text[i][1] = "name" => text[i][2] = n
    PROVE  FirstOver(F, text, n, Len(text)) = Over(F, text)
<1>1. DOMAIN text = 1 .. Len(text)
  OBVIOUS
<1>2. \A l : l \in ModLines(text) <=> \E i \in 1 .. Len(text) : l = text[i] /\ text[i][1] = "mod"
  BY <1>1 DEF ModLines, Range
<1>3. ModLines(text) # {} => NameOf(text) = n
  <2> SUFFICES ASSUME ModLines(text) # {} PROVE NameOf(text) = n
    OBVIOUS
  <2>1. PICK i \in DOMAIN text : text[i][1] = "mod"
    BY <1>1, <1>2
  <2>2. PICK j \in 1 .. (i - 1) : text[j][1] = "name"
    BY <2>1 DEF Proper
  <2>3. j \in DOMAIN text
    BY <1>1, <2>1, <2>2
  <2>4. \E l \in Range(text) : l[1] = "name"
    BY <2>2, <2>3 DEF Range
  <2>5. \A l \in Range(text) : l[1] = "name" => l[2] = n
    BY DEF Range
  <2> QED
    BY <2>4, <2>5 DEF NameOf
<1>4. \A m : m \in ModsIn(text) <=> \E l \in ModLines(text) : m = l[2]
  BY DEF ModsIn
<1>5. \A x : x \in FirstOver(F, text, n, Len(text)) <=>
         \/ x \in F /\ \A i \in 1 .. Len(text) : text[i][1] = "mod" => text[i][2] # x[1]
         \/ \E i \in 1 .. Len(text) : text[i][1] = "mod" /\ x = <<text[i][2], text[i][3], n>>
  BY DEF FirstOver
<1>6. \A x : x \in Over(F, text) <=>
         \/ x \in F /\ x[1] \notin ModsIn(text)
         \/ \E l \in ModLines(text) : x = <<l[2], l[3], NameOf(text)>>
  BY DEF Over
<1>7. \A x : (\A i \in 1 .. Len(text) : text[i][1] = "mod" => text[i][2] # x[1])
               <=> x[1] \notin ModsIn(text)
  BY <1>2, <1>4
<1>8. \A x : (\E i \in 1 .. Len(text) : text[i][1] = "mod" /\ x = <<text[i][2], text[i][3], n>>)
               <=> \E l \in ModLines(text) : x = <<l[2], l[3], NameOf(text)>>
  <2> TAKE x
  <2>1. ASSUME NEW i \in 1 .. Len(text), text[i][1] = "mod", x = <<text[i][2], text[i][3], n>>
        PROVE  \E l \in ModLines(text) : x = <<l[2], l[3], NameOf(text)>>
    <3>1. text[i] \in ModLines(text)
      BY <1>2, <2>1
    <3>2. NameOf(text) = n
      BY <1>3, <3>1
    <3> QED
      BY <2>1, <3>1, <3>2
  <2>2. ASSUME NEW l \in ModLines(text), x = <<l[2], l[3], NameOf(text)>>
        PROVE  \E i \in 1 .. Len(text) : text[i][1] = "mod" /\ x = <<text[i][2], text[i][3], n>>
    BY <1>2, <1>3, <2>2
  <2> QED
    BY <2>1, <2>2
<1>9. \A x : x \in FirstOver(F, text, n, Len(text)) <=> x \in Over(F, text)
  <2> TAKE x
  <2>1. (x \in F /\ \A i \in 1 .. Len(text) : text[i][1] = "mod" => text[i][2] # x[1])
           <=> x \in F /\ x[1] \notin ModsIn(text)
    BY <1>7, Zenon
  <2>2. (\E i \in 1 .. Len(text) : text[i][1] = "mod" /\ x = <<text[i][2], text[i][3], n>>)
           <=> \E l \in ModLines(text) : x = <<l[2], l[3], NameOf(text)>>
    BY <1>8, Zenon
  <2> QED
    BY <1>5, <1>6, <2>1, <2>2, Zenon
<1> QED
  BY <1>9

\* A manifest of a package that is not there, with room for it: its modules
\* pass to it, and one slot is its own.
ParsedInto(u, t, text) ==
    /\ \E s \in PkgSlots :
          /\ ~ t.pkgs[s].used
          /\ \A r \in PkgSlots \ {s} : u.pkgs[r] = t.pkgs[r]
          /\ u.pkgs[s].used => u.pkgs[s].name \in NamesIn(text)
    /\ Found(u) = Over(Found(t), text)

LEMMA ParseMakes ==
    ASSUME NEW t, TableOK(t), NEW M, RoomIn(t, M), NEW path \in Parts,
           NEW text \in Seq(Lines), Proper(text), ModsIn(text) \subseteq M,
           \E r \in PkgSlots : ~ t.pkgs[r].used,
           \A r \in PkgSlots : t.pkgs[r].used => t.pkgs[r].name \notin NamesIn(text)
    PROVE  ParsedInto(pkg_parse_manifest_text(t, text, path), t, text)
<1> DEFINE free == {s \in PkgSlots : ~ t.pkgs[s].used}
           s == Lowest(free)
           entry == [used |-> TRUE, name |-> NoName, manifest |-> path, files |-> {path}]
           start == [t EXCEPT !.pkgs[s] = entry]
           read == Read(start, s, text)
           name == read.pkgs[s].name
           old == Lowest(Installed(read, name))
           u == pkg_parse_manifest_text(t, text, path)
<1>1. /\ name = NoName => u = [read EXCEPT !.pkgs[s] = FreePkg]
      /\ name # NoName /\ old = s => u = read
  <2>1. u = IF free = {} THEN t
            ELSE IF name = NoName THEN [read EXCEPT !.pkgs[s] = FreePkg]
            ELSE IF old = s THEN read
            ELSE [pkgs |-> [read.pkgs EXCEPT ![old] = FreePkg],
                  mods |-> pkg_clear_mods_for(read.mods, name)]
    BY DEF pkg_parse_manifest_text, Read
  <2>2. free # {}
    OBVIOUS
  <2> HIDE DEF u, free, s, read, old, name
  <2> QED
    BY <2>1, <2>2
<1>2. s \in PkgSlots /\ ~ t.pkgs[s].used
  <2>1. free \in SUBSET PkgSlots /\ free # {}
    OBVIOUS
  <2>2. Lowest(free) \in free
    BY <2>1, SlotNumbers
  <2> QED
    BY <2>2
<1>3. PICK n : \A i \in DOMAIN text : text[i][1] = "name" => text[i][2] = n
  BY DEF Proper, NamesOne
<1>4. ReadTo(start, t, s, Found(t), text, n, 0)
  <2> HIDE DEF s
  <2>1. t.pkgs \in [PkgSlots -> PkgEntry] /\ t.mods \in [ModSlots -> ModEntry]
        /\ t = [pkgs |-> t.pkgs, mods |-> t.mods]
    BY DEF TableOK, Tables
  <2>2. entry \in PkgEntry /\ entry.used /\ entry.name = NoName
    BY DEF PkgEntry, Parts
  <2>3. start = [pkgs |-> [t.pkgs EXCEPT ![s] = entry], mods |-> t.mods]
    <3> HIDE DEF entry
    <3>1. start = [t EXCEPT !.pkgs[s] = entry]
      BY DEF entry
    <3> HIDE DEF start
    <3> QED
      BY <2>1, <3>1
  <2> HIDE DEF start, entry
  <2>4. /\ start.mods = t.mods /\ start \in Tables /\ start.pkgs[s] = entry
        /\ \A r \in PkgSlots \ {s} : start.pkgs[r] = t.pkgs[r]
    BY <1>2, <2>1, <2>2, <2>3 DEF Tables
  <2>5. \A m : HasPkg(t, m) => HasPkg(start, m)
    BY <1>2, <2>4 DEF HasPkg
  <2>6. Reading(start, s, n)
    BY <2>2, <2>4, <2>5 DEF Reading, TableOK, Once, Owned
  <2>7. Found(start) = Found(t)
    BY <2>4 DEF Found
  <2>8. \A x : x \in FirstOver(Found(t), text, n, 0) <=> x \in Found(t)
    <3>1. 1 .. 0 = {}
      OBVIOUS
    <3> QED
      BY <3>1 DEF FirstOver
  <2>9. FirstOver(Found(t), text, n, 0) = Found(t)
    BY <2>8
  <2>10. ~ \E j \in 1 .. 0 : text[j][1] = "name"
    OBVIOUS
  <2> QED
    BY <2>2, <2>4, <2>6, <2>7, <2>9, <2>10 DEF ReadTo
<1>5. ReadTo(read, t, s, Found(t), text, n, Len(text))
  <2> HIDE DEF start, s
  <2> QED
    BY <1>2, <1>3, <1>4, ReadMakes
<1> HIDE DEF read, s, u
<1>6. Found(read) = Over(Found(t), text)
  BY <1>3, <1>5, FirstOverAll DEF ReadTo
<1>7. \A r \in PkgSlots \ {s} : read.pkgs[r] = t.pkgs[r]
  BY <1>5 DEF ReadTo
<1>8. read.pkgs[s].used /\ read \in Tables
  BY <1>5 DEF ReadTo, Reading, TableOK
<1>9. CASE name = NoName
  <2>1. read.pkgs \in [PkgSlots -> PkgEntry] /\ read = [pkgs |-> read.pkgs, mods |-> read.mods]
    BY <1>8 DEF Tables
  <2>2. u = [pkgs |-> [read.pkgs EXCEPT ![s] = FreePkg], mods |-> read.mods]
    BY <1>1, <1>9, <2>1
  <2>3. u.mods = read.mods /\ u.pkgs[s] = FreePkg /\ \A r \in PkgSlots \ {s} : u.pkgs[r] = t.pkgs[r]
    BY <1>2, <1>7, <2>1, <2>2
  <2>4. Found(u) = Found(read) /\ ~ u.pkgs[s].used
    BY <2>3 DEF Found, FreePkg
  <2> QED
    BY <1>2, <1>6, <2>3, <2>4 DEF ParsedInto, u
<1>10. CASE name # NoName
  <2>1. PICK j \in 1 .. Len(text) : text[j][1] = "name"
    BY <1>5, <1>10 DEF ReadTo
  <2>2. name = n
    BY <1>5, <2>1 DEF ReadTo
  <2>3. name \in NamesIn(text)
    <3>1. j \in DOMAIN text
      OBVIOUS
    <3>2. text[j] \in Range(text) /\ text[j][2] = n
      BY <1>3, <2>1, <3>1 DEF Range
    <3> QED
      BY <2>1, <2>2, <3>2 DEF NamesIn
  <2>4. Installed(read, name) = {s}
    BY <1>2, <1>7, <1>8, <2>3 DEF Installed
  <2>5. old = s
    <3>1. {s} \in SUBSET PkgSlots /\ {s} # {}
      BY <1>2
    <3>2. Lowest({s}) \in {s}
      BY <3>1, SlotNumbers
    <3> QED
      BY <2>4, <3>2
  <2>6. u = read
    BY <1>1, <1>10, <2>5
  <2> QED
    BY <1>2, <1>6, <1>7, <2>3, <2>6 DEF ParsedInto, u
<1> QED
  BY <1>9, <1>10

\* The manifests on the disk, as far as the first i inodes, and what is found
\* in them.
UpTo(d, i) == {j \in Readable(d) : j <= i}
FoundTo(d, i) ==
    UNION {{<<l[2], l[3], NameOf(Text(d, j))>> :
                l \in {k \in ModLines(Text(d, j)) :
                         \A h \in UpTo(d, i) : h > j => k[2] \notin ModsIn(Text(d, h))}} :
            j \in UpTo(d, i)}
ModsOnDisk(d) == UNION {ModsIn(Text(d, i)) : i \in Readable(d)}
UsedPkgs(t) == {s \in PkgSlots : t.pkgs[s].used}

\* Each manifest is proper, no two name one package, and they fit the tables.
DiskProper(d) ==
    /\ \A i \in Readable(d) : Proper(Text(d, i))
    /\ \A i, j \in Readable(d) : i # j => NamesIn(Text(d, i)) \cap NamesIn(Text(d, j)) = {}
    /\ \A l \in Range(Torn) : l[1] \notin {"name", "mod"}
    /\ Cardinality(Readable(d)) < PkgMax
    /\ Cardinality(ModsOnDisk(d)) <= ModMax

\* The first i manifests have been installed.
Scanned(t, d, i) ==
    /\ TableOK(t)
    /\ Found(t) = FoundTo(d, i)
    /\ \A s \in UsedPkgs(t) : \E j \in UpTo(d, i) : t.pkgs[s].name \in NamesIn(Text(d, j))
    /\ Cardinality(UsedPkgs(t)) <= Cardinality(UpTo(d, i))

LEMMA FoundToIs ==
    ASSUME NEW d, NEW i, NEW e
    PROVE  e \in FoundTo(d, i) <=>
              \E j \in UpTo(d, i) : \E l \in ModLines(Text(d, j)) :
                 /\ e = <<l[2], l[3], NameOf(Text(d, j))>>
                 /\ \A h \in UpTo(d, i) : h > j => l[2] \notin ModsIn(Text(d, h))
  BY DEF FoundTo

\* Finite many lines have finite many names.
LEMMA NamesFinite ==
    ASSUME NEW text \in Seq(Lines)
    PROVE  IsFiniteSet(ModsIn(text))
<1> DEFINE D == {i \in 1 .. Len(text) : text[i][1] = "mod"}
           f == [i \in D |-> text[i][2]]
<1>1. DOMAIN text = 1 .. Len(text) /\ Len(text) \in Nat
  OBVIOUS
<1>2. IsFiniteSet(1 .. Len(text)) /\ D \in SUBSET (1 .. Len(text))
  BY <1>1, FS_Interval
<1>3. IsFiniteSet(D)
  BY <1>2, FS_Subset
<1>4. \A m : m \in ModsIn(text) <=> \E i \in D : m = text[i][2]
  BY <1>1 DEF ModsIn, ModLines, Range
<1>5. f \in Surjection(D, ModsIn(text))
  <2>1. f \in [D -> ModsIn(text)]
    BY <1>4
  <2>2. \A m \in ModsIn(text) : \E i \in D : f[i] = m
    BY <1>4
  <2> HIDE DEF f, D
  <2> QED
    BY <2>1, <2>2 DEF Surjection
<1> HIDE DEF f, D
<1> QED
  BY <1>3, <1>5, FS_Surjection

LEMMA ReadableFinite ==
    ASSUME NEW d
    PROVE  /\ IsFiniteSet(Readable(d)) /\ Cardinality(Readable(d)) \in Nat
           /\ \A i : IsFiniteSet(UpTo(d, i)) /\ Cardinality(UpTo(d, i)) \in Nat
                     /\ Cardinality(UpTo(d, i)) <= Cardinality(Readable(d))
<1>1. Len(ManifestPaths) \in Nat
  BY TextAssumption
<1>2. IsFiniteSet(1 .. Len(ManifestPaths)) /\ Readable(d) \in SUBSET (1 .. Len(ManifestPaths))
  BY <1>1, FS_Interval DEF Readable
<1>3. IsFiniteSet(Readable(d))
  BY <1>2, FS_Subset
<1>4. ASSUME NEW i
      PROVE  IsFiniteSet(UpTo(d, i)) /\ Cardinality(UpTo(d, i)) <= Cardinality(Readable(d))
  <2>1. UpTo(d, i) \in SUBSET Readable(d)
    BY DEF UpTo
  <2> QED
    BY <1>3, <2>1, FS_Subset
<1> QED
  BY <1>3, <1>4, FS_CardinalityType

LEMMA TextRead ==
    ASSUME NEW d, DiskOK(d), NEW i \in Readable(d)
    PROVE  /\ i \in 1 .. Len(ManifestPaths) /\ ManifestPaths[i] \in Paths
           /\ Text(d, i) \in Seq(Lines)
<1>1. i \in 1 .. Len(ManifestPaths) /\ Text(d, i) \notin {NoFile, Torn, <<>>}
  BY DEF Readable
<1>2. ManifestPaths[i] \in Paths
  BY <1>1, TextAssumption
<1> QED
  BY <1>1, <1>2 DEF DiskOK, Text

LEMMA DiskModsFinite ==
    ASSUME NEW d, DiskOK(d)
    PROVE  IsFiniteSet(ModsOnDisk(d))
<1> DEFINE R == Readable(d)
           Names == {ModsIn(Text(d, i)) : i \in R}
           f == [i \in R |-> ModsIn(Text(d, i))]
<1>1. f \in Surjection(R, Names)
  <2>1. f \in [R -> Names] /\ \A m \in Names : \E i \in R : f[i] = m
    OBVIOUS
  <2> HIDE DEF f, R, Names
  <2> QED
    BY <2>1 DEF Surjection
<1>2. \A N \in Names : IsFiniteSet(N)
  BY TextRead, NamesFinite
<1>3. IsFiniteSet(R)
  BY ReadableFinite
<1>4. ModsOnDisk(d) = UNION Names
  BY DEF ModsOnDisk
<1> HIDE DEF f, R, Names
<1>5. IsFiniteSet(Names)
  BY <1>1, <1>3, FS_Surjection
<1> QED
  BY <1>2, <1>4, <1>5, FS_UNION

\* What is found is named on the disk.
LEMMA ScannedRoom ==
    ASSUME NEW t, NEW d, DiskOK(d), DiskProper(d), NEW i, Scanned(t, d, i)
    PROVE  RoomIn(t, ModsOnDisk(d))
<1>1. ASSUME NEW e \in Found(t) PROVE e[1] \in ModsOnDisk(d)
  <2>0. PICK j \in UpTo(d, i) : \E l \in ModLines(Text(d, j)) : e = <<l[2], l[3], NameOf(Text(d, j))>>
    BY FoundToIs DEF Scanned
  <2>1. PICK l \in ModLines(Text(d, j)) : e = <<l[2], l[3], NameOf(Text(d, j))>>
    BY <2>0
  <2>2. e[1] = l[2] /\ j \in Readable(d)
    BY <2>1 DEF UpTo
  <2> QED
    BY <2>2 DEF ModsOnDisk, ModsIn
<1> QED
  BY <1>1, DiskModsFinite DEF RoomIn, DiskProper

LEMMA UsedFinite ==
    ASSUME NEW t
    PROVE  IsFiniteSet(UsedPkgs(t)) /\ Cardinality(UsedPkgs(t)) \in Nat
           /\ IsFiniteSet(PkgSlots) /\ Cardinality(PkgSlots) = PkgMax /\ PkgMax \in Nat \ {0}
<1>1. PkgMax \in Nat \ {0}
  BY TableAssumption
<1>2. 1 \in Int /\ PkgMax \in Int /\ ~ (1 > PkgMax) /\ PkgMax - 1 + 1 = PkgMax
  BY <1>1
<1>3. IsFiniteSet(PkgSlots) /\ Cardinality(PkgSlots) = PkgMax
  BY <1>2, FS_Interval DEF PkgSlots
<1>4. UsedPkgs(t) \in SUBSET PkgSlots
  BY DEF UsedPkgs
<1>5. IsFiniteSet(UsedPkgs(t))
  BY <1>3, <1>4, FS_Subset
<1> QED
  BY <1>1, <1>3, <1>5, FS_CardinalityType

\* There is a slot for each manifest, and one more.
LEMMA ScannedFree ==
    ASSUME NEW t, NEW d, DiskProper(d), NEW i, Scanned(t, d, i)
    PROVE  \E r \in PkgSlots : ~ t.pkgs[r].used
<1> SUFFICES ASSUME \A r \in PkgSlots : t.pkgs[r].used
             PROVE  FALSE
  OBVIOUS
<1>1. UsedPkgs(t) = PkgSlots
  BY DEF UsedPkgs
<1>2. Cardinality(UsedPkgs(t)) = PkgMax /\ PkgMax \in Nat
  BY <1>1, UsedFinite
<1>3. Cardinality(UsedPkgs(t)) <= Cardinality(UpTo(d, i))
  BY DEF Scanned
<1>4. /\ Cardinality(UpTo(d, i)) \in Nat /\ Cardinality(Readable(d)) \in Nat
      /\ Cardinality(UpTo(d, i)) <= Cardinality(Readable(d))
  BY ReadableFinite
<1>5. Cardinality(Readable(d)) < PkgMax
  BY DEF DiskProper
<1> QED
  BY <1>2, <1>3, <1>4, <1>5

\* What is found in one more manifest.
LEMMA FoundToMore ==
    ASSUME NEW d, NEW i \in Nat, i + 1 \in Readable(d)
    PROVE  FoundTo(d, i + 1) = Over(FoundTo(d, i), Text(d, i + 1))
<1>1. PICK k : k = i + 1 /\ k \in UpTo(d, k) /\ UpTo(d, k) = UpTo(d, i) \cup {k}
               /\ (\A h \in UpTo(d, i) : h < k) /\ k \in Int
               /\ UpTo(d, i) \subseteq Int
  <2>1. Readable(d) \subseteq Int
    BY DEF Readable
  <2> QED
    BY <2>1 DEF UpTo
<1> DEFINE Is(e, j, l) == e = <<l[2], l[3], NameOf(Text(d, j))>>
           Stands(l, j, n) == \A h \in UpTo(d, n) : h > j => l[2] \notin ModsIn(Text(d, h))
<1>2. \A e, j, l : Is(e, j, l) => e[1] = l[2]
  OBVIOUS
<1>3. \A e, n : e \in FoundTo(d, n) <=>
         \E j \in UpTo(d, n) : \E l \in ModLines(Text(d, j)) : Is(e, j, l) /\ Stands(l, j, n)
  BY FoundToIs
<1>4. \A e : e \in Over(FoundTo(d, i), Text(d, k)) <=>
         \/ e \in FoundTo(d, i) /\ e[1] \notin ModsIn(Text(d, k))
         \/ \E l \in ModLines(Text(d, k)) : Is(e, k, l)
  BY DEF Over
<1>5. \A l : Stands(l, k, k)
  BY <1>1
<1>6. \A j \in UpTo(d, i) : \A l :
         Stands(l, j, k) <=> Stands(l, j, i) /\ l[2] \notin ModsIn(Text(d, k))
  BY <1>1
<1> HIDE DEF Is, Stands
<1>7. ASSUME NEW e, e \in FoundTo(d, k) PROVE e \in Over(FoundTo(d, i), Text(d, k))
  <2>0. PICK j \in UpTo(d, k) : \E l \in ModLines(Text(d, j)) : Is(e, j, l) /\ Stands(l, j, k)
    BY <1>3, <1>7
  <2>1. PICK l \in ModLines(Text(d, j)) : Is(e, j, l) /\ Stands(l, j, k)
    BY <2>0
  <2>2. CASE j = k
    BY <1>4, <2>1, <2>2
  <2>3. CASE j # k
    <3>1. j \in UpTo(d, i)
      BY <1>1, <2>3
    <3>2. Stands(l, j, i) /\ l[2] \notin ModsIn(Text(d, k))
      BY <1>6, <2>1, <3>1
    <3> QED
      BY <1>2, <1>3, <1>4, <2>1, <3>1, <3>2
  <2> QED
    BY <2>2, <2>3
<1>8. ASSUME NEW e, e \in FoundTo(d, i), e[1] \notin ModsIn(Text(d, k)) PROVE e \in FoundTo(d, k)
  <2>0. PICK j \in UpTo(d, i) : \E l \in ModLines(Text(d, j)) : Is(e, j, l) /\ Stands(l, j, i)
    BY <1>3, <1>8
  <2>1. PICK l \in ModLines(Text(d, j)) : Is(e, j, l) /\ Stands(l, j, i)
    BY <2>0
  <2>2. Stands(l, j, k) /\ j \in UpTo(d, k)
    BY <1>1, <1>2, <1>6, <1>8, <2>1
  <2> QED
    BY <1>3, <2>1, <2>2
<1>9. ASSUME NEW e, NEW l \in ModLines(Text(d, k)), Is(e, k, l) PROVE e \in FoundTo(d, k)
  BY <1>1, <1>3, <1>5, <1>9
<1>10. \A e : e \in FoundTo(d, k) <=> e \in Over(FoundTo(d, i), Text(d, k))
  BY <1>4, <1>7, <1>8, <1>9
<1> QED
  BY <1>1, <1>10

\* A file that holds no manifest changes nothing that is found.
LEMMA UpToSame ==
    ASSUME NEW d, NEW i \in Nat, i + 1 \notin Readable(d)
    PROVE  UpTo(d, i + 1) = UpTo(d, i) /\ FoundTo(d, i + 1) = FoundTo(d, i)
<1>1. Readable(d) \subseteq Int
  BY DEF Readable
<1>2. UpTo(d, i + 1) = UpTo(d, i)
  BY <1>1 DEF UpTo
<1>3. \A e : e \in FoundTo(d, i + 1) <=> e \in FoundTo(d, i)
  BY <1>2, FoundToIs
<1> QED
  BY <1>2, <1>3

\* A manifest of the disk that is read at slot s.
LEMMA ScannedMore ==
    ASSUME NEW u, NEW v, NEW d, DiskOK(d), DiskProper(d), NEW i \in Nat, Scanned(u, d, i),
           i + 1 \in 1 .. Len(ManifestPaths), TableOK(v), ParsedInto(v, u, Text(d, i + 1)),
           i + 1 \in Readable(d) \/ Text(d, i + 1) = Torn
    PROVE  Scanned(v, d, i + 1)
<1>1. PICK k : k = i + 1
  OBVIOUS
<1>2. PICK s \in PkgSlots : /\ ~ u.pkgs[s].used
                            /\ \A r \in PkgSlots \ {s} : v.pkgs[r] = u.pkgs[r]
                            /\ v.pkgs[s].used => v.pkgs[s].name \in NamesIn(Text(d, k))
  BY <1>1 DEF ParsedInto
<1>3. Found(v) = Over(FoundTo(d, i), Text(d, k))
  BY <1>1 DEF ParsedInto, Scanned
<1>4. \A n \in UpTo(d, i) : n \in UpTo(d, k)
  <2>1. Readable(d) \subseteq Int
    BY DEF Readable
  <2> QED
    BY <1>1, <2>1 DEF UpTo
<1>5. \A r \in UsedPkgs(v) : r # s => r \in UsedPkgs(u) /\ v.pkgs[r] = u.pkgs[r]
  BY <1>2 DEF UsedPkgs
<1>6. CASE k \in Readable(d)
  <2>1. Found(v) = FoundTo(d, k)
    BY <1>1, <1>3, <1>6, FoundToMore
  <2>2. k \in UpTo(d, k) /\ k \notin UpTo(d, i) /\ UpTo(d, k) = UpTo(d, i) \cup {k}
    <3>1. Readable(d) \subseteq Int
      BY DEF Readable
    <3> QED
      BY <1>1, <1>6, <3>1 DEF UpTo
  <2>3. \A r \in UsedPkgs(v) : \E j \in UpTo(d, k) : v.pkgs[r].name \in NamesIn(Text(d, j))
    <3> TAKE r \in UsedPkgs(v)
    <3>1. CASE r = s
      BY <1>2, <2>2, <3>1 DEF UsedPkgs
    <3>2. CASE r # s
      <4>1. r \in UsedPkgs(u) /\ v.pkgs[r] = u.pkgs[r]
        BY <1>5, <3>2
      <4> QED
        BY <1>4, <4>1 DEF Scanned
    <3> QED
      BY <3>1, <3>2
  <2>4. Cardinality(UpTo(d, k)) = Cardinality(UpTo(d, i)) + 1
    BY <2>2, ReadableFinite, FS_AddElement
  <2>5. IsFiniteSet(UsedPkgs(u) \cup {s})
        /\ Cardinality(UsedPkgs(u) \cup {s}) = Cardinality(UsedPkgs(u)) + 1
    <3>1. s \notin UsedPkgs(u)
      BY <1>2 DEF UsedPkgs
    <3> QED
      BY <3>1, UsedFinite, FS_AddElement
  <2>6. Cardinality(UsedPkgs(v)) <= Cardinality(UsedPkgs(u) \cup {s})
    <3>1. UsedPkgs(v) \in SUBSET (UsedPkgs(u) \cup {s})
      BY <1>5
    <3> QED
      BY <2>5, <3>1, FS_Subset
  <2>7. Cardinality(UsedPkgs(v)) <= Cardinality(UpTo(d, k))
    <3>1. Cardinality(UsedPkgs(u)) <= Cardinality(UpTo(d, i))
      BY DEF Scanned
    <3>2. /\ Cardinality(UsedPkgs(u)) \in Nat /\ Cardinality(UsedPkgs(v)) \in Nat
          /\ Cardinality(UpTo(d, i)) \in Nat
      BY UsedFinite, ReadableFinite
    <3> QED
      BY <2>4, <2>5, <2>6, <3>1, <3>2
  <2>8. Scanned(v, d, k)
    BY <2>1, <2>3, <2>7 DEF Scanned
  <2> QED
    BY <1>1, <2>8
<1>7. CASE k \notin Readable(d)
  <2>1. Text(d, k) = Torn
    BY <1>1, <1>7
  <2>2. ModsIn(Torn) = {} /\ NamesIn(Torn) = {} /\ ModLines(Torn) = {}
    BY DEF DiskProper, ModsIn, NamesIn, ModLines
  <2>3. UpTo(d, k) = UpTo(d, i) /\ FoundTo(d, k) = FoundTo(d, i)
    BY <1>1, <1>7, UpToSame
  <2>4. Found(v) = FoundTo(d, k)
    <3>1. \A x : x \in Over(FoundTo(d, i), Torn) <=> x \in FoundTo(d, i)
      BY <2>2 DEF Over
    <3>2. Over(FoundTo(d, i), Torn) = FoundTo(d, i)
      BY <3>1
    <3> QED
      BY <1>3, <2>1, <2>3, <3>2
  <2>5. s \notin UsedPkgs(v)
    BY <1>2, <2>1, <2>2 DEF UsedPkgs
  <2>6. UsedPkgs(v) \in SUBSET UsedPkgs(u)
    BY <1>5, <2>5
  <2>7. \A r \in UsedPkgs(v) : \E j \in UpTo(d, k) : v.pkgs[r].name \in NamesIn(Text(d, j))
    <3> TAKE r \in UsedPkgs(v)
    <3>1. r \in UsedPkgs(u) /\ v.pkgs[r] = u.pkgs[r]
      BY <1>5, <2>5
    <3> QED
      BY <2>3, <3>1 DEF Scanned
  <2>8. Cardinality(UsedPkgs(v)) <= Cardinality(UpTo(d, k))
    <3>1. Cardinality(UsedPkgs(v)) <= Cardinality(UsedPkgs(u))
      BY <2>6, UsedFinite, FS_Subset
    <3>2. Cardinality(UsedPkgs(u)) <= Cardinality(UpTo(d, i))
      BY DEF Scanned
    <3>3. /\ Cardinality(UsedPkgs(u)) \in Nat /\ Cardinality(UsedPkgs(v)) \in Nat
          /\ Cardinality(UpTo(d, i)) \in Nat
      BY UsedFinite, ReadableFinite
    <3> QED
      BY <2>3, <3>1, <3>2, <3>3
  <2>9. Scanned(v, d, k)
    BY <2>4, <2>7, <2>8 DEF Scanned
  <2> QED
    BY <1>1, <2>9
<1> QED
  BY <1>6, <1>7

LEMMA InstallMakes ==
    ASSUME NEW u, NEW d, DiskOK(d), DiskProper(d), NEW i \in 0 .. (Len(ManifestPaths) - 1),
           Scanned(u, d, i)
    PROVE  Scanned(pkg_install_manifest(u, d, ManifestPaths[i + 1]), d, i + 1)
<1>1. PICK k : k = i + 1 /\ k \in 1 .. Len(ManifestPaths) /\ i \in Nat
  BY TextAssumption
<1>2. PICK p \in Paths : p = ManifestPaths[k] /\ Text(d, k) = d[p]
  BY <1>1, TextAssumption DEF Text
<1> DEFINE v == pkg_install_manifest(u, d, p)
<1>3. TableOK(u) /\ TableOK(v)
  BY InstallKeeps DEF Scanned
<1>4. CASE d[p] \in {NoFile, <<>>}
  <2>1. v = u /\ k \notin Readable(d)
    BY <1>2, <1>4 DEF pkg_install_manifest, Readable
  <2>2. UpTo(d, k) = UpTo(d, i) /\ FoundTo(d, k) = FoundTo(d, i)
    BY <1>1, <2>1, UpToSame
  <2>3. Scanned(v, d, k)
    BY <2>1, <2>2 DEF Scanned
  <2> QED
    BY <1>1, <1>2, <2>3
<1>5. CASE d[p] \notin {NoFile, <<>>}
  <2>1. v = pkg_parse_manifest_text(u, d[p], p) /\ d[p] \in Seq(Lines)
    BY <1>5 DEF pkg_install_manifest, DiskOK
  <2>2. k \in Readable(d) \/ d[p] = Torn
    BY <1>1, <1>2, <1>5 DEF Readable
  <2>3. /\ Proper(d[p]) /\ ModsIn(d[p]) \subseteq ModsOnDisk(d)
        /\ \A r \in PkgSlots : u.pkgs[r].used => u.pkgs[r].name \notin NamesIn(d[p])
    <3>1. CASE k \in Readable(d)
      <4>1. Proper(d[p]) /\ ModsIn(d[p]) \subseteq ModsOnDisk(d)
        BY <1>2, <3>1 DEF DiskProper, ModsOnDisk
      <4>2. ASSUME NEW r \in PkgSlots, u.pkgs[r].used
            PROVE  u.pkgs[r].name \notin NamesIn(d[p])
        <5>1. r \in UsedPkgs(u)
          BY <4>2 DEF UsedPkgs
        <5>2. PICK j \in UpTo(d, i) : u.pkgs[r].name \in NamesIn(Text(d, j))
          BY <5>1 DEF Scanned
        <5>3. j \in Readable(d) /\ j # k
          BY <1>1, <5>2 DEF UpTo
        <5>4. NamesIn(Text(d, j)) \cap NamesIn(Text(d, k)) = {}
          BY <3>1, <5>3 DEF DiskProper
        <5> QED
          BY <1>2, <5>2, <5>4
      <4> QED
        BY <4>1, <4>2
    <3>2. CASE d[p] = Torn
      <4>1. ModLines(Torn) = {} /\ ModsIn(Torn) = {} /\ NamesIn(Torn) = {}
        BY DEF DiskProper, ModLines, ModsIn, NamesIn
      <4>2. \A j \in DOMAIN Torn : Torn[j][1] \notin {"name", "mod"}
        BY DEF DiskProper, Range
      <4>3. Proper(Torn)
        BY <4>1, <4>2 DEF Proper, NamesOne
      <4> QED
        BY <3>2, <4>1, <4>3
    <3> QED
      BY <2>2, <3>1, <3>2
  <2>4. RoomIn(u, ModsOnDisk(d))
    BY ScannedRoom
  <2>5. \E r \in PkgSlots : ~ u.pkgs[r].used
    BY ScannedFree
  <2>6. p \in Parts
    BY DEF Parts
  <2>7. ParsedInto(v, u, d[p])
    BY <1>3, <2>1, <2>3, <2>4, <2>5, <2>6, ParseMakes
  <2> HIDE DEF v
  <2>8. Scanned(v, d, k)
    BY <1>1, <1>2, <1>3, <2>2, <2>7, ScannedMore
  <2> QED
    BY <1>1, <1>2, <2>8 DEF v
<1> QED
  BY <1>4, <1>5

\* pkg_rescan finds the modules of the manifests.
LEMMA RescanMakes ==
    ASSUME NEW d, DiskOK(d), DiskProper(d)
    PROVE  Scanned(pkg_rescan(EmptyTables, d), d, Len(ManifestPaths))
<1>1. PICK f : /\ f[0] = EmptyTables
               /\ \A i \in 1 .. Len(ManifestPaths) :
                     f[i] = pkg_install_manifest(f[i - 1], d, ManifestPaths[i])
               /\ pkg_rescan_more(EmptyTables, d) = f[Len(ManifestPaths)]
  BY EmptyOK, RescanSteps
<1>2. PICK N \in Nat : N = Len(ManifestPaths)
  BY TextAssumption
<1> DEFINE T == {i \in 0 .. N : Scanned(f[i], d, i)}
<1>3. 0 \in T
  <2>1. UpTo(d, 0) = {}
    BY DEF UpTo, Readable
  <2>2. \A e : e \notin FoundTo(d, 0)
    BY <2>1, FoundToIs
  <2>3. \A s \in ModSlots : ~ EmptyTables.mods[s].used
    BY DEF EmptyTables, FreeMod
  <2>4. EmptyTables.mods \in [ModSlots -> ModEntry]
    BY EmptyOK DEF TableOK, Tables
  <2>5. \A e : e \notin Found(EmptyTables)
    BY <2>3, <2>4, FoundIn
  <2>6. UsedPkgs(EmptyTables) = {}
    BY DEF UsedPkgs, EmptyTables, FreePkg
  <2>7. Cardinality(UsedPkgs(EmptyTables)) <= Cardinality(UpTo(d, 0))
    BY <2>1, <2>6, FS_EmptySet
  <2>8. Scanned(EmptyTables, d, 0)
    BY <2>2, <2>5, <2>6, <2>7, EmptyOK DEF Scanned
  <2> QED
    BY <1>1, <2>8
<1>4. ASSUME NEW i \in 0 .. (N - 1), i \in T PROVE i + 1 \in T
  <2>1. i + 1 \in 1 .. N /\ (i + 1) - 1 = i /\ i + 1 \in 0 .. N
    OBVIOUS
  <2>2. f[i + 1] = pkg_install_manifest(f[i], d, ManifestPaths[i + 1])
    BY <1>1, <1>2, <2>1
  <2>3. Scanned(f[i], d, i)
    BY <1>4
  <2>4. Scanned(pkg_install_manifest(f[i], d, ManifestPaths[i + 1]), d, i + 1)
    BY <1>2, <2>3, InstallMakes
  <2> QED
    BY <2>1, <2>2, <2>4
<1>5. N \in T
  <2> HIDE DEF T
  <2>1. \A i \in 0 .. N : i \in T
    BY <1>3, <1>4, UpToInduction
  <2> QED
    BY <2>1
<1> QED
  BY <1>1, <1>2, <1>5 DEF pkg_rescan

LEMMA FoundToAll ==
    ASSUME NEW d
    PROVE  FoundTo(d, Len(ManifestPaths)) = OfManifests(d)
<1>1. UpTo(d, Len(ManifestPaths)) = Readable(d)
  <2>1. Len(ManifestPaths) \in Nat
    BY TextAssumption
  <2> QED
    BY <2>1 DEF UpTo, Readable
<1>2. \A i, l : NamedLast(d, i, l) <=>
         \A h \in Readable(d) : h > i => l[2] \notin ModsIn(Text(d, h))
  BY DEF NamedLast, ModsIn
<1>3. \A e : e \in OfManifests(d) <=>
         \E j \in Readable(d) : \E l \in ModLines(Text(d, j)) :
            e = <<l[2], l[3], NameOf(Text(d, j))>> /\ NamedLast(d, j, l)
  BY DEF OfManifests
<1>4. \A e : e \in FoundTo(d, Len(ManifestPaths)) <=> e \in OfManifests(d)
  <2> TAKE e
  <2>1. e \in FoundTo(d, Len(ManifestPaths)) <=>
           \E j \in Readable(d) : \E l \in ModLines(Text(d, j)) :
              /\ e = <<l[2], l[3], NameOf(Text(d, j))>>
              /\ \A h \in Readable(d) : h > j => l[2] \notin ModsIn(Text(d, h))
    BY <1>1, FoundToIs
  <2> QED
    BY <1>2, <1>3, <2>1
<1> QED
  BY <1>4

\* The manifests can be told apart and fit, and the one in the kernel can be
\* used where they have no module.
ManifestsProper ==
    /\ ManifestsNameOne
    /\ DiskProper(disk)
    /\ Proper(Seed) /\ Cardinality(ModsIn(Seed)) <= ModMax
    /\ OfManifests(disk) = {} =>
         \A i \in Readable(disk) : NamesIn(Seed) \cap NamesIn(Text(disk, i)) = {}

LEMMA BootMakes ==
    ASSUME DiskOK(disk), ManifestsProper
    PROVE  Found(pkg_init(table, disk)) =
              IF OfManifests(disk) # {} THEN OfManifests(disk)
              ELSE {<<l[2], l[3], NameOf(Seed)>> : l \in ModLines(Seed)}
<1> DEFINE t == pkg_rescan(EmptyTables, disk)
           N == Len(ManifestPaths)
<1>1. Scanned(t, disk, N) /\ DiskProper(disk)
  BY RescanMakes DEF ManifestsProper
<1>2. Found(t) = OfManifests(disk) /\ TableOK(t)
  BY <1>1, FoundToAll DEF Scanned
<1>3. pkg_rescan(table, disk) = t
  BY DEF pkg_rescan
<1> HIDE DEF t, N
<1>4. (\E s \in ModSlots : t.mods[s].used) <=> OfManifests(disk) # {}
  <2>1. t.mods \in [ModSlots -> ModEntry]
    BY <1>2 DEF TableOK, Tables
  <2>2. (\E s \in ModSlots : t.mods[s].used) <=> \E e : e \in Found(t)
    BY <2>1, FoundIn
  <2> QED
    BY <1>2, <2>2
<1>5. pkg_init(table, disk) = IF \E s \in ModSlots : t.mods[s].used THEN t
                              ELSE pkg_parse_manifest_text(t, Seed, SeedPath)
  BY <1>3 DEF pkg_init
<1>6. CASE OfManifests(disk) # {}
  BY <1>2, <1>4, <1>5, <1>6
<1>7. CASE OfManifests(disk) = {}
  <2>1. Seed \in Seq(Lines) /\ Proper(Seed) /\ SeedPath \in Parts
    BY TextAssumption DEF ManifestsProper, Texts, Parts
  <2>2. RoomIn(t, ModsIn(Seed))
    BY <1>2, <1>7, <2>1, NamesFinite DEF RoomIn, ManifestsProper
  <2>3. \E r \in PkgSlots : ~ t.pkgs[r].used
    BY <1>1, ScannedFree
  <2>4. ASSUME NEW r \in PkgSlots, t.pkgs[r].used PROVE t.pkgs[r].name \notin NamesIn(Seed)
    <3>1. r \in UsedPkgs(t)
      BY <2>4 DEF UsedPkgs
    <3>2. PICK j \in UpTo(disk, N) : t.pkgs[r].name \in NamesIn(Text(disk, j))
      BY <1>1, <3>1 DEF Scanned
    <3>3. NamesIn(Seed) \cap NamesIn(Text(disk, j)) = {}
      BY <1>7, <3>2 DEF UpTo, ManifestsProper
    <3> QED
      BY <3>2, <3>3
  <2>5. ParsedInto(pkg_parse_manifest_text(t, Seed, SeedPath), t, Seed)
    BY <1>2, <2>1, <2>2, <2>3, <2>4, ParseMakes
  <2>6. Found(pkg_init(table, disk)) = Over({}, Seed)
    BY <1>2, <1>4, <1>5, <1>7, <2>5 DEF ParsedInto
  <2>7. Over({}, Seed) = {<<l[2], l[3], NameOf(Seed)>> : l \in ModLines(Seed)}
    BY DEF Over
  <2> QED
    BY <1>7, <2>6, <2>7
<1> QED
  BY <1>6, <1>7

(***************************************************************************)
(* A restart (pkg_init) finds the modules of the manifests on the disk,    *)
(* each with the package whose manifest names it last, and those of the    *)
(* manifest in the kernel if there are none: whatever was installed,       *)
(* removed, received or torn before, for tables and manifests of any size. *)
(* Two manifests of one name are excluded, for the second takes all        *)
(* modules of that name away, its own too (pkg_parse_manifest_text), and   *)
(* so is a module that stands before the name of its package.              *)
(***************************************************************************)
THEOREM BootRestoresHolds == Spec /\ []ManifestsProper => BootRestores
<1> DEFINE Restored ==
              Boot =>
                LET found == {<<m.name, m.path, m.pkg>> : m \in {n \in Range(table'.mods) : n.used}}
                IN  found = IF OfManifests(disk) # {} THEN OfManifests(disk)
                            ELSE {<<l[2], l[3], NameOf(Seed)>> : l \in ModLines(Seed)}
<1>1. PkgInv /\ ManifestsProper => [Restored]_vars
  <2> SUFFICES ASSUME PkgInv, ManifestsProper, Boot
      PROVE  Found(table') = IF OfManifests(disk) # {} THEN OfManifests(disk)
                             ELSE {<<l[2], l[3], NameOf(Seed)>> : l \in ModLines(Seed)}
    BY DEF Found
  <2>1. DiskOK(disk)
    BY DiskTyped DEF PkgInv, ManifestsProper
  <2>2. table' = pkg_init(table, disk)
    BY DEF Boot
  <2> QED
    BY <2>1, <2>2, BootMakes
<1>2. Init /\ ManifestsNameOne => PkgInv
  BY PkgInvInit
<1>3. PkgInv /\ ManifestsNameOne /\ [Next]_vars => PkgInv'
  BY PkgInvStep
<1>4. ManifestsProper => ManifestsNameOne
  BY DEF ManifestsProper
<1> HIDE DEF Restored
<1>5. Spec /\ []ManifestsProper => [][Restored]_vars
  BY <1>1, <1>2, <1>3, <1>4, PTL DEF Spec
<1>6. [][Restored]_vars => BootRestores
  BY PTL DEF BootRestores, Restored
<1> QED
  BY <1>5, <1>6, PTL

------------------------------------------------------------------------------
(***************************************************************************)
(* The echoes                                                              *)
(***************************************************************************)
\* How often w is among the first n of E.
Counted(E, n, w) == Cardinality({j \in 1 .. n : E[j] = w})

LEMMA CountNone == \A E, w : Counted(E, 0, w) = 0
  BY FS_EmptySet DEF Counted

LEMMA CountFinite ==
    ASSUME NEW E, NEW n \in Nat, NEW w
    PROVE  IsFiniteSet({j \in 1 .. n : E[j] = w}) /\ Counted(E, n, w) \in Nat
<1>1. IsFiniteSet(1 .. n)
  BY FS_Interval
<1>2. {j \in 1 .. n : E[j] = w} \subseteq 1 .. n
  OBVIOUS
<1>3. IsFiniteSet({j \in 1 .. n : E[j] = w})
  BY <1>1, <1>2, FS_Subset
<1> QED
  BY <1>3, FS_CardinalityType DEF Counted

LEMMA CountMore ==
    ASSUME NEW E, NEW n \in Nat, NEW w
    PROVE  Counted(E, n + 1, w) = Counted(E, n, w) + (IF E[n + 1] = w THEN 1 ELSE 0)
<1> DEFINE S == {j \in 1 .. n : E[j] = w}
           R == {j \in 1 .. (n + 1) : E[j] = w}
<1>1. IsFiniteSet(S) /\ Counted(E, n, w) = Cardinality(S) /\ Cardinality(S) \in Nat
  BY CountFinite DEF Counted
<1>2. Counted(E, n + 1, w) = Cardinality(R)
  BY DEF Counted
<1>3. CASE E[n + 1] = w
  <2>1. R = S \cup {n + 1} /\ n + 1 \notin S
    BY <1>3
  <2> HIDE DEF S, R
  <2>2. Cardinality(S \cup {n + 1}) = Cardinality(S) + 1
    BY <1>1, <2>1, FS_AddElement
  <2> QED
    BY <1>1, <1>2, <1>3, <2>1, <2>2
<1>4. CASE E[n + 1] # w
  <2>1. R = S
    BY <1>4
  <2> HIDE DEF S, R
  <2> QED
    BY <1>1, <1>2, <1>4, <2>1
<1> QED
  BY <1>3, <1>4

LEMMA CountSame ==
    ASSUME NEW E, NEW F, NEW n \in Nat, NEW w, \A j \in 1 .. n : E[j] = F[j]
    PROVE  Counted(E, n, w) = Counted(F, n, w)
<1>1. {j \in 1 .. n : E[j] = w} = {j \in 1 .. n : F[j] = w}
  OBVIOUS
<1> QED
  BY <1>1 DEF Counted

LEMMA CountTail ==
    ASSUME NEW A, NEW E \in Seq(A), E # <<>>, NEW n \in Nat, n < Len(E), NEW w
    PROVE  Counted(E, n + 1, w) = Counted(Tail(E), n, w) + (IF E[1] = w THEN 1 ELSE 0)
<1> DEFINE T == {i \in 0 .. n :
                   Counted(E, i + 1, w) = Counted(Tail(E), i, w) + (IF E[1] = w THEN 1 ELSE 0)}
<1>1. 0 \in T
  <2>1. Counted(E, 0 + 1, w) = Counted(E, 0, w) + (IF E[0 + 1] = w THEN 1 ELSE 0)
    BY CountMore
  <2>2. Counted(E, 0, w) = 0 /\ Counted(Tail(E), 0, w) = 0
    BY CountNone
  <2> QED
    BY <2>1, <2>2
<1>2. ASSUME NEW i \in 0 .. (n - 1), i \in T PROVE i + 1 \in T
  <2>1. PICK j \in Nat : j = i + 1 /\ j <= n /\ i \in Nat
    OBVIOUS
  <2>2. Counted(E, j + 1, w) = Counted(E, j, w) + (IF E[j + 1] = w THEN 1 ELSE 0)
    BY CountMore
  <2>3. Counted(Tail(E), i + 1, w) = Counted(Tail(E), i, w) + (IF Tail(E)[i + 1] = w THEN 1 ELSE 0)
    BY <2>1, CountMore
  <2>4. Tail(E)[j] = E[j + 1]
    BY <2>1
  <2>5. Counted(E, j, w) = Counted(Tail(E), i, w) + (IF E[1] = w THEN 1 ELSE 0)
    BY <1>2, <2>1
  <2>6. Counted(Tail(E), i, w) \in Nat
    BY <2>1, CountFinite
  <2>7. Counted(E, j + 1, w) = Counted(Tail(E), j, w) + (IF E[1] = w THEN 1 ELSE 0)
    BY <2>1, <2>2, <2>3, <2>4, <2>5, <2>6
  <2> QED
    BY <2>1, <2>7
<1>3. \A i \in 0 .. n : i \in T
  <2> HIDE DEF T
  <2> QED
    BY <1>1, <1>2, UpToInduction
<1> QED
  BY <1>3

\* E are the echoes that wait in r, in their order; p says where each one is.
Echoes(E, p, r) ==
    /\ E \in Seq(Spoken)
    /\ p \in [1 .. Len(E) -> 1 .. Len(r)]
    /\ \A i, j \in 1 .. Len(E) : i < j => p[i] < p[j]
    /\ \A i \in 1 .. Len(r) : r[i].echo <=> \E j \in 1 .. Len(E) : p[j] = i
    /\ \A j \in 1 .. Len(E) : r[p[j]].c = E[j]

HasEchoes(E, r) == \E p : Echoes(E, p, r)

LEMMA EchoesNone == HasEchoes(<<>>, <<>>)
<1> DEFINE p == [i \in {} |-> 1]
<1>1. Echoes(<<>>, p, <<>>)
  BY DEF Echoes
<1> QED
  BY <1>1 DEF HasEchoes

LEMMA EchoesHost ==
    ASSUME NEW r \in Seq(Bytes), NEW E, HasEchoes(E, r), NEW b \in Bytes, ~ b.echo
    PROVE  HasEchoes(E, Append(r, b))
<1>1. PICK p : Echoes(E, p, r)
  BY DEF HasEchoes
<1>2. /\ Len(Append(r, b)) = Len(r) + 1 /\ Len(r) \in Nat
      /\ \A i \in 1 .. Len(r) : Append(r, b)[i] = r[i]
      /\ Append(r, b)[Len(r) + 1] = b
  OBVIOUS
<1> DEFINE q == Append(r, b)
<1> HIDE DEF q
<1>3. Len(q) = Len(r) + 1 /\ (\A i \in 1 .. Len(r) : q[i] = r[i]) /\ q[Len(r) + 1] = b
  BY <1>2 DEF q
<1>4. E \in Seq(Spoken) /\ p \in [1 .. Len(E) -> 1 .. Len(q)]
  BY <1>1, <1>2, <1>3 DEF Echoes
<1>5. \A i \in 1 .. Len(q) : q[i].echo <=> \E j \in 1 .. Len(E) : p[j] = i
  <2> TAKE i \in 1 .. Len(q)
  <2>1. CASE i \in 1 .. Len(r)
    BY <1>1, <1>3, <2>1 DEF Echoes
  <2>2. CASE i = Len(r) + 1
    BY <1>1, <1>2, <1>3, <2>2 DEF Echoes
  <2> QED
    BY <1>2, <1>3, <2>1, <2>2
<1>6. \A j \in 1 .. Len(E) : q[p[j]].c = E[j]
  <2> TAKE j \in 1 .. Len(E)
  <2>1. p[j] \in 1 .. Len(r) /\ r[p[j]].c = E[j]
    BY <1>1 DEF Echoes
  <2> QED
    BY <1>3, <2>1
<1>7. \A i, j \in 1 .. Len(E) : i < j => p[i] < p[j]
  BY <1>1 DEF Echoes
<1>8. Echoes(E, p, q)
  BY <1>4, <1>5, <1>6, <1>7 DEF Echoes
<1> QED
  BY <1>8 DEF HasEchoes, q

LEMMA EchoesSaid ==
    ASSUME NEW r \in Seq(Bytes), NEW E, HasEchoes(E, r), NEW w \in Spoken
    PROVE  HasEchoes(Append(E, w), Append(r, Echo(w)))
<1>1. PICK p : Echoes(E, p, r)
  BY DEF HasEchoes
<1> DEFINE q == Append(r, Echo(w))
           F == Append(E, w)
           k == Len(E)
           n == Len(r)
           u == [j \in 1 .. (k + 1) |-> IF j = k + 1 THEN n + 1 ELSE p[j]]
<1>2. E \in Seq(Spoken) /\ k \in Nat /\ n \in Nat
  BY <1>1 DEF Echoes
<1>3. Len(q) = n + 1 /\ (\A i \in 1 .. n : q[i] = r[i]) /\ q[n + 1] = Echo(w)
  OBVIOUS
<1>4. F \in Seq(Spoken) /\ Len(F) = k + 1 /\ (\A i \in 1 .. k : F[i] = E[i]) /\ F[k + 1] = w
  BY <1>2
<1>5. /\ p \in [1 .. k -> 1 .. n]
      /\ \A i, j \in 1 .. k : i < j => p[i] < p[j]
      /\ \A i \in 1 .. n : r[i].echo <=> \E j \in 1 .. k : p[j] = i
      /\ \A j \in 1 .. k : r[p[j]].c = E[j]
  BY <1>1 DEF Echoes
<1>6. Echo(w).c = w /\ Echo(w).echo = TRUE
  BY DEF Echo
<1> HIDE DEF q, F, k, n
<1>7. u \in [1 .. Len(F) -> 1 .. Len(q)]
  BY <1>2, <1>3, <1>4, <1>5
<1>8. /\ u[k + 1] = n + 1
      /\ \A j \in 1 .. k : u[j] = p[j]
  BY <1>2
<1> HIDE DEF u
<1>9. \A i, j \in 1 .. Len(F) : i < j => u[i] < u[j]
  <2> TAKE i, j \in 1 .. Len(F)
  <2> HAVE i < j
  <2>1. i \in 1 .. k /\ u[i] = p[i] /\ p[i] \in 1 .. n
    BY <1>2, <1>4, <1>5, <1>8
  <2>2. CASE j \in 1 .. k
    BY <1>5, <1>8, <2>1, <2>2
  <2>3. CASE j = k + 1
    BY <1>2, <1>8, <2>1, <2>3
  <2> QED
    BY <1>2, <1>4, <2>2, <2>3
<1>10. \A i \in 1 .. Len(q) : q[i].echo <=> \E j \in 1 .. Len(F) : u[j] = i
  <2> TAKE i \in 1 .. Len(q)
  <2>1. CASE i \in 1 .. n
    <3>1. r[i].echo <=> \E j \in 1 .. k : u[j] = i
      BY <1>5, <1>8, <2>1
    <3>2. (\E j \in 1 .. k : u[j] = i) <=> \E j \in 1 .. (k + 1) : u[j] = i
      BY <1>2, <1>8, <2>1
    <3> QED
      BY <1>3, <1>4, <2>1, <3>1, <3>2
  <2>2. CASE i = n + 1
    <3>1. k + 1 \in 1 .. Len(F)
      BY <1>2, <1>4
    <3> QED
      BY <1>3, <1>6, <1>8, <2>2, <3>1
  <2> QED
    BY <1>2, <1>3, <2>1, <2>2
<1>11. \A j \in 1 .. Len(F) : q[u[j]].c = F[j]
  <2> TAKE j \in 1 .. Len(F)
  <2>1. CASE j \in 1 .. k
    BY <1>3, <1>4, <1>5, <1>8, <2>1
  <2>2. CASE j = k + 1
    BY <1>3, <1>4, <1>6, <1>8, <2>2
  <2> QED
    BY <1>2, <1>4, <2>1, <2>2
<1>12. Echoes(F, u, q)
  BY <1>4, <1>7, <1>9, <1>10, <1>11 DEF Echoes
<1> QED
  BY <1>12 DEF HasEchoes, F, q

\* A symbol of the host goes off the line.
LEMMA EchoesHeard ==
    ASSUME NEW r \in Seq(Bytes), r # <<>>, ~ r[1].echo, NEW E, HasEchoes(E, r)
    PROVE  HasEchoes(E, Tail(r))
<1>1. PICK p : Echoes(E, p, r)
  BY DEF HasEchoes
<1> DEFINE q == Tail(r)
           k == Len(E)
           n == Len(r)
           u == [j \in 1 .. k |-> p[j] - 1]
<1>2. /\ n \in Nat /\ k \in Nat /\ n > 0 /\ Len(q) = n - 1
      /\ \A i \in 1 .. (n - 1) : q[i] = r[i + 1]
  BY <1>1 DEF Echoes
<1>3. /\ p \in [1 .. k -> 1 .. n]
      /\ \A i, j \in 1 .. k : i < j => p[i] < p[j]
      /\ \A i \in 1 .. n : r[i].echo <=> \E j \in 1 .. k : p[j] = i
      /\ \A j \in 1 .. k : r[p[j]].c = E[j]
  BY <1>1 DEF Echoes
<1> HIDE DEF q, k, n
<1>4. \A j \in 1 .. k : p[j] \in 2 .. n
  <2> TAKE j \in 1 .. k
  <2>1. p[j] \in 1 .. n /\ r[p[j]].echo
    BY <1>3
  <2> QED
    BY <1>2, <2>1
<1>5. \A j \in 1 .. k : u[j] = p[j] - 1 /\ u[j] \in 1 .. (n - 1) /\ u[j] + 1 = p[j]
  BY <1>2, <1>4
<1>6. u \in [1 .. k -> 1 .. Len(q)]
  BY <1>2, <1>5
<1> HIDE DEF u
<1>7. \A i, j \in 1 .. k : i < j => u[i] < u[j]
  <2> TAKE i, j \in 1 .. k
  <2> HAVE i < j
  <2>1. p[i] < p[j] /\ p[i] \in 2 .. n /\ p[j] \in 2 .. n
    BY <1>3, <1>4
  <2> QED
    BY <1>2, <1>5, <2>1
<1>8. \A i \in 1 .. Len(q) : q[i].echo <=> \E j \in 1 .. k : u[j] = i
  <2> TAKE i \in 1 .. Len(q)
  <2>1. i + 1 \in 1 .. n /\ q[i] = r[i + 1] /\ i \in Nat
    BY <1>2
  <2>2. r[i + 1].echo <=> \E j \in 1 .. k : p[j] = i + 1
    BY <1>3, <2>1
  <2>3. \A j \in 1 .. k : p[j] = i + 1 <=> u[j] = i
    BY <1>2, <1>4, <1>5, <2>1
  <2> QED
    BY <2>1, <2>2, <2>3
<1>9. \A j \in 1 .. k : q[u[j]].c = E[j]
  <2> TAKE j \in 1 .. k
  <2>1. q[u[j]] = r[p[j]]
    BY <1>2, <1>5
  <2> QED
    BY <1>3, <2>1
<1>10. Echoes(E, u, q)
  BY <1>1, <1>6, <1>7, <1>8, <1>9 DEF Echoes, k
<1> QED
  BY <1>10 DEF HasEchoes, q

\* An echo goes off the line: it is the first of them.
LEMMA EchoesCame ==
    ASSUME NEW r \in Seq(Bytes), r # <<>>, r[1].echo, NEW E, HasEchoes(E, r)
    PROVE  E \in Seq(Spoken) /\ E # <<>> /\ E[1] = r[1].c /\ HasEchoes(Tail(E), Tail(r))
<1>1. PICK p : Echoes(E, p, r)
  BY DEF HasEchoes
<1> DEFINE q == Tail(r)
           F == Tail(E)
           k == Len(E)
           n == Len(r)
           u == [j \in 1 .. (k - 1) |-> p[j + 1] - 1]
<1>2. /\ n \in Nat /\ k \in Nat /\ n > 0 /\ Len(q) = n - 1 /\ E \in Seq(Spoken)
      /\ \A i \in 1 .. (n - 1) : q[i] = r[i + 1]
  BY <1>1 DEF Echoes
<1>3. /\ p \in [1 .. k -> 1 .. n]
      /\ \A i, j \in 1 .. k : i < j => p[i] < p[j]
      /\ \A i \in 1 .. n : r[i].echo <=> \E j \in 1 .. k : p[j] = i
      /\ \A j \in 1 .. k : r[p[j]].c = E[j]
  BY <1>1 DEF Echoes
<1>4. k > 0 /\ p[1] = 1 /\ E # <<>>
  <2>1. PICK j \in 1 .. k : p[j] = 1
    <3>1. 1 \in 1 .. n
      BY <1>2
    <3> QED
      BY <1>3, <3>1
  <2>2. 1 \in 1 .. k /\ p[1] \in 1 .. n
    BY <1>2, <1>3, <2>1
  <2>3. j = 1
    BY <1>2, <1>3, <2>1, <2>2
  <2> QED
    BY <1>2, <2>1, <2>2, <2>3
<1>5. F \in Seq(Spoken) /\ Len(F) = k - 1 /\ \A j \in 1 .. (k - 1) : F[j] = E[j + 1]
  BY <1>2, <1>4
<1> HIDE DEF q, F, k, n
<1>6. \A j \in 1 .. (k - 1) : j + 1 \in 1 .. k /\ p[j + 1] \in 2 .. n
  <2> TAKE j \in 1 .. (k - 1)
  <2>1. j + 1 \in 1 .. k /\ 1 \in 1 .. k /\ 1 < j + 1
    BY <1>2
  <2>2. p[j + 1] \in 1 .. n /\ p[1] < p[j + 1]
    BY <1>3, <2>1
  <2> QED
    BY <1>2, <1>4, <2>1, <2>2
<1>7. \A j \in 1 .. (k - 1) : u[j] = p[j + 1] - 1 /\ u[j] \in 1 .. (n - 1) /\ u[j] + 1 = p[j + 1]
  BY <1>2, <1>6
<1>8. u \in [1 .. Len(F) -> 1 .. Len(q)]
  BY <1>2, <1>5, <1>7
<1> HIDE DEF u
<1>9. \A i, j \in 1 .. (k - 1) : i < j => u[i] < u[j]
  <2> TAKE i, j \in 1 .. (k - 1)
  <2> HAVE i < j
  <2>1. i + 1 \in 1 .. k /\ j + 1 \in 1 .. k /\ i + 1 < j + 1
    BY <1>2
  <2>2. p[i + 1] < p[j + 1] /\ p[i + 1] \in 2 .. n /\ p[j + 1] \in 2 .. n
    BY <1>3, <1>6, <2>1
  <2> QED
    BY <1>2, <1>7, <2>2
<1>10. \A i \in 1 .. Len(q) : q[i].echo <=> \E j \in 1 .. (k - 1) : u[j] = i
  <2> TAKE i \in 1 .. Len(q)
  <2>1. i + 1 \in 1 .. n /\ q[i] = r[i + 1] /\ i \in Nat /\ i + 1 # 1
    BY <1>2
  <2>2. r[i + 1].echo <=> \E j \in 1 .. k : p[j] = i + 1
    BY <1>3, <2>1
  <2>3. ASSUME NEW j \in 1 .. k, p[j] = i + 1 PROVE \E m \in 1 .. (k - 1) : u[m] = i
    <3>1. j # 1
      BY <1>4, <2>1, <2>3
    <3>2. PICK m \in 1 .. (k - 1) : m + 1 = j
      <4>1. j - 1 \in 1 .. (k - 1) /\ (j - 1) + 1 = j
        BY <1>2, <3>1
      <4> QED
        BY <4>1
    <3>3. u[m] \in Nat /\ u[m] + 1 = p[m + 1]
      BY <1>7
    <3>4. p[m + 1] = i + 1
      BY <2>3, <3>2
    <3> QED
      BY <2>1, <3>3, <3>4
  <2>4. ASSUME NEW j \in 1 .. (k - 1), u[j] = i PROVE \E m \in 1 .. k : p[m] = i + 1
    BY <1>6, <1>7, <2>4
  <2> QED
    BY <2>1, <2>2, <2>3, <2>4
<1>11. \A j \in 1 .. (k - 1) : q[u[j]].c = F[j]
  <2> TAKE j \in 1 .. (k - 1)
  <2>1. q[u[j]] = r[p[j + 1]]
    BY <1>2, <1>7
  <2>2. r[p[j + 1]].c = E[j + 1]
    BY <1>3, <1>6
  <2> QED
    BY <1>5, <2>1, <2>2
<1>12. Echoes(F, u, q)
  BY <1>5, <1>8, <1>9, <1>10, <1>11 DEF Echoes
<1>13. E[1] = r[1].c
  <2>1. 1 \in 1 .. k
    BY <1>2, <1>4
  <2> QED
    BY <1>3, <1>4, <2>1
<1> QED
  BY <1>2, <1>4, <1>12, <1>13 DEF HasEchoes, F, q

\* The echoes on their way end with those the ring still has, and the ones
\* before are those for which a symbol of the host was taken.
PendingAre(E, r, t, s) ==
    /\ HasEchoes(E, r)
    /\ E \in Seq(Spoken) /\ t \in Seq(Spoken)
    /\ Len(t) <= Len(E)
    /\ \A i \in 1 .. Len(t) : t[i] = E[Len(E) - Len(t) + i]
    /\ s \in [Words -> Int]
    /\ \A w \in Words : s[w] = Counted(E, Len(E) - Len(t), w)

EchoInv ==
    loops => /\ host \in Seq(Words) /\ rx \in Seq(Bytes)
             /\ \E E : PendingAre(E, rx, tx, swapped)

LEMMA PendingNone == PendingAre(<<>>, <<>>, <<>>, [w \in Words |-> 0])
<1>1. <<>> \in Seq(Spoken) /\ Len(<<>>) = 0
  OBVIOUS
<1> QED
  BY <1>1, EchoesNone, CountNone DEF PendingAre

\* A symbol of the host comes in behind.
LEMMA PendingSent ==
    ASSUME NEW r \in Seq(Bytes), NEW E, NEW t, NEW s, PendingAre(E, r, t, s),
           NEW b \in Bytes, ~ b.echo
    PROVE  PendingAre(E, Append(r, b), t, s)
  BY EchoesHost DEF PendingAre

\* The kernel prints w, and the ring is not full.
LEMMA PendingSaid ==
    ASSUME NEW r \in Seq(Bytes), NEW E, NEW t, NEW s, PendingAre(E, r, t, s), NEW w \in Spoken
    PROVE  PendingAre(Append(E, w), Append(r, Echo(w)), Append(t, w), s)
<1> DEFINE F == Append(E, w)
           v == Append(t, w)
           k == Len(E)
           m == Len(t)
<1>1. /\ E \in Seq(Spoken) /\ t \in Seq(Spoken) /\ k \in Nat /\ m \in Nat /\ m <= k
      /\ \A i \in 1 .. m : t[i] = E[k - m + i]
  BY DEF PendingAre
<1>2. /\ F \in Seq(Spoken) /\ Len(F) = k + 1 /\ (\A i \in 1 .. k : F[i] = E[i]) /\ F[k + 1] = w
      /\ v \in Seq(Spoken) /\ Len(v) = m + 1 /\ (\A i \in 1 .. m : v[i] = t[i]) /\ v[m + 1] = w
  BY <1>1
<1>3. HasEchoes(F, Append(r, Echo(w)))
  BY EchoesSaid DEF PendingAre
<1>4. s \in [Words -> Int] /\ \A x \in Words : s[x] = Counted(E, k - m, x)
  BY DEF PendingAre
<1> HIDE DEF F, v, k, m
<1>5. \A i \in 1 .. (m + 1) : v[i] = F[(k + 1) - (m + 1) + i]
  <2> TAKE i \in 1 .. (m + 1)
  <2>1. CASE i \in 1 .. m
    <3>1. k - m + i \in 1 .. k /\ (k + 1) - (m + 1) + i = k - m + i
      BY <1>1, <2>1
    <3> QED
      BY <1>1, <1>2, <2>1, <3>1
  <2>2. CASE i = m + 1
    <3>1. (k + 1) - (m + 1) + i = k + 1
      BY <1>1, <2>2
    <3> QED
      BY <1>2, <2>2, <3>1
  <2> QED
    BY <1>1, <2>1, <2>2
<1>6. \A x \in Words : s[x] = Counted(F, (k + 1) - (m + 1), x)
  <2> TAKE x \in Words
  <2>1. PICK d \in Nat : d = k - m /\ d <= k
    BY <1>1
  <2>2. \A j \in 1 .. d : E[j] = F[j]
    BY <1>1, <1>2, <2>1
  <2>3. Counted(E, d, x) = Counted(F, d, x)
    BY <2>2, CountSame
  <2>4. (k + 1) - (m + 1) = d
    BY <1>1, <2>1
  <2> QED
    BY <1>4, <2>1, <2>3, <2>4
<1>7. PendingAre(F, Append(r, Echo(w)), v, s)
  <2>1. Len(v) <= Len(F)
    BY <1>1, <1>2
  <2>2. Len(F) = k + 1 /\ Len(v) = m + 1 /\ F \in Seq(Spoken) /\ v \in Seq(Spoken)
    BY <1>2
  <2> QED
    BY <1>3, <1>4, <1>5, <1>6, <2>1, <2>2 DEF PendingAre
<1> QED
  BY <1>7 DEF F, v

\* A symbol goes off the line, as serial_read_byte takes it.
Swapped(s, t, b) ==
    IF serial_read_byte(t, b).got = b.echo /\ b.c # NUL
    THEN [s EXCEPT ![b.c] = @ + (IF b.echo THEN -1 ELSE 1)]
    ELSE s

LEMMA PendingTaken ==
    ASSUME NUL \notin Spoken,
           NEW r \in Seq(Bytes), r # <<>>, NEW E, NEW t, NEW s, PendingAre(E, r, t, s)
    PROVE  \E F : PendingAre(F, Tail(r), serial_read_byte(t, Head(r)).tx, Swapped(s, t, Head(r)))
<1> DEFINE k == Len(E)
           m == Len(t)
<1>1. PICK b \in Bytes : b = Head(r) /\ b = r[1] /\ b.c \in Words /\ b.echo \in BOOLEAN
  <2>1. Head(r) \in Bytes /\ Head(r) = r[1]
    OBVIOUS
  <2>2. \A b \in Bytes : b.c \in Words /\ b.echo \in BOOLEAN
    BY DEF Bytes
  <2> QED
    BY <2>1, <2>2
<1>2. PICK q : q = Tail(r)
  OBVIOUS
<1>3. /\ E \in Seq(Spoken) /\ t \in Seq(Spoken) /\ k \in Nat /\ m \in Nat /\ m <= k
      /\ \A i \in 1 .. m : t[i] = E[k - m + i]
      /\ s \in [Words -> Int]
      /\ \A w \in Words : s[w] = Counted(E, k - m, w)
  BY DEF PendingAre
<1>4. ~ b.echo => HasEchoes(E, q)
  BY <1>1, <1>2, EchoesHeard DEF PendingAre
<1>5. b.echo => E # <<>> /\ E[1] = b.c /\ HasEchoes(Tail(E), q)
  BY <1>1, <1>2, EchoesCame DEF PendingAre
<1>6. E # <<>> => /\ Tail(E) \in Seq(Spoken) /\ Len(Tail(E)) = k - 1 /\ k > 0 /\ E[1] \in Spoken
                  /\ \A i \in 1 .. (k - 1) : Tail(E)[i] = E[i + 1]
  BY <1>3
<1>7. t # <<>> => /\ Tail(t) \in Seq(Spoken) /\ Len(Tail(t)) = m - 1 /\ m > 0 /\ Head(t) = t[1]
                  /\ \A i \in 1 .. (m - 1) : Tail(t)[i] = t[i + 1]
  BY <1>3
<1> DEFINE u == serial_read_byte(t, b).tx
           z == Swapped(s, t, b)
<1> SUFFICES \E F : PendingAre(F, q, u, z)
  BY <1>1, <1>2
<1> HIDE DEF k, m
<1>8. CASE b.c = NUL
  <2>1. u = t /\ z = s
    BY <1>8 DEF serial_read_byte, Swapped
  <2>2. ~ b.echo
    BY <1>5, <1>6, <1>8
  <2>3. PendingAre(E, q, t, s)
    BY <1>4, <2>2 DEF PendingAre
  <2> QED
    BY <2>1, <2>3
<1>9. CASE b.c # NUL /\ t # <<>> /\ t[1] = b.c
  <2>1. u = Tail(t)
    BY <1>7, <1>9 DEF serial_read_byte, ser_tx_consume_echo
  <2>2. serial_read_byte(t, b).got = FALSE
    BY <1>7, <1>9 DEF serial_read_byte, ser_tx_consume_echo
  <2>3. PICK d \in Nat : d = k - m /\ d + 1 <= k
    BY <1>3, <1>7, <1>9
  <2>4. E[d + 1] = b.c
    <3>1. 1 \in 1 .. m /\ k - m + 1 = d + 1
      BY <1>3, <1>7, <1>9, <2>3
    <3> QED
      BY <1>3, <1>9, <3>1
  <2>5. CASE ~ b.echo
    <3>1. z = [s EXCEPT ![b.c] = @ + (IF b.echo THEN -1 ELSE 1)]
      BY <1>1, <1>9, <2>2, <2>5 DEF Swapped
    <3> HIDE DEF z
    <3>2. z \in [Words -> Int] /\ \A w \in Words : z[w] = s[w] + (IF b.c = w THEN 1 ELSE 0)
      BY <1>1, <1>3, <2>5, <3>1
    <3>3. ASSUME NEW w \in Words PROVE z[w] = Counted(E, k - (m - 1), w)
      <4>1. Counted(E, d + 1, w) = Counted(E, d, w) + (IF E[d + 1] = w THEN 1 ELSE 0)
        BY CountMore
      <4>2. k - (m - 1) = d + 1 /\ s[w] = Counted(E, d, w)
        BY <1>3, <2>3
      <4> QED
        BY <2>4, <3>2, <4>1, <4>2
    <3>4. \A i \in 1 .. (m - 1) : Tail(t)[i] = E[k - (m - 1) + i]
      <4> TAKE i \in 1 .. (m - 1)
      <4>1. i + 1 \in 1 .. m /\ k - m + (i + 1) = k - (m - 1) + i
        BY <1>3
      <4> QED
        BY <1>3, <1>7, <1>9, <4>1
    <3>5. Tail(t) \in Seq(Spoken) /\ Len(Tail(t)) = m - 1 /\ m - 1 <= k
      BY <1>3, <1>7, <1>9
    <3>6. HasEchoes(E, q)
      BY <1>4, <2>5
    <3>7. PendingAre(E, q, Tail(t), z)
      BY <1>3, <3>2, <3>3, <3>4, <3>5, <3>6 DEF PendingAre, k
    <3> QED
      BY <2>1, <3>7
  <2>6. CASE b.echo
    <3>1. z = s
      BY <2>2, <2>6 DEF Swapped
    <3>2. E # <<>> /\ E[1] = b.c /\ HasEchoes(Tail(E), q)
      BY <1>5, <2>6
    <3>3. ASSUME NEW w \in Words PROVE s[w] = Counted(Tail(E), (k - 1) - (m - 1), w)
      <4>1. Counted(E, d + 1, w) = Counted(E, d, w) + (IF E[d + 1] = w THEN 1 ELSE 0)
        BY CountMore
      <4>2. Counted(E, d + 1, w) = Counted(Tail(E), d, w) + (IF E[1] = w THEN 1 ELSE 0)
        <5>1. d < Len(E)
          BY <1>3, <2>3 DEF k
        <5> QED
          BY <1>3, <3>2, <5>1, CountTail
      <4>3. Counted(E, d, w) \in Nat /\ Counted(Tail(E), d, w) \in Nat
        BY CountFinite
      <4>4. (k - 1) - (m - 1) = d /\ s[w] = Counted(E, d, w)
        BY <1>3, <2>3
      <4> QED
        BY <2>4, <3>2, <4>1, <4>2, <4>3, <4>4
    <3>4. \A i \in 1 .. (m - 1) : Tail(t)[i] = Tail(E)[(k - 1) - (m - 1) + i]
      <4> TAKE i \in 1 .. (m - 1)
      <4>1. i + 1 \in 1 .. m /\ (k - 1) - (m - 1) + i \in 1 .. (k - 1)
            /\ ((k - 1) - (m - 1) + i) + 1 = k - m + (i + 1)
        BY <1>3
      <4>2. Tail(E)[(k - 1) - (m - 1) + i] = E[((k - 1) - (m - 1) + i) + 1]
        BY <1>6, <3>2, <4>1
      <4>3. Tail(t)[i] = t[i + 1] /\ t[i + 1] = E[k - m + (i + 1)]
        BY <1>3, <1>7, <1>9, <4>1
      <4> QED
        BY <4>1, <4>2, <4>3
    <3>5. Tail(t) \in Seq(Spoken) /\ Len(Tail(t)) = m - 1 /\ m - 1 <= k - 1
      BY <1>3, <1>7, <1>9
    <3>6. Tail(E) \in Seq(Spoken) /\ Len(Tail(E)) = k - 1
      BY <1>6, <3>2
    <3>7. PendingAre(Tail(E), q, Tail(t), s)
      BY <1>3, <3>2, <3>3, <3>4, <3>5, <3>6 DEF PendingAre
    <3> QED
      BY <2>1, <3>1, <3>7
  <2> QED
    BY <2>5, <2>6
<1>10. CASE b.c # NUL /\ (t = <<>> \/ t[1] # b.c)
  <2>1. u = t /\ serial_read_byte(t, b).got = TRUE
    BY <1>7, <1>10 DEF serial_read_byte, ser_tx_consume_echo
  <2>2. CASE ~ b.echo
    <3>1. z = s
      BY <2>1, <2>2 DEF Swapped
    <3>2. PendingAre(E, q, t, s)
      BY <1>4, <2>2 DEF PendingAre
    <3> QED
      BY <2>1, <3>1, <3>2
  <2>3. CASE b.echo
    <3>1. z = [s EXCEPT ![b.c] = @ + (-1)]
      BY <1>10, <2>1, <2>3 DEF Swapped
    <3>2. z \in [Words -> Int] /\ \A w \in Words : z[w] = s[w] - (IF b.c = w THEN 1 ELSE 0)
      BY <1>1, <1>3, <3>1
    <3>3. E # <<>> /\ E[1] = b.c /\ HasEchoes(Tail(E), q)
      BY <1>5, <2>3
    <3>4. m < k
      <4>1. CASE t = <<>>
        <5>1. m = 0
          BY <4>1 DEF m
        <5> QED
          BY <1>6, <3>3, <5>1
      <4>2. CASE t # <<>> /\ m = k
        <5>1. 1 \in 1 .. m /\ k - m + 1 = 1
          BY <1>3, <1>7, <4>2
        <5>2. t[1] = E[1]
          BY <1>3, <5>1
        <5> QED
          BY <1>10, <3>3, <4>2, <5>2
      <4> QED
        BY <1>3, <4>1, <4>2
    <3>5. PICK d \in Nat : d + 1 = k - m /\ d < k
      <4>1. k - m - 1 \in Nat /\ (k - m - 1) + 1 = k - m /\ k - m - 1 < k
        BY <1>3, <3>4
      <4> QED
        BY <4>1
    <3>6. ASSUME NEW w \in Words PROVE z[w] = Counted(Tail(E), (k - 1) - m, w)
      <4>1. Counted(E, d + 1, w) = Counted(Tail(E), d, w) + (IF E[1] = w THEN 1 ELSE 0)
        BY <1>3, <3>3, <3>5, CountTail DEF k
      <4>2. Counted(Tail(E), d, w) \in Nat
        BY CountFinite
      <4>3. (k - 1) - m = d
        <5>1. k \in Nat /\ m \in Nat /\ d \in Nat /\ d + 1 = k - m
          BY <1>3, <3>5
        <5> QED
          BY <5>1
      <4>4. s[w] = Counted(E, d + 1, w)
        BY <1>3, <3>5
      <4> QED
        BY <3>2, <3>3, <4>1, <4>2, <4>3, <4>4
    <3>7. \A i \in 1 .. m : t[i] = Tail(E)[(k - 1) - m + i]
      <4> TAKE i \in 1 .. m
      <4>1. (k - 1) - m + i \in 1 .. (k - 1) /\ ((k - 1) - m + i) + 1 = k - m + i
        BY <1>3, <3>4
      <4>2. Tail(E)[(k - 1) - m + i] = E[((k - 1) - m + i) + 1]
        BY <1>6, <3>3, <4>1
      <4> QED
        BY <1>3, <4>1, <4>2
    <3>8. m <= k - 1 /\ Tail(E) \in Seq(Spoken) /\ Len(Tail(E)) = k - 1
      BY <1>3, <1>6, <3>3, <3>4
    <3> HIDE DEF z
    <3>9. PendingAre(Tail(E), q, t, z)
      BY <1>3, <3>2, <3>3, <3>6, <3>7, <3>8 DEF PendingAre, m
    <3> QED
      BY <2>1, <3>9
  <2> QED
    BY <1>1, <2>2, <2>3
<1> QED
  BY <1>8, <1>9, <1>10

\* The ring loses nothing: what is printed finds room in it.
RingHolds == loops /\ Len(tx) >= RingMax => ~ \E w \in Spoken : Say(w)

LEMMA EchoInvInit == Init => EchoInv
<1> SUFFICES ASSUME Init, loops PROVE EchoInv
  BY DEF EchoInv
<1>1. host = <<>> /\ rx = <<>> /\ tx = <<>> /\ swapped = [w \in Words |-> 0]
  BY DEF Init
<1> QED
  BY <1>1, PendingNone DEF EchoInv

\* What a step does to the line.
LEMMA LineSteps ==
    ASSUME [Next]_vars
    PROVE  /\ loops' = loops
           /\ \/ (host' = host \/ host' \in Frames) /\ UNCHANGED <<rx, tx, swapped>>
              \/ HostSends \/ TakeByte \/ Boot
              \/ host' = host /\ \E w \in Spoken : Say(w)
<1> DEFINE Concl == /\ loops' = loops
                    /\ \/ (host' = host \/ host' \in Frames) /\ UNCHANGED <<rx, tx, swapped>>
                       \/ HostSends \/ TakeByte \/ Boot
                       \/ host' = host /\ \E w \in Spoken : Say(w)
<1>1. CASE HostStarts
  BY <1>1 DEF HostStarts
<1>2. CASE HostSends
  BY <1>2 DEF HostSends
<1>3. ASSUME NEW at, Receive(at) PROVE Concl
  <2>1. CASE UNCHANGED port
    BY <2>1 DEF port
  <2>2. ASSUME NEW w \in Spoken, Say(w) PROVE Concl
    BY <2>2 DEF Say
  <2> QED
    BY <1>3, <2>1, <2>2 DEF Receive
<1>4. CASE PkgInstall \/ PkgRemove \/ PkgDataNone \/ PkgFinish \/ UNCHANGED vars
  BY <1>4 DEF PkgInstall, PkgRemove, PkgDataNone, PkgFinish, vars, port
<1>5. CASE Boot
  BY <1>5 DEF Boot
<1>6. CASE Typed \/ LineByte \/ PkgDataByte \/ FileDataByte
  BY <1>6 DEF Typed, LineByte, PkgDataByte, FileDataByte, TakeByte
<1>7. CASE LineTimeout
  BY <1>7 DEF LineTimeout
<1> QED
  BY <1>1, <1>2, <1>3, <1>4, <1>5, <1>6, <1>7
     DEF Next, Shell, Kernel, PkgRecv, PortalRecv, AiAsk

LEMMA EchoInvStep ==
    ASSUME NUL \notin Spoken, EchoInv, [Next]_vars, [RingHolds]_vars
    PROVE  EchoInv'
<1> SUFFICES ASSUME loops' PROVE EchoInv'
  BY DEF EchoInv
<1>1. loops' = loops /\ host \in Seq(Words) /\ rx \in Seq(Bytes)
  BY LineSteps DEF EchoInv
<1>2. PICK E : PendingAre(E, rx, tx, swapped)
  BY <1>1 DEF EchoInv
<1>3. CASE (host' = host \/ host' \in Frames) /\ UNCHANGED <<rx, tx, swapped>>
  <2>1. host' \in Seq(Words)
    BY <1>1, <1>3, TextAssumption
  <2> QED
    BY <1>1, <1>2, <1>3, <2>1 DEF EchoInv
<1>4. CASE HostSends
  <2>1. host # <<>> /\ rx' = Append(rx, FromHost(Head(host))) /\ host' = Tail(host)
        /\ UNCHANGED <<tx, swapped>>
    BY <1>4 DEF HostSends
  <2>2. Head(host) \in Words /\ Tail(host) \in Seq(Words)
    BY <1>1, <2>1
  <2>3. FromHost(Head(host)) \in Bytes /\ ~ FromHost(Head(host)).echo
    BY <2>2 DEF FromHost, Bytes
  <2>4. PendingAre(E, rx', tx', swapped')
    BY <1>1, <1>2, <2>1, <2>3, PendingSent
  <2>5. rx' \in Seq(Bytes) /\ host' \in Seq(Words)
    BY <1>1, <2>1, <2>2, <2>3
  <2> QED
    BY <2>4, <2>5 DEF EchoInv
<1>5. CASE TakeByte
  <2>1. rx # <<>> /\ rx' = Tail(rx) /\ tx' = serial_read_byte(tx, Head(rx)).tx
        /\ swapped' = Swapped(swapped, tx, Head(rx)) /\ host' = host
    BY <1>5 DEF TakeByte, Taken, Swapped
  <2>2. \E F : PendingAre(F, rx', tx', swapped')
    BY <1>1, <1>2, <2>1, PendingTaken
  <2>3. rx' \in Seq(Bytes)
    BY <1>1, <2>1
  <2> QED
    BY <1>1, <2>1, <2>2, <2>3 DEF EchoInv
<1>6. CASE Boot
  <2>1. rx' = <<>> /\ tx' = <<>> /\ swapped' = [w \in Words |-> 0] /\ host' = host
    BY <1>6 DEF Boot
  <2> QED
    BY <1>1, <2>1, PendingNone DEF EchoInv
<1>7. ASSUME host' = host, NEW w \in Spoken, Say(w) PROVE EchoInv'
  <2>1. tx' = ser_tx_record(tx, w) /\ rx' = Append(rx, Echo(w)) /\ swapped' = swapped
    BY <1>1, <1>7 DEF Say
  <2>2. tx \in Seq(Spoken) /\ RingMax \in Nat
    BY <1>2, RingAssumption DEF PendingAre
  <2>3. vars' # vars
    <3>1. rx' # rx
      <4>1. Len(rx') = Len(rx) + 1 /\ Len(rx) \in Nat
        BY <1>1, <2>1
      <4> QED
        BY <4>1
    <3> QED
      BY <3>1 DEF vars, port
  <2>4. Len(tx) < RingMax
    <3>1. RingHolds /\ loops
      BY <1>1, <2>3
    <3>2. ~ (Len(tx) >= RingMax)
      BY <1>7, <3>1 DEF RingHolds
    <3> QED
      BY <2>2, <3>2
  <2>5. tx' = Append(tx, w)
    BY <2>1, <2>2, <2>4 DEF ser_tx_record
  <2>6. PendingAre(Append(E, w), rx', tx', swapped')
    BY <1>1, <1>2, <2>1, <2>5, PendingSaid
  <2>7. rx' \in Seq(Bytes)
    <3>1. Echo(w) \in Bytes
      BY SpokenAreWords DEF Echo, Bytes
    <3> QED
      BY <1>1, <2>1, <3>1
  <2> QED
    BY <1>1, <1>7, <2>6, <2>7 DEF EchoInv
<1> QED
  BY <1>3, <1>4, <1>5, <1>6, <1>7, LineSteps

LEMMA EchoInvSafe == EchoInv => EchoCancels
<1> SUFFICES ASSUME EchoInv, loops, \A i \in 1 .. Len(rx) : ~ rx[i].echo
             PROVE  tx = <<>> /\ \A w \in Words : swapped[w] = 0
  BY DEF EchoCancels
<1>1. PICK E : PendingAre(E, rx, tx, swapped)
  BY DEF EchoInv
<1>2. PICK p : Echoes(E, p, rx)
  BY <1>1 DEF PendingAre, HasEchoes
<1>3. E \in Seq(Spoken) /\ tx \in Seq(Spoken) /\ Len(tx) <= Len(E)
  BY <1>1 DEF PendingAre
<1>4. Len(E) = 0
  <2>1. ASSUME Len(E) # 0 PROVE FALSE
    <3>1. 1 \in 1 .. Len(E)
      BY <1>3, <2>1
    <3>2. p[1] \in 1 .. Len(rx) /\ rx[p[1]].echo
      BY <1>2, <3>1 DEF Echoes
    <3> QED
      BY <3>2
  <2> QED
    BY <2>1
<1>5. tx = <<>> /\ Len(tx) = 0
  BY <1>3, <1>4
<1>6. \A w \in Words : swapped[w] = Counted(E, 0, w)
  BY <1>1, <1>4, <1>5 DEF PendingAre
<1> QED
  BY <1>5, <1>6, CountNone

(***************************************************************************)
(* On a terminal that loops, as long as the ring of SER_ECHO_RING bytes    *)
(* has room for what is printed, every echo is taken off the line once:    *)
(* when none is on its way the ring is empty, and for each symbol the host *)
(* lost to ser_tx_consume_echo an equal echo was read in its place.  NUL,  *)
(* which the driver throws away, is not printed.                           *)
(***************************************************************************)
THEOREM EchoCancelsHolds ==
    ASSUME NUL \notin Spoken
    PROVE  Spec /\ [][RingHolds]_vars => []EchoCancels
<1>1. Init => EchoInv
  BY EchoInvInit
<1>2. EchoInv /\ [Next]_vars /\ [RingHolds]_vars => EchoInv'
  BY EchoInvStep
<1>3. EchoInv => EchoCancels
  BY EchoInvSafe
<1> QED
  BY <1>1, <1>2, <1>3, PTL DEF Spec
==============================================================================
