------------------------------- MODULE PkgTable -------------------------------
(***************************************************************************)
(* The package manager's two tables (pkg.c): the installed packages and    *)
(* the GridBASIC modules they register.  A table is a function from its    *)
(* slots; what the code looks up it finds at the lowest slot that fits.    *)
(*                                                                         *)
(* A manifest is a sequence of lines: <<"name", n>>, <<"own", path>> for   *)
(* `file=', <<"mod", name, path>>.  Other lines change no table.           *)
(***************************************************************************)
EXTENDS Naturals, FiniteSets, Sequences, SequencesExt

CONSTANTS
    PkgMax, ModMax, FileMax,    \* PKG_MAX, PKG_MOD_MAX, PKG_FILE_MAX
    NoName                      \* the empty string

ASSUME TableAssumption == {PkgMax, ModMax, FileMax} \subseteq Nat \ {0}

PkgSlots == 1..PkgMax
ModSlots == 1..ModMax

FreePkg == [used |-> FALSE, name |-> NoName, manifest |-> NoName, files |-> {}]
FreeMod == [used |-> FALSE, name |-> NoName, path |-> NoName, pkg |-> NoName]

(* g_pkgs and g_mods, after pkg_rescan has emptied them.                   *)
EmptyTables == [pkgs |-> [s \in PkgSlots |-> FreePkg],
                mods |-> [s \in ModSlots |-> FreeMod]]

Lowest(S) == CHOOSE x \in S : \A y \in S : x <= y

Installed(t, n) == {s \in PkgSlots : t.pkgs[s].used /\ t.pkgs[s].name = n}
Registered(t, m) == {s \in ModSlots : t.mods[s].used /\ t.mods[s].name = m}

(* pkg_clear_mods_for                                                      *)
pkg_clear_mods_for(mods, n) ==
    [s \in ModSlots |-> IF mods[s].used /\ mods[s].pkg = n THEN FreeMod ELSE mods[s]]

pkg_add_mod_new(mods, n, m, path) ==
    LET free == {s \in ModSlots : ~mods[s].used}
    IN  IF free = {} THEN mods
        ELSE [mods EXCEPT ![Lowest(free)] =
                [used |-> TRUE, name |-> m, path |-> path, pkg |-> n]]

(* pkg_add_mod: a module that is registered passes to the package whose    *)
(* manifest names it now; a new one needs a free slot.                     *)
pkg_add_mod(mods, n, m, path) ==
    LET same == {s \in ModSlots : mods[s].used /\ mods[s].name = m}
        entry == [used |-> TRUE, name |-> m, path |-> path, pkg |-> n]
    IN  IF same # {} THEN [mods EXCEPT ![Lowest(same)] = entry]
        ELSE pkg_add_mod_new(mods, n, m, path)

(* pkg_add_file: a path is kept once, and what does not fit is left out.   *)
pkg_add_file(files, path) ==
    IF Cardinality(files) >= FileMax THEN files ELSE files \cup {path}

(* One line of a manifest, for the package at slot s.                      *)
pkg_parse_line(t, s, line) ==
    CASE line[1] = "name" -> [t EXCEPT !.pkgs[s].name = line[2]]
      [] line[1] = "own" ->
            [t EXCEPT !.pkgs[s].files = pkg_add_file(@, line[2])]
      [] line[1] = "mod" ->
            [t EXCEPT !.mods = pkg_add_mod(@, t.pkgs[s].name, line[2], line[3])]
      [] OTHER -> t

(* pkg_parse_manifest_text: modules are registered as their lines come,    *)
(* for the name read so far.  An older entry of the same name gives way,   *)
(* with every module registered for that name; a manifest without a name   *)
(* gives its slot back, and keeps the modules.                             *)
pkg_parse_manifest_text(t, text, path) ==
    LET free == {s \in PkgSlots : ~t.pkgs[s].used}
        s == Lowest(free)
        start == [t EXCEPT !.pkgs[s] =
                    [used |-> TRUE, name |-> NoName, manifest |-> path,
                     files |-> {path}]]
        read == FoldLeft(LAMBDA u, line : pkg_parse_line(u, s, line), start, text)
        name == read.pkgs[s].name
        old == Lowest(Installed(read, name))
    IN  IF free = {} THEN t
        ELSE IF name = NoName THEN [read EXCEPT !.pkgs[s] = FreePkg]
        ELSE IF old = s THEN read
        ELSE [pkgs |-> [read.pkgs EXCEPT ![old] = FreePkg],
              mods |-> pkg_clear_mods_for(read.mods, name)]

pkg_remove_keep(t, n) ==
    IF Installed(t, n) = {} THEN t
    ELSE [t EXCEPT !.pkgs[Lowest(Installed(t, n))] = FreePkg]

(* pkg_remove, as far as the tables go.                                    *)
pkg_remove(t, n) ==
    IF Installed(t, n) = {} THEN t
    ELSE [pkgs |-> [t.pkgs EXCEPT ![Lowest(Installed(t, n))] = FreePkg],
          mods |-> pkg_clear_mods_for(t.mods, n)]

(* The files that pkg_remove deletes.                                      *)
FilesOf(t, n) ==
    IF Installed(t, n) = {} THEN {}
    ELSE LET e == t.pkgs[Lowest(Installed(t, n))] IN e.files \cup {e.manifest}

(* pkg_find_module: the path a module is run from.                         *)
pkg_find_module(t, m) ==
    IF Registered(t, m) = {} THEN NoName
    ELSE t.mods[Lowest(Registered(t, m))].path
==============================================================================
