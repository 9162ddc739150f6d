----------------------------- MODULE MCGfsVolume -----------------------------
(***************************************************************************)
(* The instance of GfsVolume for TLC: three inodes, the first never used,  *)
(* its two data sectors inside the table of inodes; files of one and of    *)
(* two sectors, and one that is too long.                                  *)
(***************************************************************************)
EXTENDS GfsVolume

CONSTANTS motd, hostsFile, a, b

MCMachines == {{}, {"ide"}, {"virtio", "ide"}}
MCPaths == {motd, hostsFile}
MCLba == 0..7
MCContents == {<<a>>, <<b, a>>, <<b, b, b>>}
MCSector == {Blank, SuperMark, a, b} \cup [path : MCPaths, size : 1..2]
MCDefaults == << [path |-> hostsFile, data |-> <<a>>] >>
==============================================================================
