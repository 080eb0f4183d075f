-------------------------- MODULE MCRootDirectory ---------------------------
(***************************************************************************)
(* Instances of RootDirectory for TLC.  MCEntries is a directory of 2      *)
(* sectors with 2 entries each and names of 2 characters with an extension *)
(* of 1: slots 0 and 3 are two places for the same file name, which fills  *)
(* neither field, slot 0 for a file without data, which has no cluster,    *)
(* and slot 3 for one with data, which the host rewrites elsewhere also    *)
(* while it is open, in clusters that follow one another and in clusters   *)
(* that do not; slot 1 is a part of a long name that looks like it, slot 2 *)
(* another file.  A read of MCReadSize takes two clusters or, at the end,  *)
(* one, and begins anywhere in a cluster, so that it may cross into one    *)
(* that it does not load.                                                  *)
(*                                                                         *)
(* The other directories have one file each, for the configurations        *)
(* FileRead*.cfg, in which the properties fail.                            *)
(***************************************************************************)
EXTENDS RootDirectory

File(name, ext, attributes, listed, contents) ==
  [name |-> name, ext |-> ext, attributes |-> attributes, listed |-> listed,
   contents |-> contents]
Data(clusters, n) == [chain |-> clusters, size |-> n]

ls == <<"l", "s", ".", "x">>
MCEntries ==
  [k \in 0 .. 3 |->
     CASE k = 0 -> File(<<"S", " ">>, <<" ">>, 32, <<"s", ".">>, {})
       [] k = 1 -> File(<<"S", " ">>, <<" ">>, LONG_NAME, <<>>, {})
       [] k = 2 -> File(<<"L", "S">>, <<"X">>, 32, ls, {})
       [] k = 3 -> File(<<"S", " ">>, <<" ">>, 33, <<"s", ".">>,
                        {Data(<<2, 3, 4>>, 9), Data(<<6, 5>>, 6)})]

MCNames     == {<<"S", ".">>}
MCLowerCase == [L |-> "l", S |-> "s", X |-> "x"]
MCReadSize  == {5}

\* One file, in the second sector.
OneFile(contents) ==
  [k \in 0 .. 1 |-> IF k = 0 THEN File(<<"S", " ">>, <<" ">>, LONG_NAME, <<>>, {})
                    ELSE File(<<"S", " ">>, <<" ">>, 33, <<"s", ".">>, contents)]
MCInOnePiece  == OneFile({Data(<<2, 3, 4>>, 11), Data(<<5, 6>>, 8)})
MCInTwoPieces == OneFile({Data(<<2, 4>>, 8)})
MCName        == {<<"s", ".">>}
MCReadSizes   == {1, 3, 4, 16}
MCOneCluster  == {4}

=============================================================================
