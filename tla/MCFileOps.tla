----------------------------- MODULE MCFileOps ------------------------------
(***************************************************************************)
(* Instances of FileOps for TLC: the calls on two names, with data that is *)
(* and is not aligned.                                                     *)
(***************************************************************************)
EXTENDS FileOps

MCNames == {"p", "q"}
MCSizes == <<1, 512, 4096>>

\* Directories on a disk of 512 bytes a sector, and on a file system without direct I/O.
MCAccepted == [disk |-> {512, 4096}, ram |-> {}]

\* An empty file, an aligned one and one that is not; none holds the same byte twice.
MCContents == {<<>>, <<1, 2, 3>>, <<1, 2, 3, 4>>}

Reads  == [fn : {"readfile"}, path : {"p"}, direct : BOOLEAN]
Writes == [fn : {"writefile"}, path : {"p"}, direct : BOOLEAN,
           data : {<<<<6, 7, 8>>, <<9>>>>, <<<<6, 7, 8>>>>}]
Others == [fn : {"truncate"}, path : {"p"}, size : {2, 6}, excl : BOOLEAN]
          \cup [fn : {"touch"}, path : {"p"}, flags : {{}, {"trunc"}}]
          \cup [fn : {"fsyncPath", "unlink"}, path : {"p"}]
          \cup [fn : {"rename", "link"}, path : {"q"}, newpath : {"p"}]
          \cup [fn : {"rename"}, path : {"p"}, newpath : {"q"}]
          \cup [fn : {"probe_block_size"}, dir : DOMAIN MCAccepted]

MCCalls == Reads \cup Writes \cup Others
=============================================================================
