------------------------------- MODULE MCParts -------------------------------
(***************************************************************************)
(* What shares nothing with the rest, in one run: the parts that keep      *)
(* state, the functions without state, input by input, and one job of      *)
(* parallel_blocks_multi.  A behaviour is one of one part, chosen at its   *)
(* start.                                                                  *)
(***************************************************************************)
EXTENDS MCServices, Strings, JSON, Encodings, Numbers, Files, Images

CONSTANT Parts             \* the parts that the run covers

VARIABLES part, current, mainPc, spawned, pc, z, blockEnd, threadRets, called, hits, found

Job == INSTANCE ParallelJob WITH
  result <- found, Mode <- "multi", Start <- 2, End <- 6, BlockSize <- 2, NumThreads <- 2,
  Modulus <- 16, Progress <- "default"

jobVars == <<current, found, mainPc, spawned, pc, z, blockEnd, threadRets, called, hits>>

Lone == <<<<"a">>, <<"-", "a", "1">>>>

\* Only the part that was chosen has more than one start.
PartsInit ==
  /\ part \in Parts
  /\ Reading!ReaderInit /\ Bits!BitInit /\ Writing!WritersInit
  /\ PidInit /\ Files!FdInit /\ Random!RandomInit /\ Log!LogInit
  /\ SocketInit /\ (part # "net" => path = "nothing" /\ sock.op = "listen" /\ sock.port = 0 /\ sock.backlog = 0 /\ sock.nonblocking)
  /\ Args!ArgInit /\ (part # "args" => args = Lone)
  /\ Start /\ Job!Init

Kinds == TextKinds \cup JSONKinds \cup CodecKinds \cup NumberKinds \cup FileKinds \cup ImageKinds

FunctionNext ==
  \/ \E kind \in Kinds : Pick(kind)
  \/ TextInput
  \/ JSONInput
  \/ CodecInput
  \/ NumberInput
  \/ FileInput
  \/ ImageInput

PartsNext ==
  \/ /\ part = "readers" /\ Reading!ReaderNext
     /\ UNCHANGED <<part, bitVars, writerVars, pidVars, fdVars, socketVars, randomVars, logVars, argVars, input, jobVars>>
  \/ /\ part = "bits" /\ Bits!BitNext
     /\ UNCHANGED <<part, readerVars, writerVars, pidVars, fdVars, socketVars, randomVars, logVars, argVars, input, jobVars>>
  \/ /\ part = "writers" /\ Writing!WritersNext
     /\ UNCHANGED <<part, readerVars, bitVars, pidVars, fdVars, socketVars, randomVars, logVars, argVars, input, jobVars>>
  \/ /\ part = "pid" /\ PidNext
     /\ UNCHANGED <<part, readerVars, bitVars, writerVars, fdVars, socketVars, randomVars, logVars, argVars, input, jobVars>>
  \/ /\ part = "files" /\ Files!FdNext
     /\ UNCHANGED <<part, readerVars, bitVars, writerVars, pidVars, socketVars, randomVars, logVars, argVars, input, jobVars>>
  \/ /\ part = "net" /\ SocketNext
     /\ UNCHANGED <<part, readerVars, bitVars, writerVars, pidVars, fdVars, randomVars, logVars, argVars, input, jobVars>>
  \/ /\ part = "random" /\ Random!RandomNext
     /\ UNCHANGED <<part, readerVars, bitVars, writerVars, pidVars, fdVars, socketVars, logVars, argVars, input, jobVars>>
  \/ /\ part = "log" /\ Log!LogNext
     /\ UNCHANGED <<part, readerVars, bitVars, writerVars, pidVars, fdVars, socketVars, randomVars, argVars, input, jobVars>>
  \/ /\ part = "args" /\ Args!ArgNext
     /\ UNCHANGED <<part, readerVars, bitVars, writerVars, pidVars, fdVars, socketVars, randomVars, logVars, input, jobVars>>
  \/ /\ part = "functions" /\ FunctionNext
     /\ UNCHANGED <<part, readerVars, bitVars, writerVars, pidVars, fdVars, socketVars, randomVars, logVars, argVars, jobVars>>
  \/ /\ part = "job" /\ Job!Next
     /\ UNCHANGED <<part, readerVars, bitVars, writerVars, pidVars, fdVars, socketVars, randomVars, logVars, argVars, input>>
-----------------------------------------------------------------------------
\* The constants that a .cfg cannot spell.
MCData == <<13, 10, 0>>
MCWords == {<<1>>, <<2, 3>>}
MCLevels == {-1, 0, 4}
MCNames == {<<"n">>, <<"a">>, <<"1">>}

Values == UNION {[1..k -> {"1", "9", "-"}] : k \in 0..3} \cup {<<"6", "3">>, <<"6", "4">>}
N(text) == <<"-", "-", "n", "=">> \o text
MCLines ==
  {Lone} \cup {<<arg, <<"-", "a", "1">>>> : arg \in {<<"-">>, <<"-", "-">>, N(<<"1", "=">>)}}
    \cup {<<<<"-">>, <<"-", "-", "=">>>>}
    \cup {<<N(text)>> \o rest : text \in Values, rest \in {<<>>, <<<<"-", "-", "n">>>>, <<N(<<"5">>)>>}}

\* The two files a data string may name.
MCFileData == (<<>> :> <<>>) @@ (<<"a">> :> <<1, 2>>)

\* No coordinate of an image.
MCNan == -1000
-----------------------------------------------------------------------------
(* parallel_blocks_multi hands out only values of the range, also where it does not start at 0; the *)
(* division of its default progress report can fail only before a worker has taken a block.         *)
JobStaysInRange == Job!OnlyRangeCalled /\ Job!ReportsOnceUnderWay

(* parallel_blocks_multi returns the values for which the callback answered true, of all threads,   *)
(* after one call for each value of the range.                                                      *)
JobFindsAll == Job!ImplementsFind
=============================================================================
