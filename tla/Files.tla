-------------------------------- MODULE Files ---------------------------------
(*************************************************************************)
(* Paths and whole-file reads (Filesystem.cc, Filesystem-Unix.cc),       *)
(* network locations (Network.cc), the process search (Process.cc), the  *)
(* expectations of UnitTest.hh, and what they promise. A file is a       *)
(* sequence of characters; what a descriptor gives, read by read, is a   *)
(* sequence of chunks, the empty one for its end.                        *)
(*************************************************************************)
EXTENDS LibraryInput

CONSTANTS
  ReadSize,               \* what read_all asks for at a time: 16384 in the code
  LineBlock               \* the block of fgets: 256 in the code

\* --- paths ------------------------------------------------------------------

LastSlash(filename) == Max({0} \cup {i \in DOMAIN filename : filename[i] = "/"})

basename(filename) == SubSeq(filename, LastSlash(filename) + 1, Len(filename))
dirname(filename) == SubSeq(filename, 1, LastSlash(filename) - 1)

\* --- read_all ---------------------------------------------------------------

\* Mutant: a full chunk is the last one, too.
ReadAllOnce(st, chunk) ==
  IF st.done THEN st ELSE [data |-> st.data \o chunk, done |-> Len(chunk) <= ReadSize]

\* The reads go on until one is shorter than ReadSize.
ReadAll(st, chunk) ==
  IF st.done THEN st ELSE [data |-> st.data \o chunk, done |-> Len(chunk) < ReadSize]

read_all_fd(chunks) == FoldLeft(ReadAll, [data |-> <<>>, done |-> FALSE], chunks).data

\* fread asks again by itself, so that its short read is the end.
FreadChunks(file) ==
  [i \in 1..((Len(file) \div ReadSize) + 1) |->
     SubSeq(file, (i - 1) * ReadSize + 1, Min({i * ReadSize, Len(file)}))]

read_all(file) == FoldLeft(ReadAll, [data |-> <<>>, done |-> FALSE], FreadChunks(file)).data

\* fread, freadx and fwritex move size bytes or as many as there are; the x forms then throw.
fread(file, at, size) == SubSeq(file, at, Min({at + size - 1, Len(file)}))
freadx(file, at, size) == IF Len(fread(file, at, size)) = size THEN Returns(fread(file, at, size)) ELSE Thrown

load_file(file) == freadx(file, 1, Len(file))

\* --- fgets -------------------------------------------------------------------

\* What the C function reads at once: up to the newline, or LineBlock - 1 characters.
LineEnd(file, at) ==
  Min({at + LineBlock - 2, Len(file)} \cup {i \in at..Len(file) : file[i] = "\n"})

\* strlen of what was read, always less than the block, so that the loop never reads a second block: a
\* longer line is cut, and what follows a zero in it is lost.
fgets(file, at) ==
  LET read == SubSeq(file, at, LineEnd(file, at))
      zeroes == {i \in DOMAIN read : read[i] = "NUL"}
  IN  [line |-> IF zeroes = {} THEN read ELSE SubSeq(read, 1, Min(zeroes) - 1), next |-> LineEnd(file, at) + 1]

\* A program that calls fgets until the end of the file
FileLines(file) ==
  LET RECURSIVE From(_)
      From(at) == IF at > Len(file) THEN <<>> ELSE <<fgets(file, at).line>> \o From(fgets(file, at).next)
  IN  From(1)

\* --- network locations (Network.cc) --------------------------------------------

PortText(n) == Txt(ToString(n))

render_netloc(addr, port) ==
  IF port = 0 THEN (IF addr = <<>> THEN Txt("<unknown>") ELSE addr)
  ELSE IF addr = <<>> THEN PortText(port) ELSE addr \o <<":">> \o PortText(port)

\* stod reads the digits there are at the front (here the rest has no point, exponent or sign), and
\* throws when there are none.
stod(text) ==
  LET n == Max({i \in 0..Len(text) : \A k \in 1..i : text[k] \in Digits})
  IN  IF n = 0 THEN Thrown ELSE Returns(FoldLeft(LAMBDA v, d : 10 * v + (Ord[d] - 48), 0, SubSeq(text, 1, n)))

\* A port of 65536 or more does not fit the uint16_t: the conversion from a double is undefined.
parse_netloc(netloc, default_port) ==
  LET colons == {i \in DOMAIN netloc : netloc[i] = ":"}
      port == stod(SubSeq(netloc, Min(colons) + 1, Len(netloc)))
  IN  IF colons = {} THEN Returns([addr |-> netloc, ports |-> {default_port}])
      ELSE IF ~port.ok THEN Thrown
      ELSE Returns([addr |-> SubSeq(netloc, 1, Min(colons) - 1),
                    ports |-> IF port.val < 65536 THEN {port.val} ELSE 0..65535])

-----------------------------------------------------------------------------
(***************************************************************************)
(* list_processes and pid_for_name (Process.cc).  A line of ps is a pid    *)
(* and a name; whether a name holds the one that is looked for, in lower   *)
(* case, is all that counts of it.                                         *)
(***************************************************************************)

\* unordered_map::emplace keeps the first name of a pid, and an empty name is left out.
list_processes(lines) ==
  FoldLeft(LAMBDA ret, line :
             IF line.name = "" \/ \E i \in DOMAIN ret : ret[i].pid = line.pid THEN ret ELSE Append(ret, line),
           <<>>, lines)

\* One turn of the loop: what is compared with self_pid is the pid found so far, not the candidate's.
PidStep(st, process, name, self_pid) ==
  IF st.outcome = "multiple" \/ process.name # name \/ st.pid = self_pid THEN st
  ELSE IF st.pid # 0 THEN [st EXCEPT !.outcome = "multiple"]
  ELSE [st EXCEPT !.pid = process.pid]

\* order is the order in which the map's iterator happens to give the processes.
pid_for_name(order, name, exclude_self, own_pid) ==
  LET self_pid == IF exclude_self THEN own_pid ELSE 0
      end == FoldLeft(LAMBDA st, process : PidStep(st, process, name, self_pid), [pid |-> 0, outcome |-> "found"], order)
  IN  IF end.outcome = "found" /\ end.pid = 0 THEN [end EXCEPT !.outcome = "none"] ELSE end

-----------------------------------------------------------------------------
(***************************************************************************)
(* expect_raises (UnitTest.hh, UnitTest.cc): which outcomes of the tested  *)
(* function pass.  An outcome is the class that is thrown, or "returns".   *)
(***************************************************************************)

\* The classes that a catch clause for a class takes; int stands for what is no std::exception.
Parent ==
  [exception |-> "exception", logic_error |-> "exception", runtime_error |-> "exception",
   invalid_argument |-> "logic_error", expectation_failed |-> "logic_error", int |-> "int"]

IsA(class, base) == base \in {class, Parent[class], Parent[Parent[class]]}

\* expect_generic throws expectation_failed, here inside the try block.
Raised(outcome) == IF outcome = "returns" THEN "expectation_failed" ELSE outcome

\* "passes", or the class that the test dies of: the clauses are tried in order, and the report of a wrong
\* type is thrown outside the try block.
expect_raises_fn(class, outcome) ==
  IF IsA(Raised(outcome), class) THEN "passes" ELSE "expectation_failed"

\* The specialization for std::exception has the same clauses, but for the one in the middle.
expect_raises_exception(outcome) ==
  IF IsA(Raised(outcome), "exception") THEN "passes" ELSE "expectation_failed"

-----------------------------------------------------------------------------
(***************************************************************************)
(* What whole-file reads, network locations, the search for a process and  *)
(* the test helpers promise.                                               *)
(***************************************************************************)

FileKinds == {"file", "netloc", "pids", "raises"}

FileInput ==
  \/ /\ Picked("file")
     /\ \E s \in Texts({"a", "/", "\n", "NUL"}, 5), cuts \in {<<>>, <<2>>, <<2, 1>>, <<1, 2>>} : input' = [kind |-> "file", s |-> s, cuts |-> cuts]
  \/ /\ Picked("netloc")
     /\ \E s \in Texts({"a", ":", "1", "7"}, 3), port \in {0, 1, 80, 65535, 65536} : input' = [kind |-> "netloc", s |-> s, port |-> port]
  \/ /\ Picked("pids")
     /\ \E lines \in Texts([pid : 1..3, name : {"", "x", "y"}], 3), exclude_self \in BOOLEAN :
          input' = [kind |-> "pids", lines |-> lines, exclude_self |-> exclude_self]
  \/ /\ Picked("raises")
     /\ \E class \in DOMAIN Parent, outcome \in DOMAIN Parent \cup {"returns"} : input' = [kind |-> "raises", class |-> class, outcome |-> outcome]
-----------------------------------------------------------------------------
\* What ::read gives of s when its first reads are cut short.
Chunks(s, cuts) ==
  LET RECURSIVE From(_, _)
      From(at, k) ==
        LET n == IF k > Len(cuts) THEN ReadSize ELSE cuts[k]
        IN  IF at > Len(s) THEN <<<<>>>> ELSE <<SubSeq(s, at, Min({Len(s), at + n - 1}))>> \o From(at + n, k + 1)
  IN  From(1, 1)

\* The lines of a file, with their newlines
LinesOf(s) ==
  LET ends == {i \in DOMAIN s : s[i] = "\n"} \cup {Len(s)}
      LineTo(e) == SubSeq(s, Max({0} \cup {i \in ends : i < e}) + 1, e)
  IN  IF s = <<>> THEN <<>> ELSE LET order == SetToSortSeq(ends, LAMBDA x, y : x < y) IN [i \in DOMAIN order |-> LineTo(order[i])]

(* A file without zeroes is read whole, by read_all, by load_file and call by call of fgets, whatever *)
(* its length is to the block; fgets gives its lines, when each fits the block with the zero that the *)
(* C function puts behind it.  What read_all has of a descriptor begins the file and, if no read but  *)
(* the last was short, ends it.                                                                       *)
FilesAreReadWhole ==
  input.kind = "file" =>
    LET s == input.s
        chunks == Chunks(s, input.cuts)
    IN  /\ read_all(s) = s /\ load_file(s) = Returns(s)
        /\ IsPrefix(read_all_fd(chunks), s)
        /\ (\A i \in 1..(Len(chunks) - 1) : Len(chunks[i]) = ReadSize) => read_all_fd(chunks) = s
        /\ Occurrences(s, "NUL") = 0 =>
             /\ FlattenSeq(FileLines(s)) = s
             /\ (\A i \in DOMAIN LinesOf(s) : Len(LinesOf(s)[i]) < LineBlock) => FileLines(s) = LinesOf(s)
        /\ s = dirname(s) \o (IF Occurrences(s, "/") > 0 THEN <<"/">> ELSE <<>>) \o basename(s)

(* A location is read as it was written when the address has no colon and the port fits 16 bits; of  *)
(* an address with a colon, such as one of IPv6, nothing is claimed.                                 *)
LocationsAreReadBack ==
  input.kind = "netloc" /\ input.s # <<>> /\ Occurrences(input.s, ":") = 0 =>
    LET r == parse_netloc(render_netloc(input.s, input.port), input.port)
    IN  r.ok /\ r.val.addr = input.s /\ (input.port < 65536 => r.val.ports = {input.port})

(* In whatever order the processes come, what pid_for_name answers with is a process of that name;   *)
(* asked to leave out the own process, which has another name, it finds the one that there is, none  *)
(* when there is none, and reports more than one.  Nothing is claimed when the own process has the   *)
(* name, or is not to be left out.                                                                   *)
SearchIsUnambiguous ==
  input.kind = "pids" =>
    LET order == list_processes(input.lines)
        own == 2
        r == pid_for_name(order, "x", input.exclude_self, own)
        hits == {order[i].pid : i \in {k \in DOMAIN order : order[k].name = "x"}}
    IN  /\ r.outcome = "found" => r.pid \in hits
        /\ input.exclude_self /\ own \notin hits =>
             r.outcome = (CASE hits = {} -> "none" [] Cardinality(hits) = 1 -> "found" [] OTHER -> "multiple")

(* expect_raises passes for the class that is asked for and those derived from it, fails for the     *)
(* others, and fails when nothing is raised, unless the class is one that takes the test's own       *)
(* report for the exception (of those three nothing is claimed).                                     *)
RaisesWhatIsExpected ==
  input.kind = "raises" /\ ~(input.outcome = "returns" /\ IsA("expectation_failed", input.class)) =>
    /\ expect_raises_fn(input.class, input.outcome) = "passes"
         <=> input.outcome # "returns" /\ IsA(input.outcome, input.class)
    /\ input.class = "exception" => expect_raises_exception(input.outcome) = expect_raises_fn("exception", input.outcome)

\* Files are read whole however they arrive, addresses are read back, a process is
\* found only when it is the only one, and a test helper passes only what was raised
\* (Filesystem-Unix.cc, Network.cc, Process.cc, UnitTest.hh).
FilesCorrect ==
  input.kind \in FileKinds =>
    FilesAreReadWhole /\ LocationsAreReadBack /\ SearchIsUnambiguous /\ RaisesWhatIsExpected
=============================================================================
