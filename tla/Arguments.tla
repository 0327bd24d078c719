------------------------------ MODULE Arguments ------------------------------
(***************************************************************************)
(* Arguments (Arguments.cc, Arguments.hh): the parsed arguments, which of  *)
(* them the program has used, and assert_none_unused.  A text is a         *)
(* sequence of one-character strings.  strtoull's number is modulo         *)
(* LongLimit; the program's integers have IntLimit values.                 *)
(***************************************************************************)
EXTENDS Integers, Sequences, FiniteSets

CONSTANTS
  Lines,                  \* the argument vectors the program is started with
  Names,                  \* the names it asks for
  LongLimit, IntLimit     \* 2^64, and 2^8 to 2^64, in the code

VARIABLES
  args,                   \* what the program was started with
  positional,             \* each argument: [text, used]
  named,                  \* [name -> sequence of [text, used]]
  result,                 \* the last call: [op, outcome, text, signed, number]
  given                   \* the arguments the program has asked for and been answered, each as its place

argVars == <<args, positional, named, result, given>>

\* --- parsing ------------------------------------------------------------------

Arg(text) == [text |-> text, used |-> FALSE]
Positional(st, arg) == [st EXCEPT !.positional = Append(@, Arg(arg))]
Named(st, name, text) ==
  [st EXCEPT !.named = [n \in DOMAIN @ \cup {name} |->
     (IF n \in DOMAIN @ THEN @[n] ELSE <<>>) \o (IF n = name THEN <<Arg(text)>> ELSE <<>>)]]

\* -abc: each character is the name of a flag.
Group(st, arg) ==
  LET after[z \in 0..(Len(arg) - 1)] == IF z = 0 THEN st ELSE Named(after[z - 1], <<arg[z + 1]>>, <<>>)
  IN  after[Len(arg) - 1]

First(places) == CHOOSE i \in places : \A j \in places : i <= j

\* --name, --name=value, -abc, and what else: a lone - or -- is positional.
ParseArg(st, arg) ==
  LET equals == {i \in 3..Len(arg) : arg[i] = "="}
  IN  IF Len(arg) < 2 \/ arg[1] # "-" \/ arg = <<"-", "-">> THEN Positional(st, arg)
      ELSE IF arg[2] # "-" THEN Group(st, arg)
      ELSE IF equals = {} THEN Named(st, SubSeq(arg, 3, Len(arg)), <<>>)
      ELSE Named(st, SubSeq(arg, 3, First(equals) - 1), SubSeq(arg, First(equals) + 1, Len(arg)))

Empty == [positional |-> <<>>, named |-> [n \in {} |-> <<>>]]

parse(line) ==
  LET after[i \in 0..Len(line)] == IF i = 0 THEN Empty ELSE ParseArg(after[i - 1], line[i])
  IN  after[Len(line)]

\* --- numbers ------------------------------------------------------------------

Digits == [d \in {"0", "1", "2", "3", "4", "5", "6", "7", "8", "9"} |->
             (CHOOSE i \in 1..10 : <<"0", "1", "2", "3", "4", "5", "6", "7", "8", "9">>[i] = d) - 1]

Magnitude(text) ==
  LET n[i \in 0..Len(text)] == IF i = 0 THEN 0 ELSE 10 * n[i - 1] + Digits[text[i]]
  IN  n[Len(text)]

\* strtoull in base ten of a text with nothing else in it: too large a number is the largest one, and a
\* minus sign is taken modulo LongLimit.
strtoull(text) ==
  LET minus == text[1] = "-"
      n == Magnitude(IF minus THEN Tail(text) ELSE text)
  IN  IF n >= LongLimit THEN LongLimit - 1 ELSE IF minus THEN (-n) % LongLimit ELSE n

IsNumber(text) ==
  LET digits == IF text # <<>> /\ text[1] = "-" THEN Tail(text) ELSE text
  IN  digits # <<>> /\ \A i \in 1..Len(digits) : digits[i] \in DOMAIN Digits

\* No digits, something behind them, or bits that the type does not have, are an error.  The signed
\* types want all the bits from the sign on to be equal.
parse_int(text, signed) ==
  LET uv == strtoull(text)
      high == uv \div (IntLimit \div 2)
  IN  IF ~IsNumber(text) THEN [ok |-> FALSE, val |-> 0]
      ELSE IF signed
      THEN [ok |-> high \in {0, LongLimit \div (IntLimit \div 2) - 1}, val |-> IF high = 0 THEN uv ELSE uv - LongLimit]
      ELSE [ok |-> uv < IntLimit, val |-> uv]
-----------------------------------------------------------------------------
ArgInit ==
  /\ args \in Lines
  /\ positional = parse(args).positional
  /\ named = parse(args).named
  /\ result = [op |-> "none", outcome |-> "ok", text |-> <<>>, signed |-> FALSE, number |-> 0]
  /\ given = {}

\* Where an argument is kept: at a position, or among the values of a name.
At(position) == <<"positional", <<>>, position>>
Of(name, index) == <<"named", name, index>>

Values(name) == IF name \in DOMAIN named THEN named[name] ELSE <<>>
Use(name, index) == named' = [named EXCEPT ![name][index].used = TRUE]
UseAll(name) ==
  named' = [n \in DOMAIN named |-> IF n = name THEN [i \in DOMAIN named[n] |-> [named[n][i] EXCEPT !.used = TRUE]] ELSE named[n]]
Says(op, outcome) ==
  /\ result' = [op |-> op, outcome |-> outcome, text |-> <<>>, signed |-> FALSE, number |-> 0]
  /\ UNCHANGED args

\* get<string> of a name: an argument given twice is as good as missing.
get(name) ==
  /\ IF Len(Values(name)) = 1
     THEN Use(name, 1) /\ given' = given \cup {Of(name, 1)} /\ Says("get", "ok")
     ELSE Says("get", "missing") /\ UNCHANGED <<named, given>>
  /\ UNCHANGED positional

get_position(at) ==
  /\ IF at \in DOMAIN positional
     THEN /\ positional' = [positional EXCEPT ![at].used = TRUE]
          /\ given' = given \cup {At(at)}
          /\ Says("get", "ok")
     ELSE Says("get", "missing") /\ UNCHANGED <<positional, given>>
  /\ UNCHANGED named

\* get<integer>, with a default or without: the argument is used before its text is looked at.
get_int(name, signed, default) ==
  LET r == parse_int(Values(name)[1].text, signed)
  IN  /\ IF Len(Values(name)) = 1
         THEN /\ Use(name, 1)
              /\ given' = given \cup {Of(name, 1)}
              /\ result' = [op |-> "get_int", outcome |-> IF r.ok THEN "ok" ELSE "invalid",
                             text |-> Values(name)[1].text, signed |-> signed, number |-> r.val]
              /\ UNCHANGED args
         ELSE Says("get_int", IF default THEN "default" ELSE "missing") /\ UNCHANGED <<named, given>>
      /\ UNCHANGED positional

get_multi(name) ==
  /\ UseAll(name)
  /\ given' = given \cup {Of(name, i) : i \in DOMAIN Values(name)}
  /\ Says("get_multi", "ok")
  /\ UNCHANGED positional

\* The first value that is no number throws; the ones before it are used.
get_multi_int(name, signed) ==
  LET bad == {i \in DOMAIN Values(name) : ~parse_int(Values(name)[i].text, signed).ok}
      good == IF bad = {} THEN DOMAIN Values(name) ELSE 1..(First(bad) - 1)
  IN  /\ named' = [n \in DOMAIN named |->
                     IF n = name THEN [i \in DOMAIN named[n] |-> IF i \in good THEN [named[n][i] EXCEPT !.used = TRUE] ELSE named[n][i]]
                     ELSE named[n]]
      /\ given' = given \cup {Of(name, i) : i \in good}
      /\ Says("get_multi", IF bad = {} THEN "ok" ELSE "invalid")
      /\ UNCHANGED positional

\* Mutant: positional arguments are not looked at.
AssertNamedUsed ==
  /\ Says("assert_none_unused",
          IF \E name \in DOMAIN named : \E i \in DOMAIN named[name] : ~named[name][i].used THEN "invalid" ELSE "ok")
  /\ UNCHANGED <<positional, named, given>>

assert_none_unused ==
  LET unused == \/ \E at \in DOMAIN positional : ~positional[at].used
                \/ \E name \in DOMAIN named : \E i \in DOMAIN named[name] : ~named[name][i].used
  IN  /\ Says("assert_none_unused", IF unused THEN "invalid" ELSE "ok")
      /\ UNCHANGED <<positional, named, given>>
-----------------------------------------------------------------------------
ArgNext ==
  \/ \E name \in Names :
       \/ get(name) \/ get_multi(name)
       \/ \E signed, default \in BOOLEAN : get_int(name, signed, default)
       \/ \E signed \in BOOLEAN : get_multi_int(name, signed)
  \/ \E at \in 1..3 : get_position(at)
  \/ assert_none_unused

ArgSpec == ArgInit /\ [][ArgNext]_argVars
-----------------------------------------------------------------------------
\* What an argument vector says, read from the definition of its syntax.
Flags(arg) == IF Len(arg) > 1 /\ arg[1] = "-" /\ arg[2] # "-" THEN Len(arg) - 1 ELSE 1
Said ==
  LET upTo[i \in 0..Len(args)] == IF i = 0 THEN 0 ELSE upTo[i - 1] + Flags(args[i])
  IN  upTo[Len(args)]
Places(st) ==
  {At(at) : at \in DOMAIN st.positional} \cup UNION {{Of(name, i) : i \in DOMAIN st.named[name]} : name \in DOMAIN st.named}
All == Places([positional |-> positional, named |-> named])

(* assert_none_unused passes exactly when the program has been given everything its command line     *)
(* says, each flag of a group and each repetition by itself: an argument given twice that is asked   *)
(* for once (and reads as missing) is still reported.                                                *)
NothingUnnoticed ==
  /\ Cardinality(All) = Said
  /\ result.op = "assert_none_unused" => (result.outcome = "ok" <=> given = All)

Spells(text, signed, number) ==
  LET minus == text[1] = "-"
      n == Magnitude(IF minus THEN Tail(text) ELSE text)
  IN  /\ number \in IF signed THEN -(IntLimit \div 2)..(IntLimit \div 2 - 1) ELSE 0..(IntLimit - 1)
      /\ IF n >= LongLimit THEN number = (IF signed THEN -1 ELSE LongLimit - 1)
         ELSE (number - (IF minus THEN -n ELSE n)) % LongLimit = 0

(* An integer that get returns is one of its type, and the number the text spells or that number      *)
(* modulo LongLimit (so that a large enough text is read as a small or a negative number); a text    *)
(* beyond strtoull is read as the largest number there is, which a signed type takes for minus one.   *)
IntegersAsSpelled ==
  result.op = "get_int" /\ result.outcome = "ok" => Spells(result.text, result.signed, result.number)
=============================================================================
