------------------------------ MODULE Arguments ------------------------------
(***************************************************************************)
(* The command lines of the modes (run/src/common, and the arguments.hpp  *)
(* of each mode): which options a mode has and what parsing one does.      *)
(*                                                                         *)
(* The text of an option's value is a number, a word or an address,        *)
(* <type>://<id>; an id is a name or a <host>:<port>.                      *)
(***************************************************************************)
EXTENDS Integers, Sequences, FiniteSets

CONSTANTS
  MaxSize,      \* largest std::size_t
  MaxInt,       \* largest int
  None

ASSUME WidthAssumption == MaxSize \in Nat /\ MaxInt \in Nat

Number(n) == [is |-> "number", n |-> n]
Word(w) == [is |-> "word", w |-> w]
Address(type, id) == [is |-> "address", type |-> type, id |-> id]

(* Mutant: a number of any size is stored.                                 *)
FromChars_AnyRange(text, old, range) == IF text.is = "number" THEN text.n ELSE old

(* std::from_chars, of which nobody looks at the result: text that is no   *)
(* number, or one out of range, leaves the old value.                      *)
FromChars(text, old, range) ==
  IF text.is = "number" /\ text.n \in range THEN text.n ELSE old

SizeT == 0 .. MaxSize
Int32 == -MaxInt - 1 .. MaxInt

-----------------------------------------------------------------------------
(* ConnectionType                                                          *)

ToString == [kNetSocket |-> "netsock", kPipe |-> "pipe",
             kSharedMemory |-> "shmem", kUnixSocket |-> "uxsock"]
Types == DOMAIN ToString

(* Convert throws for any other word.                                      *)
ConvertTable == [netsock |-> "kNetSocket", pipe |-> "kPipe",
                 shmem |-> "kSharedMemory", uxsock |-> "kUnixSocket"]
Convertible(word) == word \in DOMAIN ConvertTable
Convert(word) == ConvertTable[word]

-----------------------------------------------------------------------------
(* The options of each mode                                                *)

Required(parser) == [required |-> TRUE, parser |-> parser]
Optional(parser) == [required |-> FALSE, parser |-> parser]

AnalyzerItems ==
  [chunks_total_count |-> Required("size"),
   measurer_producer |-> Required("address"),
   measurer_consumer |-> Required("address")]

ConsumerItems ==
  [chunks_total_count |-> Required("size"),
   connection |-> Required("address"),
   connection_buffer_size |-> Optional("optional"),
   measurer |-> Required("address"),
   cpu |-> Optional("cpu")]

ProducerItems ==
  [chunks_size |-> Required("size"),
   chunks_total_count |-> Required("size"),
   connection |-> Required("address"),
   connection_buffer_size |-> Optional("optional"),
   measurer |-> Required("address"),
   cpu |-> Optional("cpu")]

RunTestItems ==
  [chunks_size |-> Required("size"),
   chunks_total_count |-> Required("size"),
   connection |-> Required("type"),
   connection_buffer_size |-> Required("size"),
   environment_producer_cpu |-> Optional("cpu"),
   environment_consumer_cpu |-> Optional("cpu")]

(* Convert(role, Mode)                                                     *)
Items == [analyzer |-> AnalyzerItems, consumer |-> ConsumerItems,
          producer |-> ProducerItems, run_test |-> RunTestItems]
Modes == DOMAIN Items

RequiredOptions(mode) == {o \in DOMAIN Items[mode] : Items[mode][o].required}

-----------------------------------------------------------------------------
(* The object that the options are parsed into: the fields of the mode,    *)
(* the required options still to come, the ones parsed, and whether a      *)
(* parser has thrown.  garbage is what an uninitialized number holds.      *)

NewArguments(mode, garbage) ==
  [values |-> [o \in DOMAIN Items[mode] |->
                 CASE Items[mode][o].parser = "size" -> garbage
                   [] Items[mode][o].parser = "cpu"  -> -1
                   [] OTHER                          -> None],
   missing |-> Cardinality(RequiredOptions(mode)),
   parsed |-> {},
   thrown |-> FALSE]

ParserThrows(parser, text) ==
  \/ parser = "type" /\ ~(text.is = "word" /\ Convertible(text.w))
  \/ parser = "address" /\ ~(text.is = "address" /\ Convertible(text.type))

(* What the parser of an option makes of the text and of the old value     *)
Parsed(parser, text, old, garbage) ==
  CASE parser = "size"     -> FromChars(text, old, SizeT)
    [] parser = "optional" -> FromChars(text, garbage, SizeT)
    [] parser = "cpu"      -> FromChars(text, old, Int32)
    [] parser = "type"     -> Convert(text.w)
    [] parser = "address"  -> [type |-> Convert(text.type), id |-> text.id]

(* Mutant: a required option is counted each time it is given.             *)
ParseArgument_CountsAgain(mode, args, o, text, garbage) ==
  IF ParserThrows(Items[mode][o].parser, text)
  THEN [args EXCEPT !.thrown = TRUE]
  ELSE [args EXCEPT
          !.values[o] = Parsed(Items[mode][o].parser, text, @, garbage),
          !.missing = IF Items[mode][o].required THEN @ - 1 ELSE @,
          !.parsed = @ \cup {o}]

ParseArgument(mode, args, o, text, garbage) ==
  IF ParserThrows(Items[mode][o].parser, text)
  THEN [args EXCEPT !.thrown = TRUE]
  ELSE [args EXCEPT
          !.values[o] = Parsed(Items[mode][o].parser, text, @, garbage),
          !.missing = IF Items[mode][o].required /\ o \notin args.parsed THEN @ - 1 ELSE @,
          !.parsed = @ \cup {o}]

(* The loop of argp_parse over the options of a command line               *)
ParseArguments(mode, argv, garbage) ==
  LET after[i \in 0 .. Len(argv)] ==
        IF i = 0 THEN NewArguments(mode, garbage)
        ELSE ParseArgument(mode, after[i - 1], argv[i].option, argv[i].text, garbage)
  IN  after[Len(argv)]

HasNotParsedRequiredArguments(args) == args.missing # 0

(* ParseHostAndPort throws for an id without a colon.                      *)
HasEndpoint(address) == address.type # "kNetSocket" \/ "port" \in DOMAIN address.id

(* What a server and a client have to have in common to meet               *)
Endpoint(address) ==
  IF address.type = "kNetSocket" THEN [port |-> address.id.port] ELSE address.id

=============================================================================
