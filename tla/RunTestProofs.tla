---------------------------- MODULE RunTestProofs ----------------------------
(***************************************************************************)
(* From the command line to the messages, for every alphabet, every width  *)
(* of the numbers, every set of processors and whatever text an option may *)
(* have.                                                                   *)
(*                                                                         *)
(* IInv has three parts.  ParseInv: the Arguments of the process count the *)
(* required options that are missing, and their numbers are in range.      *)
(* ChildrenAgree is inductive with it: once the children have parsed,      *)
(* nothing changes any more, and that they agree at that moment follows    *)
(* from what each parser makes of the text that run_test has written       *)
(* (ReadableIsRead, by induction over the command line).  MessageInv: the  *)
(* i-th message is the alphabet from position (i - 1) * chunks_size on,    *)
(* over and over (MessageIsRound, by induction over the loop that fills    *)
(* it); when two of them are alike is then a matter of divisibility.       *)
(***************************************************************************)
EXTENDS RunTest, Numbers, FiniteSetTheorems

(* An object that options are parsed into: a required option is missing    *)
(* until it has been parsed, a number is one the machine can hold, and a   *)
(* connection type is one that there is.                                   *)
IsArguments(mode, a) ==
  /\ a = [values |-> a.values, missing |-> a.missing,
          parsed |-> a.parsed, thrown |-> a.thrown]
  /\ a.thrown \in BOOLEAN
  /\ a.parsed \subseteq DOMAIN Items[mode]
  /\ a.missing = Cardinality(RequiredOptions(mode) \ a.parsed)
  /\ a.values = [o \in DOMAIN Items[mode] |-> a.values[o]]
  /\ \A o \in DOMAIN Items[mode] :
       /\ Items[mode][o].parser = "size" => a.values[o] \in SizeT
       /\ Items[mode][o].parser = "cpu" => a.values[o] \in Int32
       /\ Items[mode][o].parser = "type" /\ o \in a.parsed => a.values[o] \in Types

-----------------------------------------------------------------------------
(* The options of the modes                                                *)

(* The names of the options                                                *)
LEMMA OptionsOf ==
  /\ Modes = {"analyzer", "consumer", "producer", "run_test"}
  /\ DOMAIN Items["analyzer"] =
       {"chunks_total_count", "measurer_producer", "measurer_consumer"}
  /\ DOMAIN Items["consumer"] =
       {"chunks_total_count", "connection", "connection_buffer_size", "measurer", "cpu"}
  /\ DOMAIN Items["producer"] =
       {"chunks_size", "chunks_total_count", "connection", "connection_buffer_size",
        "measurer", "cpu"}
  /\ DOMAIN Items["run_test"] =
       {"chunks_size", "chunks_total_count", "connection", "connection_buffer_size",
        "environment_producer_cpu", "environment_consumer_cpu"}
BY DEF Modes, Items, AnalyzerItems, ConsumerItems, ProducerItems, RunTestItems

(* What a table says of an option                                          *)
LEMMA Item ==
  ASSUME NEW parser
  PROVE  /\ Required(parser).required = TRUE /\ Required(parser).parser = parser
         /\ Optional(parser).required = FALSE /\ Optional(parser).parser = parser
BY DEF Required, Optional

(* The options of each mode: of the analyzer, ...                          *)
LEMMA AnalyzerTable ==
  /\ Items["analyzer"]["chunks_total_count"] = Required("size")
  /\ Items["analyzer"]["measurer_producer"] = Required("address")
  /\ Items["analyzer"]["measurer_consumer"] = Required("address")
<1>1. Items["analyzer"] = AnalyzerItems
  BY DEF Items
<1> QED
  BY <1>1 DEF AnalyzerItems

(* ... of the consumer, ...                                                *)
LEMMA ConsumerTable ==
  /\ Items["consumer"]["chunks_total_count"] = Required("size")
  /\ Items["consumer"]["connection"] = Required("address")
  /\ Items["consumer"]["connection_buffer_size"] = Optional("optional")
  /\ Items["consumer"]["measurer"] = Required("address")
  /\ Items["consumer"]["cpu"] = Optional("cpu")
<1>1. Items["consumer"] = ConsumerItems
  BY DEF Items
<1> QED
  BY <1>1 DEF ConsumerItems

(* ... of the producer, ...                                                *)
LEMMA ProducerTable ==
  /\ Items["producer"]["chunks_size"] = Required("size")
  /\ Items["producer"]["chunks_total_count"] = Required("size")
  /\ Items["producer"]["connection"] = Required("address")
  /\ Items["producer"]["connection_buffer_size"] = Optional("optional")
  /\ Items["producer"]["measurer"] = Required("address")
  /\ Items["producer"]["cpu"] = Optional("cpu")
<1>1. Items["producer"] = ProducerItems
  BY DEF Items
<1> QED
  BY <1>1 DEF ProducerItems

(* ... and of run_test                                                     *)
LEMMA RunTestTable ==
  /\ Items["run_test"]["chunks_size"] = Required("size")
  /\ Items["run_test"]["chunks_total_count"] = Required("size")
  /\ Items["run_test"]["connection"] = Required("type")
  /\ Items["run_test"]["connection_buffer_size"] = Required("size")
  /\ Items["run_test"]["environment_producer_cpu"] = Optional("cpu")
  /\ Items["run_test"]["environment_consumer_cpu"] = Optional("cpu")
<1>1. Items["run_test"] = RunTestItems
  BY DEF Items
<1> QED
  BY <1>1 DEF RunTestItems

(* Every option has one of the five parsers.                               *)
LEMMA Parsers ==
  ASSUME NEW mode \in Modes, NEW o \in DOMAIN Items[mode]
  PROVE  /\ Items[mode][o].parser \in {"size", "optional", "cpu", "type", "address"}
         /\ Items[mode][o].required \in BOOLEAN
<1> DEFINE Kinds == {"size", "optional", "cpu", "type", "address"}
           Fine(item) == item.parser \in Kinds /\ item.required \in BOOLEAN
<1>0. \A parser \in Kinds : Fine(Required(parser)) /\ Fine(Optional(parser))
  BY Item
<1>a. "size" \in Kinds /\ "optional" \in Kinds /\ "cpu" \in Kinds
      /\ "type" \in Kinds /\ "address" \in Kinds
  OBVIOUS
<1> SUFFICES Fine(Items[mode][o])
  OBVIOUS
<1> HIDE DEF Fine, Kinds
<1>1. CASE mode = "analyzer"
  <2>1. o \in {"chunks_total_count", "measurer_producer", "measurer_consumer"}
    BY <1>1, OptionsOf
  <2> QED
    BY <1>1, <2>1, <1>0, <1>a, AnalyzerTable, Zenon
<1>2. CASE mode = "consumer"
  <2>1. o \in {"chunks_total_count", "connection", "connection_buffer_size", "measurer", "cpu"}
    BY <1>2, OptionsOf
  <2> QED
    BY <1>2, <2>1, <1>0, <1>a, ConsumerTable, Zenon
<1>3. CASE mode = "producer"
  <2>1. o \in
         {"chunks_size", "chunks_total_count", "connection", "connection_buffer_size",
          "measurer", "cpu"}
    BY <1>3, OptionsOf
  <2> QED
    BY <1>3, <2>1, <1>0, <1>a, ProducerTable, Zenon
<1>4. CASE mode = "run_test"
  <2>1. o \in
         {"chunks_size", "chunks_total_count", "connection", "connection_buffer_size",
          "environment_producer_cpu", "environment_consumer_cpu"}
    BY <1>4, OptionsOf
  <2> QED
    BY <1>4, <2>1, <1>0, <1>a, RunTestTable, Zenon
<1> QED
  BY <1>1, <1>2, <1>3, <1>4, OptionsOf

(* No mode has more than six options, ...                                  *)
LEMMA FiniteSix ==
  ASSUME NEW a, NEW b, NEW c, NEW d, NEW e, NEW f
  PROVE  IsFiniteSet({a, b, c, d, e, f})
<1>1. IsFiniteSet({a}) /\ IsFiniteSet({b}) /\ IsFiniteSet({c})
  BY FS_Singleton
<1>2. IsFiniteSet({d}) /\ IsFiniteSet({e}) /\ IsFiniteSet({f})
  BY FS_Singleton
<1>3. IsFiniteSet({a} \cup {b}) /\ IsFiniteSet({c} \cup {d}) /\ IsFiniteSet({e} \cup {f})
  BY <1>1, <1>2, FS_Union
<1>4. IsFiniteSet(({a} \cup {b}) \cup ({c} \cup {d}))
  BY <1>3, FS_Union
<1>5. IsFiniteSet((({a} \cup {b}) \cup ({c} \cup {d})) \cup ({e} \cup {f}))
  BY <1>3, <1>4, FS_Union
<1>6. (({a} \cup {b}) \cup ({c} \cup {d})) \cup ({e} \cup {f}) = {a, b, c, d, e, f}
  OBVIOUS
<1> QED
  BY <1>5, <1>6, Zenon

(* ... so that the required ones can be counted.                           *)
LEMMA FiniteOptions ==
  ASSUME NEW mode \in Modes
  PROVE  /\ IsFiniteSet(RequiredOptions(mode))
         /\ Cardinality(RequiredOptions(mode)) \in Nat
<1>1. \E S : IsFiniteSet(S) /\ DOMAIN Items[mode] \subseteq S
  <2>1. CASE mode = "analyzer"
    <3>1. IsFiniteSet({"chunks_total_count", "measurer_producer", "measurer_consumer",
                       "measurer_consumer", "measurer_consumer", "measurer_consumer"})
      BY FiniteSix, Zenon
    <3> QED
      BY <2>1, <3>1, OptionsOf
  <2>2. CASE mode = "consumer"
    <3>1. IsFiniteSet({"chunks_total_count", "connection", "connection_buffer_size",
                       "measurer", "cpu", "cpu"})
      BY FiniteSix, Zenon
    <3> QED
      BY <2>2, <3>1, OptionsOf
  <2>3. CASE mode = "producer"
    <3>1. IsFiniteSet({"chunks_size", "chunks_total_count", "connection",
                       "connection_buffer_size", "measurer", "cpu"})
      BY FiniteSix, Zenon
    <3> QED
      BY <2>3, <3>1, OptionsOf
  <2>4. CASE mode = "run_test"
    <3>1. IsFiniteSet({"chunks_size", "chunks_total_count", "connection",
                       "connection_buffer_size", "environment_producer_cpu",
                       "environment_consumer_cpu"})
      BY FiniteSix, Zenon
    <3> QED
      BY <2>4, <3>1, OptionsOf
  <2> QED
    BY <2>1, <2>2, <2>3, <2>4, OptionsOf
<1>2. RequiredOptions(mode) \subseteq DOMAIN Items[mode]
  BY DEF RequiredOptions
<1>3. IsFiniteSet(RequiredOptions(mode))
  BY <1>1, <1>2, FS_Subset
<1> QED
  BY <1>3, FS_CardinalityType

-----------------------------------------------------------------------------
(* What the constructor and the parser of an option leave                  *)

(* The object before the first option                                      *)
LEMMA NewIsArguments ==
  ASSUME NEW mode \in Modes, NEW g \in SizeT
  PROVE  /\ IsArguments(mode, NewArguments(mode, g))
         /\ NewArguments(mode, g).parsed = {} /\ ~NewArguments(mode, g).thrown
<1> DEFINE v == [o \in DOMAIN Items[mode] |->
                   CASE Items[mode][o].parser = "size" -> g
                     [] Items[mode][o].parser = "cpu"  -> -1
                     [] OTHER                          -> None]
           a == NewArguments(mode, g)
<1>1. a = [values |-> v, missing |-> Cardinality(RequiredOptions(mode)),
           parsed |-> {}, thrown |-> FALSE]
  BY DEF NewArguments
<1>2. ASSUME NEW o \in DOMAIN Items[mode]
      PROVE  /\ Items[mode][o].parser = "size" => v[o] \in SizeT
             /\ Items[mode][o].parser = "cpu" => v[o] \in Int32
  <2>1. -1 \in Int32
    BY WidthAssumption DEF Int32
  <2> QED
    BY <2>1
<1>3. v = [o \in DOMAIN Items[mode] |-> v[o]]
  OBVIOUS
<1> HIDE DEF v, a
<1>4. a.values = v /\ a.missing = Cardinality(RequiredOptions(mode)) /\ a.parsed = {}
      /\ a.thrown = FALSE
  BY <1>1
<1>5. RequiredOptions(mode) \ {} = RequiredOptions(mode)
  OBVIOUS
<1>6. IsArguments(mode, a)
  BY <1>1, <1>2, <1>3, <1>4, <1>5 DEF IsArguments
<1> QED
  BY <1>4, <1>6 DEF a

(* A number that is parsed is in range if the old value was.               *)
LEMMA ParsedIsTyped ==
  ASSUME NEW text, NEW old, NEW g \in SizeT
  PROVE  /\ old \in SizeT => Parsed("size", text, old, g) \in SizeT
         /\ old \in Int32 => Parsed("cpu", text, old, g) \in Int32
         /\ ~ParserThrows("type", text) => Parsed("type", text, old, g) \in Types
<1>1. Parsed("size", text, old, g) = FromChars(text, old, SizeT)
  BY DEF Parsed
<1>2. Parsed("cpu", text, old, g) = FromChars(text, old, Int32)
  BY DEF Parsed
<1>3. Parsed("type", text, old, g) = Convert(text.w)
  BY DEF Parsed
<1>4. ~ParserThrows("type", text) => text.w \in {"netsock", "pipe", "shmem", "uxsock"}
  BY DEF ParserThrows, Convertible, ConvertTable
<1>5. \A w \in {"netsock", "pipe", "shmem", "uxsock"} : Convert(w) \in Types
  BY DEF Convert, ConvertTable, Types, ToString
<1> QED
  BY <1>1, <1>2, <1>3, <1>4, <1>5 DEF FromChars

(* A required option counts once, however often it is given.               *)
LEMMA MissingAfter ==
  ASSUME NEW R, IsFiniteSet(R), NEW P, NEW o
  PROVE  Cardinality(R \ (P \cup {o})) =
           IF o \in R /\ o \notin P THEN Cardinality(R \ P) - 1 ELSE Cardinality(R \ P)
<1>1. IsFiniteSet(R \ P)
  BY FS_Subset
<1>2. CASE o \in R /\ o \notin P
  <2>1. R \ (P \cup {o}) = (R \ P) \ {o}
    OBVIOUS
  <2> QED
    BY <1>1, <1>2, <2>1, FS_RemoveElement
<1>3. CASE ~(o \in R /\ o \notin P)
  <2>1. R \ (P \cup {o}) = R \ P
    BY <1>3
  <2> QED
    BY <1>3, <2>1
<1> QED
  BY <1>2, <1>3

(* One option: the text is parsed, or nothing changes but that it throws.  *)
LEMMA ParseIsArguments ==
  ASSUME NEW mode \in Modes, NEW a, IsArguments(mode, a), NEW o \in DOMAIN Items[mode],
         NEW text, NEW g \in SizeT, NEW b, b = ParseArgument(mode, a, o, text, g),
         NEW parser, parser = Items[mode][o].parser
  PROVE  /\ IsArguments(mode, b)
         /\ b.thrown = (a.thrown \/ ParserThrows(parser, text))
         /\ b.parsed = IF ParserThrows(parser, text) THEN a.parsed ELSE a.parsed \cup {o}
         /\ ~ParserThrows(parser, text) =>
              b.values = [a.values EXCEPT ![o] = Parsed(parser, text, a.values[o], g)]
<1> DEFINE w == Parsed(parser, text, a.values[o], g)
           m == IF Items[mode][o].required /\ o \notin a.parsed THEN a.missing - 1
                                                                ELSE a.missing
           v == [a.values EXCEPT ![o] = w]
<1>1. a = [values |-> a.values, missing |-> a.missing,
           parsed |-> a.parsed, thrown |-> a.thrown]
  BY DEF IsArguments
<1>2. CASE ParserThrows(parser, text)
  <2>1. b = [a EXCEPT !.thrown = TRUE]
    BY <1>2 DEF ParseArgument
  <2>2. b = [values |-> a.values, missing |-> a.missing,
             parsed |-> a.parsed, thrown |-> TRUE]
    BY <1>1, <2>1
  <2>3. b.values = a.values /\ b.missing = a.missing /\ b.parsed = a.parsed /\ b.thrown = TRUE
    BY <2>2
  <2>4. IsArguments(mode, b)
    BY <2>2, <2>3 DEF IsArguments
  <2> QED
    BY <1>2, <2>3, <2>4
<1>3. CASE ~ParserThrows(parser, text)
  <2>1. b = [[[a EXCEPT !.values[o] = w] EXCEPT !.missing = m]
               EXCEPT !.parsed = a.parsed \cup {o}]
    BY <1>3, Zenon DEF ParseArgument
  <2>2. [a EXCEPT !.values[o] = w] = [a EXCEPT !.values = v]
    BY Zenon
  <2> HIDE DEF w, m, v
  <2>3. b = [values |-> v, missing |-> m, parsed |-> a.parsed \cup {o}, thrown |-> a.thrown]
    BY <1>1, <2>1, <2>2
  <2>4. b.values = v /\ b.missing = m /\ b.parsed = a.parsed \cup {o} /\ b.thrown = a.thrown
    BY <2>3
  <2>5. v = [p \in DOMAIN Items[mode] |-> v[p]]
    BY DEF IsArguments, v
  <2>6. \A p \in DOMAIN Items[mode] : v[p] = IF p = o THEN w ELSE a.values[p]
    BY DEF IsArguments, v
  <2>7. m = Cardinality(RequiredOptions(mode) \ (a.parsed \cup {o}))
    <3>1. o \in RequiredOptions(mode) <=> Items[mode][o].required
      BY DEF RequiredOptions
    <3>2. IsFiniteSet(RequiredOptions(mode))
      BY FiniteOptions
    <3>3. a.missing = Cardinality(RequiredOptions(mode) \ a.parsed)
      BY DEF IsArguments
    <3>4. Cardinality(RequiredOptions(mode) \ (a.parsed \cup {o})) =
            IF o \in RequiredOptions(mode) /\ o \notin a.parsed
            THEN Cardinality(RequiredOptions(mode) \ a.parsed) - 1
            ELSE Cardinality(RequiredOptions(mode) \ a.parsed)
      BY <3>2, MissingAfter, Zenon
    <3> QED
      BY <3>1, <3>3, <3>4 DEF m
  <2>8. ASSUME NEW p \in DOMAIN Items[mode]
        PROVE  /\ Items[mode][p].parser = "size" => v[p] \in SizeT
               /\ Items[mode][p].parser = "cpu" => v[p] \in Int32
               /\ Items[mode][p].parser = "type" /\ p \in a.parsed \cup {o} => v[p] \in Types
    <3>1. CASE p = o
      BY <1>3, <2>6, <3>1, ParsedIsTyped DEF IsArguments, w
    <3>2. CASE p # o
      BY <2>6, <3>2 DEF IsArguments
    <3> QED
      BY <3>1, <3>2
  <2>9. IsArguments(mode, b)
    <3>1. b.thrown \in BOOLEAN /\ b.parsed \subseteq DOMAIN Items[mode]
      BY <2>4 DEF IsArguments
    <3> QED
      BY <2>3, <2>4, <2>5, <2>7, <2>8, <3>1 DEF IsArguments
  <2>10. b.thrown = (a.thrown \/ ParserThrows(parser, text))
    <3>1. a.thrown \in BOOLEAN
      BY DEF IsArguments
    <3> QED
      BY <1>3, <2>4, <3>1
  <2> QED
    BY <1>3, <2>4, <2>9, <2>10 DEF v, w
<1> QED
  BY <1>2, <1>3

(* The same, with a name for the conclusion                                *)
ParseEffect(mode, a, o, text, g, b) ==
  LET parser == Items[mode][o].parser
  IN  /\ IsArguments(mode, b)
      /\ b.thrown = (a.thrown \/ ParserThrows(parser, text))
      /\ b.parsed = IF ParserThrows(parser, text) THEN a.parsed ELSE a.parsed \cup {o}
      /\ ~ParserThrows(parser, text) =>
           b.values = [a.values EXCEPT ![o] = Parsed(parser, text, a.values[o], g)]

(* One option, in these terms                                              *)
LEMMA ParseIsEffect ==
  ASSUME NEW mode \in Modes, NEW a, IsArguments(mode, a), NEW o \in DOMAIN Items[mode],
         NEW text, NEW g \in SizeT
  PROVE  ParseEffect(mode, a, o, text, g, ParseArgument(mode, a, o, text, g))
BY ParseIsArguments DEF ParseEffect

-----------------------------------------------------------------------------
(* Parsing the command line                                                *)

ParseInv ==
  /\ role \in Roles /\ garbage \in Garbage
  /\ status \in {"main", "parsing", "usage", "thrown", "TooFew", "running", "working"}
  /\ status = "main" \/ role \notin Modes => args = None
  /\ status = "main" => given = {}
  /\ status # "main" /\ role \in Modes =>
       /\ IsArguments(role, args)
       /\ args.parsed \subseteq given /\ given \subseteq DOMAIN Items[role]
  /\ status \in {"parsing", "TooFew", "running", "working"} =>
       /\ role \in Modes /\ ~args.thrown /\ args.parsed = given
  /\ status \in {"running", "working"} => args.missing = 0
  /\ status = "TooFew" => args.missing # 0
  /\ children # None => status = "working" /\ role = "run_test"

(* Before main has looked at its arguments                                 *)
LEMMA ParseInvInit == Init => ParseInv
BY DEF Init, ParseInv

(* Every step keeps the invariant of the parsing.                          *)
LEMMA ParseInvNext ==
  ASSUME ParseInv, [Next]_vars
  PROVE  ParseInv'
<1> USE DEF ParseInv
<1>g. garbage \in SizeT
  BY GarbageAssumption
<1>1. CASE Main
  <2>1. CASE role \in Modes
    <3>1. status' = "parsing" /\ args' = NewArguments(role, garbage)
      BY <1>1, <2>1, NoneAssumption DEF Main
    <3>2. IsArguments(role, args') /\ args'.parsed = {} /\ ~args'.thrown
      BY <1>g, <2>1, <3>1, NewIsArguments
    <3>3. UNCHANGED <<role, garbage, given, children>> /\ status = "main"
      BY <1>1 DEF Main
    <3> QED
      BY <2>1, <3>1, <3>2, <3>3
  <2>2. CASE role \notin Modes
    <3>1. status' \in {"usage", "thrown"} /\ args' = None
      BY <1>1, <2>2 DEF Main
    <3>2. UNCHANGED <<role, garbage, given, children>> /\ status = "main"
      BY <1>1 DEF Main
    <3> QED
      BY <2>2, <3>1, <3>2
  <2> QED
    BY <2>1, <2>2
<1>2. ASSUME NEW o \in DOMAIN Items[role], NEW text, ParseOption(o, text)
      PROVE  ParseInv'
  <2>1. /\ status = "parsing" /\ given' = given \cup {o}
        /\ args' = ParseArgument(role, args, o, text, garbage)
        /\ status' = IF args'.thrown THEN "thrown" ELSE "parsing"
        /\ UNCHANGED <<role, garbage, children>>
    BY <1>2 DEF ParseOption
  <2>2. role \in Modes /\ IsArguments(role, args) /\ ~args.thrown /\ args.parsed = given
    BY <2>1
  <2> DEFINE b == ParseArgument(role, args, o, text, garbage)
             parser == Items[role][o].parser
  <2>a. b = ParseArgument(role, args, o, text, garbage) /\ parser = Items[role][o].parser
        /\ args' = b
    BY <2>1
  <2> HIDE DEF b, parser, ParseInv
  <2>b. ParseEffect(role, args, o, text, garbage, b)
    BY <1>g, <2>2, <2>a, ParseIsEffect, Zenon
  <2>3. /\ IsArguments(role, b)
        /\ b.thrown = (args.thrown \/ ParserThrows(parser, text))
        /\ b.parsed = IF ParserThrows(parser, text) THEN args.parsed
                                                   ELSE args.parsed \cup {o}
    BY <2>a, <2>b DEF ParseEffect
  <2> USE DEF ParseInv
  <2>4. args'.parsed \subseteq given' /\ given' \subseteq DOMAIN Items[role]
    BY <2>1, <2>2, <2>3, <2>a
  <2>5. ~args'.thrown => args'.parsed = given'
    BY <2>1, <2>2, <2>3, <2>a
  <2> QED
    BY <2>1, <2>2, <2>3, <2>4, <2>5, <2>a
<1>3. CASE UnknownOption
  BY <1>3 DEF UnknownOption
<1>4. CASE End
  BY <1>4 DEF End, HasNotParsedRequiredArguments
<1>5. CASE Start
  BY <1>5 DEF Start
<1>6. CASE StartChildren
  BY <1>6 DEF StartChildren
<1>7. CASE Generate
  BY <1>7 DEF Generate
<1>8. CASE UNCHANGED vars
  BY <1>8 DEF vars
<1> QED
  BY <1>1, <1>2, <1>3, <1>4, <1>5, <1>6, <1>7, <1>8 DEF Next

(* No option is missing exactly when every required one was given.         *)
LEMMA NoneIsMissing ==
  ASSUME NEW mode \in Modes, NEW a, IsArguments(mode, a)
  PROVE  /\ a.missing \in 0 .. Cardinality(RequiredOptions(mode))
         /\ a.missing = 0 <=> RequiredOptions(mode) \subseteq a.parsed
<1> DEFINE R == RequiredOptions(mode)
<1>1. IsFiniteSet(R) /\ Cardinality(R) \in Nat
  BY FiniteOptions
<1>2. a.missing = Cardinality(R \ a.parsed)
  BY DEF IsArguments
<1> HIDE DEF R
<1>3. IsFiniteSet(R \ a.parsed) /\ Cardinality(R \ a.parsed) <= Cardinality(R)
  BY <1>1, FS_Subset
<1>4. Cardinality(R \ a.parsed) \in Nat
  BY <1>3, FS_CardinalityType
<1>5. Cardinality(R \ a.parsed) = 0 <=> R \ a.parsed = {}
  BY <1>3, FS_EmptySet
<1>6. R \ a.parsed = {} <=> R \subseteq a.parsed
  OBVIOUS
<1>7. a.missing \in 0 .. Cardinality(R)
  BY <1>1, <1>2, <1>3, <1>4
<1>8. a.missing = 0 <=> R \subseteq a.parsed
  BY <1>2, <1>5, <1>6, Zenon
<1> QED
  BY <1>7, <1>8 DEF R

(* No work without the required options, and no complaint with them        *)
LEMMA CompleteFromInv ==
  ASSUME ParseInv
  PROVE  StartsWhenComplete
<1>1. ASSUME status \in {"TooFew", "running", "working"}
      PROVE  args.missing = 0 <=> RequiredOptions(role) \subseteq given
  <2>1. role \in Modes /\ IsArguments(role, args) /\ args.parsed = given
    BY <1>1 DEF ParseInv
  <2> QED
    BY <2>1, NoneIsMissing, Zenon
<1> QED
  BY <1>1 DEF ParseInv, StartsWhenComplete

(* However the options are given, in whatever order and number: a mode     *)
(* goes to work only if all the required ones were among them, and         *)
(* complains of too few only if one was not.                               *)
THEOREM Complete == Spec => []StartsWhenComplete
<1>1. Init => ParseInv
  BY ParseInvInit
<1>2. ParseInv /\ [Next]_vars => ParseInv'
  BY ParseInvNext
<1>3. ParseInv => StartsWhenComplete
  BY CompleteFromInv
<1> QED
  BY <1>1, <1>2, <1>3, PTL DEF Spec

-----------------------------------------------------------------------------
(* Parsing a whole command line, that of a child of run_test               *)

(* The recursive definition of ParseArguments defines something: what is   *)
(* there after i options.                                                  *)
ParsingSteps(f, n, mode, argv, g) ==
  f = [i \in 0 .. n |->
         IF i = 0 THEN NewArguments(mode, g)
         ELSE ParseArgument(mode, f[i - 1], argv[i].option, argv[i].text, g)]

(* There is such a function, for any number of options.                    *)
LEMMA ParsingStepsExist ==
  ASSUME NEW mode, NEW argv, NEW g
  PROVE  \A n \in Nat : \E f : ParsingSteps(f, n, mode, argv, g)
<1> DEFINE New == NewArguments(mode, g)
           Step(x, i) == ParseArgument(mode, x, argv[i].option, argv[i].text, g)
           Def(f, n) == f = [i \in 0 .. n |-> IF i = 0 THEN New ELSE Step(f[i - 1], i)]
           S == {n \in Nat : \E f : Def(f, n)}
<1> HIDE DEF New, Step
<1>1. 0 \in S
  <2> DEFINE f == [i \in 0 .. 0 |-> New]
  <2>1. Def(f, 0)
    OBVIOUS
  <2> QED
    BY <2>1
<1>2. ASSUME NEW n \in Nat, n \in S PROVE n + 1 \in S
  <2>1. PICK f : Def(f, n)
    BY <1>2
  <2> DEFINE h == [i \in 0 .. n + 1 |-> IF i = n + 1 THEN Step(f[n], n + 1) ELSE f[i]]
  <2>2. \A i \in 0 .. n : h[i] = f[i]
    OBVIOUS
  <2>3. h[n + 1] = Step(f[n], n + 1)
    OBVIOUS
  <2>4. f[0] = New /\ \A i \in 1 .. n : f[i] = Step(f[i - 1], i)
    BY <2>1
  <2>5. ASSUME NEW i \in 0 .. n + 1
        PROVE  h[i] = IF i = 0 THEN New ELSE Step(h[i - 1], i)
    <3>1. CASE i = 0
      BY <2>2, <2>4, <3>1
    <3>2. CASE i \in 1 .. n
      <4>1. h[i] = f[i] /\ h[i - 1] = f[i - 1] /\ f[i] = Step(f[i - 1], i) /\ i # 0
        BY <2>2, <2>4, <3>2
      <4> QED
        BY <4>1
    <3>3. CASE i = n + 1
      <4>1. h[i] = Step(f[n], i) /\ h[i - 1] = f[n] /\ i # 0
        BY <2>2, <2>3, <3>3
      <4> QED
        BY <4>1
    <3> QED
      BY <3>1, <3>2, <3>3
  <2>6. h = [i \in 0 .. n + 1 |-> h[i]]
    OBVIOUS
  <2> HIDE DEF h
  <2>7. Def(h, n + 1)
    BY <2>5, <2>6
  <2> QED
    BY <2>7
<1> HIDE DEF S
<1>3. \A n \in Nat : n \in S
  BY <1>1, <1>2, SetInduction
<1>4. ASSUME NEW n \in Nat PROVE \E f : ParsingSteps(f, n, mode, argv, g)
  <2>1. \E f : Def(f, n)
    BY <1>3 DEF S
  <2> QED
    BY <2>1, Zenon DEF ParsingSteps, Step, New
<1> QED
  BY <1>4

(* ParseArguments, one option after the other                              *)
LEMMA ParseArgumentsSteps ==
  ASSUME NEW mode, NEW argv, NEW g, Len(argv) \in Nat
  PROVE  \E f : /\ f[0] = NewArguments(mode, g)
                /\ \A i \in 1 .. Len(argv) :
                     f[i] = ParseArgument(mode, f[i - 1], argv[i].option, argv[i].text, g)
                /\ ParseArguments(mode, argv, g) = f[Len(argv)]
<1> DEFINE f == CHOOSE f : ParsingSteps(f, Len(argv), mode, argv, g)
<1>1. \E h : ParsingSteps(h, Len(argv), mode, argv, g)
  BY ParsingStepsExist, Zenon
<1>2. ParsingSteps(f, Len(argv), mode, argv, g)
  BY <1>1, Zenon
<1>3. ParseArguments(mode, argv, g) = f[Len(argv)]
  BY Zenon DEF ParseArguments, ParsingSteps
<1> HIDE DEF f
<1> DEFINE New == NewArguments(mode, g)
           Step(x, i) == ParseArgument(mode, x, argv[i].option, argv[i].text, g)
<1>4. f = [i \in 0 .. Len(argv) |-> IF i = 0 THEN New ELSE Step(f[i - 1], i)]
  BY <1>2, Zenon DEF ParsingSteps
<1> HIDE DEF New, Step
<1>5. f[0] = New
  BY <1>4
<1>6. \A i \in 1 .. Len(argv) : f[i] = Step(f[i - 1], i)
  BY <1>4
<1> QED
  BY <1>3, <1>5, <1>6, Zenon DEF New, Step

(* A command line on which every option is known and stands once, every    *)
(* required one among them, and every text can be parsed, as the values r; *)
(* and what parsing it leaves                                              *)
Reads(parser, text, g, value) ==
  ~ParserThrows(parser, text) /\ \A old : Parsed(parser, text, old, g) = value

IsReadable(mode, argv, g, r) ==
  /\ Len(argv) \in Nat
  /\ \A i \in 1 .. Len(argv) :
       /\ argv[i].option \in DOMAIN Items[mode]
       /\ Reads(Items[mode][argv[i].option].parser, argv[i].text, g, r[i])
  /\ \A i, j \in 1 .. Len(argv) : argv[i].option = argv[j].option => i = j
  /\ \A o \in RequiredOptions(mode) : \E i \in 1 .. Len(argv) : argv[i].option = o

HasRead(mode, argv, r, a) ==
  /\ IsArguments(mode, a) /\ ~a.thrown /\ a.missing = 0
  /\ \A i \in 1 .. Len(argv) : a.values[argv[i].option] = r[i]

(* A readable command line leaves the values that it stands for.           *)
LEMMA ReadableIsRead ==
  ASSUME NEW mode \in Modes, NEW argv, NEW g \in SizeT, NEW r, IsReadable(mode, argv, g, r)
  PROVE  HasRead(mode, argv, r, ParseArguments(mode, argv, g))
<1> DEFINE n == Len(argv)
           O(i) == argv[i].option
<1>0. n \in Nat
  BY DEF IsReadable
<1>1. PICK f : /\ f[0] = NewArguments(mode, g)
               /\ \A i \in 1 .. n :
                    f[i] = ParseArgument(mode, f[i - 1], O(i), argv[i].text, g)
               /\ ParseArguments(mode, argv, g) = f[n]
  BY <1>0, ParseArgumentsSteps
<1> DEFINE Good(i) == /\ IsArguments(mode, f[i]) /\ ~f[i].thrown
                      /\ \A j \in 1 .. i : O(j) \in f[i].parsed /\ f[i].values[O(j)] = r[j]
           S == {i \in Nat : i <= n => Good(i)}
<1>2. 0 \in S
  <2>1. IsArguments(mode, f[0]) /\ ~f[0].thrown
    BY <1>1, NewIsArguments
  <2> QED
    BY <2>1
<1>3. ASSUME NEW k \in Nat, k \in S PROVE k + 1 \in S
  <2> SUFFICES ASSUME k + 1 <= n PROVE Good(k + 1)
    OBVIOUS
  <2> DEFINE i == k + 1
             a == f[k]
             b == f[k + 1]
             o == O(k + 1)
             text == argv[k + 1].text
             parser == Items[mode][o].parser
  <2>1. i \in 1 .. n /\ i - 1 = k /\ k <= n
    BY <1>0
  <2>2. Good(k)
    BY <1>3, <2>1
  <2>3. b = ParseArgument(mode, a, o, text, g)
    BY <1>1, <2>1
  <2>4. /\ o \in DOMAIN Items[mode] /\ ~ParserThrows(parser, text)
        /\ \A old : Parsed(parser, text, old, g) = r[i]
    BY <2>1 DEF IsReadable, Reads
  <2>5. \A j \in 1 .. k : O(j) # o
    <3>1. \A p, q \in 1 .. n : O(p) = O(q) => p = q
      BY DEF IsReadable
    <3>2. \A j \in 1 .. k : j \in 1 .. n /\ j # i
      BY <1>0, <2>1
    <3> QED
      BY <2>1, <3>1, <3>2
  <2>6. \A j \in 1 .. i : j = i \/ j \in 1 .. k
    OBVIOUS
  <2>7. O(i) = o
    OBVIOUS
  <2>8. \A j \in 1 .. k : O(j) \in DOMAIN Items[mode]
    BY <2>1 DEF IsReadable
  <2>9. /\ IsArguments(mode, a) /\ ~a.thrown
        /\ \A j \in 1 .. k : O(j) \in a.parsed /\ a.values[O(j)] = r[j]
    BY <2>2
  <2> SUFFICES /\ IsArguments(mode, b) /\ ~b.thrown
               /\ \A j \in 1 .. i : O(j) \in b.parsed /\ b.values[O(j)] = r[j]
    OBVIOUS
  <2> HIDE DEF a, b, o, text, O, i, n
  <2>10. ParseEffect(mode, a, o, text, g, b)
    BY <2>3, <2>4, <2>9, ParseIsEffect, Zenon
  <2>11. /\ IsArguments(mode, b) /\ ~b.thrown /\ b.parsed = a.parsed \cup {o}
         /\ b.values = [a.values EXCEPT ![o] = Parsed(parser, text, a.values[o], g)]
    BY <2>4, <2>9, <2>10 DEF ParseEffect
  <2>12. b.values = [a.values EXCEPT ![o] = r[i]]
    BY <2>4, <2>11, Zenon
  <2>13. a.values = [p \in DOMAIN Items[mode] |-> a.values[p]]
    BY <2>9 DEF IsArguments
  <2>14. \A p \in DOMAIN Items[mode] : b.values[p] = IF p = o THEN r[i] ELSE a.values[p]
    BY <2>4, <2>12, <2>13
  <2> QED
    BY <2>4, <2>5, <2>6, <2>7, <2>8, <2>9, <2>11, <2>14
<1>4. Good(n)
  <2> HIDE DEF S
  <2>1. \A k \in Nat : k \in S
    BY <1>2, <1>3, SetInduction
  <2> QED
    BY <1>0, <2>1 DEF S
<1>5. RequiredOptions(mode) \subseteq f[n].parsed
  BY <1>4 DEF IsReadable
<1>6. f[n].missing = 0
  BY <1>4, <1>5, NoneIsMissing
<1> QED
  BY <1>1, <1>4, <1>6 DEF HasRead

(* What run_test writes can be read.                                       *)
ConnectionId(side, end, type) ==
  IF type = "kNetSocket"
  THEN [host |-> IF end = "Server" THEN "" ELSE "localhost", port |-> PortOf[side]]
  ELSE [name |-> NameOf[side]]

AddressOf(side, end, type) == [type |-> type, id |-> ConnectionId(side, end, type)]

(* A number in range is read back as it was written.                       *)
LEMMA ReadsNumber ==
  ASSUME NEW n, NEW g
  PROVE  /\ n \in SizeT => Reads("size", Number(n), g, n) /\ Reads("optional", Number(n), g, n)
         /\ n \in Int32 => Reads("cpu", Number(n), g, n)
<1>1. Number(n).is = "number" /\ Number(n).n = n
  BY DEF Number
<1>2. \A old, range : n \in range => FromChars(Number(n), old, range) = n
  BY <1>1 DEF FromChars
<1>3. /\ ~ParserThrows("size", Number(n)) /\ ~ParserThrows("optional", Number(n))
      /\ ~ParserThrows("cpu", Number(n))
  BY DEF ParserThrows
<1>4. ASSUME NEW old
      PROVE  /\ Parsed("size", Number(n), old, g) = FromChars(Number(n), old, SizeT)
             /\ Parsed("optional", Number(n), old, g) = FromChars(Number(n), g, SizeT)
             /\ Parsed("cpu", Number(n), old, g) = FromChars(Number(n), old, Int32)
  BY DEF Parsed
<1> QED
  BY <1>2, <1>3, <1>4, Zenon DEF Reads

(* An address is read back as type and id.                                 *)
LEMMA ReadsAddress ==
  ASSUME NEW side, NEW end, NEW type \in Types, NEW g
  PROVE  Reads("address", MakeConnectionString(side, end, type), g,
               AddressOf(side, end, type))
<1> DEFINE text == MakeConnectionString(side, end, type)
<1>1. text = [is |-> "address", type |-> ToString[type], id |-> ConnectionId(side, end, type)]
  BY DEF MakeConnectionString, Address, ConnectionId
<1>2. Convertible(ToString[type]) /\ Convert(ToString[type]) = type
  <2>1. type \in {"kNetSocket", "kPipe", "kSharedMemory", "kUnixSocket"}
    BY DEF Types, ToString
  <2>2. /\ ToString["kNetSocket"] = "netsock" /\ ToString["kPipe"] = "pipe"
        /\ ToString["kSharedMemory"] = "shmem" /\ ToString["kUnixSocket"] = "uxsock"
    BY DEF ToString
  <2>3. /\ Convertible("netsock") /\ Convertible("pipe")
        /\ Convertible("shmem") /\ Convertible("uxsock")
    BY DEF Convertible, ConvertTable
  <2>4. /\ Convert("netsock") = "kNetSocket" /\ Convert("pipe") = "kPipe"
        /\ Convert("shmem") = "kSharedMemory" /\ Convert("uxsock") = "kUnixSocket"
    BY DEF Convert, ConvertTable
  <2> QED
    BY <2>1, <2>2, <2>3, <2>4, Zenon
<1> HIDE DEF text
<1>3. text.is = "address" /\ text.type = ToString[type] /\ text.id = ConnectionId(side, end, type)
  BY <1>1
<1>4. ~ParserThrows("address", text)
  BY <1>2, <1>3 DEF ParserThrows
<1>5. ASSUME NEW old PROVE Parsed("address", text, old, g) = AddressOf(side, end, type)
  <2>1. Parsed("address", text, old, g) = [type |-> Convert(text.type), id |-> text.id]
    BY DEF Parsed
  <2> QED
    BY <1>2, <1>3, <2>1, Zenon DEF AddressOf
<1> QED
  BY <1>4, <1>5, Zenon DEF Reads, text

(* The values that run_test has to hand on                                 *)
IsRunTestValues(v) ==
  /\ v.chunks_size \in SizeT /\ v.chunks_total_count \in SizeT
  /\ v.connection_buffer_size \in SizeT
  /\ v.environment_producer_cpu \in Int32 /\ v.environment_consumer_cpu \in Int32
  /\ v.connection \in Types

(* What the child makes of its command line: the analyzer, ...             *)
LEMMA AnalyzerReads ==
  ASSUME NEW v, IsRunTestValues(v), NEW g \in SizeT, NEW a,
         a = ParseArguments("analyzer", ModesArguments(v)["analyzer"], g)
  PROVE  /\ ~a.thrown /\ a.missing = 0
         /\ a.values.chunks_total_count = v.chunks_total_count
         /\ a.values.measurer_producer = AddressOf("MeasurerProducer", "Server", v.connection)
         /\ a.values.measurer_consumer = AddressOf("MeasurerConsumer", "Server", v.connection)
<1> DEFINE t1 == [option |-> "chunks_total_count", text |-> Number(v.chunks_total_count)]
           t2 == [option |-> "measurer_producer",
                  text |-> MakeConnectionString("MeasurerProducer", "Server", v.connection)]
           t3 == [option |-> "measurer_consumer",
                  text |-> MakeConnectionString("MeasurerConsumer", "Server", v.connection)]
           r1 == v.chunks_total_count
           r2 == AddressOf("MeasurerProducer", "Server", v.connection)
           r3 == AddressOf("MeasurerConsumer", "Server", v.connection)
           argv == <<t1, t2, t3>>
           r == <<r1, r2, r3>>
<1>1. ModesArguments(v)["analyzer"] = argv
  BY DEF ModesArguments
<1>2. /\ t1.option = "chunks_total_count"
      /\ t2.option = "measurer_producer"
      /\ t3.option = "measurer_consumer"
  OBVIOUS
<1>3. /\ Reads("size", t1.text, g, r1)
      /\ Reads("address", t2.text, g, r2)
      /\ Reads("address", t3.text, g, r3)
  BY ReadsNumber, ReadsAddress DEF IsRunTestValues
<1> HIDE DEF t1, t2, t3, r1, r2, r3
<1>4. /\ Items["analyzer"]["chunks_total_count"].parser = "size"
      /\ Items["analyzer"]["measurer_producer"].parser = "address"
      /\ Items["analyzer"]["measurer_consumer"].parser = "address"
  BY AnalyzerTable, Item
<1>5. Len(argv) = 3 /\ argv[1] = t1 /\ argv[2] = t2 /\ argv[3] = t3
  OBVIOUS
<1>6. r[1] = r1 /\ r[2] = r2 /\ r[3] = r3
  OBVIOUS
<1> HIDE DEF argv, r
<1>7. IsReadable("analyzer", argv, g, r)
  <2>1. 1 .. Len(argv) = {1, 2, 3} /\ Len(argv) \in Nat
    BY <1>5
  <2>2. DOMAIN Items["analyzer"] = {"chunks_total_count", "measurer_producer", "measurer_consumer"}
    BY OptionsOf
  <2>3. RequiredOptions("analyzer") \subseteq
         {"chunks_total_count", "measurer_producer", "measurer_consumer"}
    BY <2>2 DEF RequiredOptions
  <2>4. ASSUME NEW i \in 1 .. Len(argv)
        PROVE  /\ argv[i].option \in DOMAIN Items["analyzer"]
               /\ Reads(Items["analyzer"][argv[i].option].parser, argv[i].text, g, r[i])
    <3>1. i \in {1, 2, 3}
      BY <2>1
    <3>2. argv[i].option \in DOMAIN Items["analyzer"]
      BY <1>2, <1>5, <2>2, <3>1
    <3>3. Reads(Items["analyzer"][argv[i].option].parser, argv[i].text, g, r[i])
      BY <1>2, <1>3, <1>4, <1>5, <1>6, <3>1, Zenon
    <3> QED
      BY <3>2, <3>3
  <2>5. ASSUME NEW i \in 1 .. Len(argv), NEW j \in 1 .. Len(argv),
               argv[i].option = argv[j].option
        PROVE  i = j
    BY <1>2, <1>5, <2>1, <2>5
  <2>6. ASSUME NEW o \in RequiredOptions("analyzer")
        PROVE  \E i \in 1 .. Len(argv) : argv[i].option = o
    BY <1>2, <1>5, <2>1, <2>3
  <2> QED
    BY <2>1, <2>4, <2>5, <2>6 DEF IsReadable
<1>8. "analyzer" \in Modes
  BY OptionsOf
<1>9. HasRead("analyzer", argv, r, a)
  BY <1>1, <1>7, <1>8, ReadableIsRead, Zenon
<1>10. \A i \in 1 .. 3 : a.values[argv[i].option] = r[i]
  BY <1>5, <1>9 DEF HasRead
<1>11. /\ a.values["chunks_total_count"] = r1
       /\ a.values["measurer_producer"] = r2
       /\ a.values["measurer_consumer"] = r3
  BY <1>2, <1>5, <1>6, <1>10
<1> QED
  BY <1>9, <1>11 DEF HasRead, r1, r2, r3

(* ... the consumer ...                                                    *)
LEMMA ConsumerReads ==
  ASSUME NEW v, IsRunTestValues(v), NEW g \in SizeT, NEW a,
         a = ParseArguments("consumer", ModesArguments(v)["consumer"], g)
  PROVE  /\ ~a.thrown /\ a.missing = 0
         /\ a.values.chunks_total_count = v.chunks_total_count
         /\ a.values.connection = AddressOf("ConsumerProducer", "Server", v.connection)
         /\ a.values.connection_buffer_size = v.connection_buffer_size
         /\ a.values.measurer = AddressOf("MeasurerConsumer", "Client", v.connection)
         /\ a.values.cpu = v.environment_consumer_cpu
<1> DEFINE t1 == [option |-> "chunks_total_count", text |-> Number(v.chunks_total_count)]
           t2 == [option |-> "connection",
                  text |-> MakeConnectionString("ConsumerProducer", "Server", v.connection)]
           t3 == [option |-> "connection_buffer_size", text |-> Number(v.connection_buffer_size)]
           t4 == [option |-> "measurer",
                  text |-> MakeConnectionString("MeasurerConsumer", "Client", v.connection)]
           t5 == [option |-> "cpu", text |-> Number(v.environment_consumer_cpu)]
           r1 == v.chunks_total_count
           r2 == AddressOf("ConsumerProducer", "Server", v.connection)
           r3 == v.connection_buffer_size
           r4 == AddressOf("MeasurerConsumer", "Client", v.connection)
           r5 == v.environment_consumer_cpu
           argv == <<t1, t2, t3, t4, t5>>
           r == <<r1, r2, r3, r4, r5>>
<1>1. ModesArguments(v)["consumer"] = argv
  BY DEF ModesArguments
<1>2. /\ t1.option = "chunks_total_count"
      /\ t2.option = "connection"
      /\ t3.option = "connection_buffer_size"
      /\ t4.option = "measurer"
      /\ t5.option = "cpu"
  OBVIOUS
<1>3. /\ Reads("size", t1.text, g, r1)
      /\ Reads("address", t2.text, g, r2)
      /\ Reads("optional", t3.text, g, r3)
      /\ Reads("address", t4.text, g, r4)
      /\ Reads("cpu", t5.text, g, r5)
  BY ReadsNumber, ReadsAddress DEF IsRunTestValues
<1> HIDE DEF t1, t2, t3, t4, t5, r1, r2, r3, r4, r5
<1>4. /\ Items["consumer"]["chunks_total_count"].parser = "size"
      /\ Items["consumer"]["connection"].parser = "address"
      /\ Items["consumer"]["connection_buffer_size"].parser = "optional"
      /\ Items["consumer"]["measurer"].parser = "address"
      /\ Items["consumer"]["cpu"].parser = "cpu"
  BY ConsumerTable, Item
<1>5. Len(argv) = 5 /\ argv[1] = t1 /\ argv[2] = t2 /\ argv[3] = t3 /\ argv[4] = t4 /\ argv[5] = t5
  OBVIOUS
<1>6. r[1] = r1 /\ r[2] = r2 /\ r[3] = r3 /\ r[4] = r4 /\ r[5] = r5
  OBVIOUS
<1> HIDE DEF argv, r
<1>7. IsReadable("consumer", argv, g, r)
  <2>1. 1 .. Len(argv) = {1, 2, 3, 4, 5} /\ Len(argv) \in Nat
    BY <1>5
  <2>2. DOMAIN Items["consumer"] =
         {"chunks_total_count", "connection", "connection_buffer_size", "measurer", "cpu"}
    BY OptionsOf
  <2>3. RequiredOptions("consumer") \subseteq
         {"chunks_total_count", "connection", "connection_buffer_size", "measurer", "cpu"}
    BY <2>2 DEF RequiredOptions
  <2>4. ASSUME NEW i \in 1 .. Len(argv)
        PROVE  /\ argv[i].option \in DOMAIN Items["consumer"]
               /\ Reads(Items["consumer"][argv[i].option].parser, argv[i].text, g, r[i])
    <3>1. i \in {1, 2, 3, 4, 5}
      BY <2>1
    <3>2. argv[i].option \in DOMAIN Items["consumer"]
      BY <1>2, <1>5, <2>2, <3>1
    <3>3. Reads(Items["consumer"][argv[i].option].parser, argv[i].text, g, r[i])
      BY <1>2, <1>3, <1>4, <1>5, <1>6, <3>1, Zenon
    <3> QED
      BY <3>2, <3>3
  <2>5. ASSUME NEW i \in 1 .. Len(argv), NEW j \in 1 .. Len(argv),
               argv[i].option = argv[j].option
        PROVE  i = j
    BY <1>2, <1>5, <2>1, <2>5
  <2>6. ASSUME NEW o \in RequiredOptions("consumer")
        PROVE  \E i \in 1 .. Len(argv) : argv[i].option = o
    BY <1>2, <1>5, <2>1, <2>3
  <2> QED
    BY <2>1, <2>4, <2>5, <2>6 DEF IsReadable
<1>8. "consumer" \in Modes
  BY OptionsOf
<1>9. HasRead("consumer", argv, r, a)
  BY <1>1, <1>7, <1>8, ReadableIsRead, Zenon
<1>10. \A i \in 1 .. 5 : a.values[argv[i].option] = r[i]
  BY <1>5, <1>9 DEF HasRead
<1>11. /\ a.values["chunks_total_count"] = r1
       /\ a.values["connection"] = r2
       /\ a.values["connection_buffer_size"] = r3
       /\ a.values["measurer"] = r4
       /\ a.values["cpu"] = r5
  BY <1>2, <1>5, <1>6, <1>10
<1> QED
  BY <1>9, <1>11 DEF HasRead, r1, r2, r3, r4, r5

(* ... and the producer                                                    *)
LEMMA ProducerReads ==
  ASSUME NEW v, IsRunTestValues(v), NEW g \in SizeT, NEW a,
         a = ParseArguments("producer", ModesArguments(v)["producer"], g)
  PROVE  /\ ~a.thrown /\ a.missing = 0
         /\ a.values.chunks_size = v.chunks_size
         /\ a.values.chunks_total_count = v.chunks_total_count
         /\ a.values.connection = AddressOf("ConsumerProducer", "Client", v.connection)
         /\ a.values.connection_buffer_size = v.connection_buffer_size
         /\ a.values.measurer = AddressOf("MeasurerProducer", "Client", v.connection)
         /\ a.values.cpu = v.environment_producer_cpu
<1> DEFINE t1 == [option |-> "chunks_size", text |-> Number(v.chunks_size)]
           t2 == [option |-> "chunks_total_count", text |-> Number(v.chunks_total_count)]
           t3 == [option |-> "connection",
                  text |-> MakeConnectionString("ConsumerProducer", "Client", v.connection)]
           t4 == [option |-> "connection_buffer_size", text |-> Number(v.connection_buffer_size)]
           t5 == [option |-> "measurer",
                  text |-> MakeConnectionString("MeasurerProducer", "Client", v.connection)]
           t6 == [option |-> "cpu", text |-> Number(v.environment_producer_cpu)]
           r1 == v.chunks_size
           r2 == v.chunks_total_count
           r3 == AddressOf("ConsumerProducer", "Client", v.connection)
           r4 == v.connection_buffer_size
           r5 == AddressOf("MeasurerProducer", "Client", v.connection)
           r6 == v.environment_producer_cpu
           argv == <<t1, t2, t3, t4, t5, t6>>
           r == <<r1, r2, r3, r4, r5, r6>>
<1>1. ModesArguments(v)["producer"] = argv
  BY DEF ModesArguments
<1>2. /\ t1.option = "chunks_size"
      /\ t2.option = "chunks_total_count"
      /\ t3.option = "connection"
      /\ t4.option = "connection_buffer_size"
      /\ t5.option = "measurer"
      /\ t6.option = "cpu"
  OBVIOUS
<1>3. /\ Reads("size", t1.text, g, r1)
      /\ Reads("size", t2.text, g, r2)
      /\ Reads("address", t3.text, g, r3)
      /\ Reads("optional", t4.text, g, r4)
      /\ Reads("address", t5.text, g, r5)
      /\ Reads("cpu", t6.text, g, r6)
  BY ReadsNumber, ReadsAddress DEF IsRunTestValues
<1> HIDE DEF t1, t2, t3, t4, t5, t6, r1, r2, r3, r4, r5, r6
<1>4. /\ Items["producer"]["chunks_size"].parser = "size"
      /\ Items["producer"]["chunks_total_count"].parser = "size"
      /\ Items["producer"]["connection"].parser = "address"
      /\ Items["producer"]["connection_buffer_size"].parser = "optional"
      /\ Items["producer"]["measurer"].parser = "address"
      /\ Items["producer"]["cpu"].parser = "cpu"
  BY ProducerTable, Item
<1>5. Len(argv) = 6 /\ argv[1] = t1 /\ argv[2] = t2 /\ argv[3] = t3
      /\ argv[4] = t4 /\ argv[5] = t5 /\ argv[6] = t6
  OBVIOUS
<1>6. r[1] = r1 /\ r[2] = r2 /\ r[3] = r3 /\ r[4] = r4 /\ r[5] = r5 /\ r[6] = r6
  OBVIOUS
<1> HIDE DEF argv, r
<1>7. IsReadable("producer", argv, g, r)
  <2>1. 1 .. Len(argv) = {1, 2, 3, 4, 5, 6} /\ Len(argv) \in Nat
    BY <1>5
  <2>2. DOMAIN Items["producer"] =
         {"chunks_size", "chunks_total_count", "connection", "connection_buffer_size",
          "measurer", "cpu"}
    BY OptionsOf
  <2>3. RequiredOptions("producer") \subseteq
         {"chunks_size", "chunks_total_count", "connection", "connection_buffer_size",
          "measurer", "cpu"}
    BY <2>2 DEF RequiredOptions
  <2>4. ASSUME NEW i \in 1 .. Len(argv)
        PROVE  /\ argv[i].option \in DOMAIN Items["producer"]
               /\ Reads(Items["producer"][argv[i].option].parser, argv[i].text, g, r[i])
    <3>1. i \in {1, 2, 3, 4, 5, 6}
      BY <2>1
    <3>2. argv[i].option \in DOMAIN Items["producer"]
      BY <1>2, <1>5, <2>2, <3>1
    <3>3. Reads(Items["producer"][argv[i].option].parser, argv[i].text, g, r[i])
      BY <1>2, <1>3, <1>4, <1>5, <1>6, <3>1, ZenonT(60)
    <3> QED
      BY <3>2, <3>3
  <2>5. ASSUME NEW i \in 1 .. Len(argv), NEW j \in 1 .. Len(argv),
               argv[i].option = argv[j].option
        PROVE  i = j
    BY <1>2, <1>5, <2>1, <2>5
  <2>6. ASSUME NEW o \in RequiredOptions("producer")
        PROVE  \E i \in 1 .. Len(argv) : argv[i].option = o
    BY <1>2, <1>5, <2>1, <2>3
  <2> QED
    BY <2>1, <2>4, <2>5, <2>6 DEF IsReadable
<1>8. "producer" \in Modes
  BY OptionsOf
<1>9. HasRead("producer", argv, r, a)
  BY <1>1, <1>7, <1>8, ReadableIsRead, Zenon
<1>10. \A i \in 1 .. 6 : a.values[argv[i].option] = r[i]
  BY <1>5, <1>9 DEF HasRead
<1>11. /\ a.values["chunks_size"] = r1
       /\ a.values["chunks_total_count"] = r2
       /\ a.values["connection"] = r3
       /\ a.values["connection_buffer_size"] = r4
       /\ a.values["measurer"] = r5
       /\ a.values["cpu"] = r6
  BY <1>2, <1>5, <1>6, <1>10
<1> QED
  BY <1>9, <1>11 DEF HasRead, r1, r2, r3, r4, r5, r6

-----------------------------------------------------------------------------
(* The children of run_test                                                *)

(* What run_test has parsed when it forks its children                     *)
LEMMA RunTestValues ==
  ASSUME NEW a, IsArguments("run_test", a), a.missing = 0
  PROVE  IsRunTestValues(a.values)
<1>1. "run_test" \in Modes
  BY OptionsOf
<1>2. RequiredOptions("run_test") \subseteq a.parsed
  BY <1>1, NoneIsMissing
<1>3. /\ Items["run_test"]["chunks_size"].parser = "size"
      /\ Items["run_test"]["chunks_total_count"].parser = "size"
      /\ Items["run_test"]["connection_buffer_size"].parser = "size"
      /\ Items["run_test"]["environment_producer_cpu"].parser = "cpu"
      /\ Items["run_test"]["environment_consumer_cpu"].parser = "cpu"
      /\ Items["run_test"]["connection"].parser = "type"
      /\ Items["run_test"]["connection"].required = TRUE
  BY RunTestTable, Item
<1>4. "connection" \in RequiredOptions("run_test")
  BY <1>3, OptionsOf DEF RequiredOptions
<1>5. /\ a.values["chunks_size"] \in SizeT /\ a.values["chunks_total_count"] \in SizeT
      /\ a.values["connection_buffer_size"] \in SizeT
      /\ a.values["environment_producer_cpu"] \in Int32
      /\ a.values["environment_consumer_cpu"] \in Int32
  BY <1>3, OptionsOf DEF IsArguments
<1>6. a.values["connection"] \in Types
  BY <1>2, <1>3, <1>4, OptionsOf DEF IsArguments
<1> QED
  BY <1>5, <1>6 DEF IsRunTestValues

(* The two ends of a connection have the same endpoint, and two            *)
(* connections never do.                                                   *)
LEMMA Endpoints ==
  ASSUME NEW type \in Types, NEW side \in Sides, NEW other \in Sides, NEW end, NEW end2
  PROVE  Endpoint(AddressOf(side, end, type)) = Endpoint(AddressOf(other, end2, type))
           <=> side = other
<1> DEFINE e(s) == IF type = "kNetSocket" THEN [port |-> PortOf[s]] ELSE [name |-> NameOf[s]]
<1>1. ASSUME NEW s, NEW x PROVE Endpoint(AddressOf(s, x, type)) = e(s)
  <2> DEFINE a == AddressOf(s, x, type)
  <2>1. a.type = type /\ a.id = ConnectionId(s, x, type)
    BY DEF AddressOf
  <2> HIDE DEF a
  <2>2. CASE type = "kNetSocket"
    <3>1. PICK host : a.id = [host |-> host, port |-> PortOf[s]]
      BY <2>1, <2>2 DEF ConnectionId
    <3>2. a.id.port = PortOf[s]
      BY <3>1
    <3> QED
      BY <2>1, <2>2, <3>2 DEF Endpoint, a
  <2>3. CASE type # "kNetSocket"
    BY <2>1, <2>3 DEF Endpoint, ConnectionId, a
  <2> QED
    BY <2>2, <2>3
<1>2. e(side) = e(other) => side = other
  <2>1. /\ PortOf["ConsumerProducer"] = 8000 /\ PortOf["MeasurerProducer"] = 8100
        /\ PortOf["MeasurerConsumer"] = 8200
    BY DEF PortOf
  <2>2. /\ NameOf["ConsumerProducer"] = "ipc_checker_connection_id"
        /\ NameOf["MeasurerProducer"] = "ipc_checker_measurer_producer_id"
        /\ NameOf["MeasurerConsumer"] = "ipc_checker_measurer_consumer_id"
    BY DEF NameOf
  <2>3. \A x, y : [port |-> x] = [port |-> y] => x = y
    <3>1. \A x : [port |-> x].port = x
      OBVIOUS
    <3> QED
      BY <3>1, Zenon
  <2>4. \A x, y : [name |-> x] = [name |-> y] => x = y
    <3>1. \A x : [name |-> x].name = x
      OBVIOUS
    <3> QED
      BY <3>1, Zenon
  <2>5. PortOf[side] = PortOf[other] => side = other
    BY <2>1 DEF Sides
  <2>6. NameOf[side] = NameOf[other] => side = other
    BY <2>2 DEF Sides
  <2> QED
    BY <2>3, <2>4, <2>5, <2>6, Zenon
<1> QED
  BY <1>1, <1>2, Zenon

(* The children agree as soon as they have parsed.                         *)
LEMMA ChildrenStart ==
  ASSUME ParseInv, StartChildren
  PROVE  ChildrenAgree'
<1> DEFINE v == args.values
<1>1. PICK g \in Garbage :
        children' = [m \in Modes \ {"run_test"} |->
                       ParseArguments(m, ModesArguments(v)[m], g)]
  BY DEF StartChildren
<1>2. g \in SizeT
  BY GarbageAssumption
<1>3. args' = args
  BY DEF StartChildren
<1>4. IsRunTestValues(v)
  <2>1. status = "running" /\ role = "run_test" /\ role \in Modes
    BY OptionsOf DEF StartChildren
  <2>2. IsArguments("run_test", args) /\ args.missing = 0
    BY <2>1 DEF ParseInv
  <2> QED
    BY <2>2, RunTestValues
<1> DEFINE a == children'["analyzer"]
           c == children'["consumer"]
           p == children'["producer"]
           t == v.connection
<1>5. /\ a = ParseArguments("analyzer", ModesArguments(v)["analyzer"], g)
      /\ c = ParseArguments("consumer", ModesArguments(v)["consumer"], g)
      /\ p = ParseArguments("producer", ModesArguments(v)["producer"], g)
  BY <1>1, OptionsOf
<1>6. DOMAIN children' = {"analyzer", "consumer", "producer"}
  BY <1>1, OptionsOf
<1>7. v.connection \in Types
  BY <1>4 DEF IsRunTestValues
<1> HIDE DEF a, c, p, v
<1>8. /\ ~a.thrown /\ a.missing = 0
      /\ a.values.chunks_total_count = v.chunks_total_count
      /\ a.values.measurer_producer = AddressOf("MeasurerProducer", "Server", t)
      /\ a.values.measurer_consumer = AddressOf("MeasurerConsumer", "Server", t)
  BY <1>2, <1>4, <1>5, AnalyzerReads, Zenon
<1>9. /\ ~c.thrown /\ c.missing = 0
      /\ c.values.chunks_total_count = v.chunks_total_count
      /\ c.values.connection = AddressOf("ConsumerProducer", "Server", t)
      /\ c.values.connection_buffer_size = v.connection_buffer_size
      /\ c.values.measurer = AddressOf("MeasurerConsumer", "Client", t)
      /\ c.values.cpu = v.environment_consumer_cpu
  BY <1>2, <1>4, <1>5, ConsumerReads, ZenonT(60)
<1>10. /\ ~p.thrown /\ p.missing = 0
       /\ p.values.chunks_size = v.chunks_size
       /\ p.values.chunks_total_count = v.chunks_total_count
       /\ p.values.connection = AddressOf("ConsumerProducer", "Client", t)
       /\ p.values.connection_buffer_size = v.connection_buffer_size
       /\ p.values.measurer = AddressOf("MeasurerProducer", "Client", t)
       /\ p.values.cpu = v.environment_producer_cpu
  BY <1>2, <1>4, <1>5, ProducerReads
<1> HIDE DEF t
<1>11. t \in Types /\ t = v.connection
  BY <1>7 DEF t
<1>12. \A side, end : AddressOf(side, end, t).type = t
  BY DEF AddressOf
<1>13. \A side \in Sides : Meet(AddressOf(side, "Server", t), AddressOf(side, "Client", t))
  <2>1. ASSUME NEW side \in Sides
        PROVE  Endpoint(AddressOf(side, "Server", t)) = Endpoint(AddressOf(side, "Client", t))
    BY <1>11, Endpoints
  <2> QED
    BY <1>12, <2>1 DEF Meet
<1>14. "MeasurerProducer" \in Sides /\ "MeasurerConsumer" \in Sides
       /\ "ConsumerProducer" \in Sides
  BY DEF Sides
<1> DEFINE servers == <<a.values.measurer_producer, a.values.measurer_consumer,
                        c.values.connection>>
           sides == <<"MeasurerProducer", "MeasurerConsumer", "ConsumerProducer">>
<1>15. \A i \in 1 .. 3 : sides[i] \in Sides /\ servers[i] = AddressOf(sides[i], "Server", t)
  BY <1>8, <1>9, <1>14
<1>16. \A i, j \in 1 .. 3 : sides[i] = sides[j] => i = j
  OBVIOUS
<1> HIDE DEF servers, sides
<1>17. \A i, j \in 1 .. 3 : Endpoint(servers[i]) = Endpoint(servers[j]) => i = j
  <2> SUFFICES ASSUME NEW i \in 1 .. 3, NEW j \in 1 .. 3,
                      Endpoint(servers[i]) = Endpoint(servers[j])
               PROVE  i = j
    OBVIOUS
  <2>1. Endpoint(AddressOf(sides[i], "Server", t)) = Endpoint(AddressOf(sides[j], "Server", t))
    BY <1>15
  <2>2. sides[i] = sides[j]
    BY <1>11, <1>15, <2>1, Endpoints
  <2> QED
    BY <1>16, <2>2
<1>18. \A i \in 1 .. 3 : servers[i].type = t
  BY <1>12, <1>15, Zenon
<1>19. /\ Meet(a.values.measurer_producer, p.values.measurer)
       /\ Meet(a.values.measurer_consumer, c.values.measurer)
       /\ Meet(c.values.connection, p.values.connection)
  BY <1>8, <1>9, <1>10, <1>13, <1>14, Zenon
<1>20. {a.values.chunks_total_count, c.values.chunks_total_count, p.values.chunks_total_count}
         = {v.chunks_total_count}
  BY <1>8, <1>9, <1>10
<1>21. {c.values.connection_buffer_size, p.values.connection_buffer_size}
         = {v.connection_buffer_size}
  BY <1>9, <1>10
<1>22. \A m \in DOMAIN children' :
         ~children'[m].thrown /\ ~HasNotParsedRequiredArguments(children'[m])
  BY <1>6, <1>8, <1>9, <1>10 DEF HasNotParsedRequiredArguments, a, c, p
<1> QED
  BY <1>3, <1>9, <1>10, <1>11, <1>17, <1>18, <1>19, <1>20, <1>21, <1>22, Zenon
  DEF ChildrenAgree, servers, a, c, p, v

-----------------------------------------------------------------------------
(* The messages                                                            *)

(* The alphabet, over and over, from the position h on                     *)
Round(a, len, h) == [k \in 1 .. len |-> (h + k - 1) % a]

(* The elements of two sequences in a row                                  *)
LEMMA ConcatAt ==
  ASSUME NEW s \in Seq(Int), NEW t \in Seq(Int)
  PROVE  /\ s \o t \in Seq(Int) /\ Len(s \o t) = Len(s) + Len(t)
         /\ \A i \in 1 .. Len(s \o t) :
              (s \o t)[i] = IF i <= Len(s) THEN s[i] ELSE t[i - Len(s)]
OBVIOUS

(* How to recognize two sequences in a row                                 *)
LEMMA ConcatIs ==
  ASSUME NEW p \in Seq(Int), NEW t \in Seq(Int), NEW z \in Seq(Int), Len(z) = Len(p) + Len(t),
         \A k \in 1 .. Len(p) : z[k] = p[k], \A k \in 1 .. Len(t) : z[Len(p) + k] = t[k]
  PROVE  p \o t = z
<1>1. p \o t \in Seq(Int) /\ Len(p \o t) = Len(z)
  OBVIOUS
<1>2. ASSUME NEW k \in 1 .. Len(z) PROVE (p \o t)[k] = z[k]
  <2>1. CASE k \in 1 .. Len(p)
    BY <2>1
  <2>2. CASE k \notin 1 .. Len(p)
    <3>0. k - Len(p) \in 1 .. Len(t) /\ k \in Len(p) + 1 .. Len(p) + Len(t)
      BY <2>2
    <3>1. (p \o t)[k] = t[k - Len(p)]
      <4>1. k \in 1 .. Len(p \o t) /\ ~(k <= Len(p))
        BY <1>1, <3>0
      <4> QED
        BY <4>1, ConcatAt, Zenon
    <3>2. z[Len(p) + (k - Len(p))] = t[k - Len(p)]
      BY <3>0, Zenon
    <3>3. Len(p) + (k - Len(p)) = k
      BY <3>0
    <3> QED
      BY <3>1, <3>2, <3>3, Zenon
  <2> QED
    BY <2>1, <2>2
<1> QED
  BY <1>1, <1>2, SMTT(30)

(* One pass of the while loop                                              *)
IsPiece(a, len, h, idx, count) ==
  /\ count \in 1 .. len
  /\ [k \in 1 .. count |-> idx + k - 1] \o Round(a, len - count, h + count)
       = Round(a, len, h)

(* A piece of the alphabet, up to its end or to the end of the message,    *)
(* and behind it the alphabet from there on                                *)
LEMMA OnePiece ==
  ASSUME NEW a \in Nat \ {0}, NEW len \in Nat \ {0}, NEW h \in Nat, NEW idx, idx = h % a,
         NEW count, count = IF a - idx < len THEN a - idx ELSE len
  PROVE  IsPiece(a, len, h, idx, count)
<1>1. PICK q \in Nat, r \in 0 .. a - 1 : q = h \div a /\ r = h % a /\ h = a * q + r
  BY Division
<1>2. idx = r
  BY <1>1
<1>3. count \in 1 .. len /\ idx + count <= a
  BY <1>2
<1>4. ASSUME NEW k \in 1 .. count
      PROVE  (h + k - 1) % a = idx + k - 1
  <2> DEFINE s == idx + k - 1
             x == h + k - 1
  <2>1. s \in 0 .. a - 1 /\ x \in Int
    BY <1>2, <1>3
  <2>2. x = a * q + s
    <3>1. a * q \in Int
      OBVIOUS
    <3> QED
      BY <1>1, <1>2, <1>3, <3>1
  <2> HIDE DEF s, x
  <2>3. x % a = s
    BY <2>1, <2>2, DivModUnique
  <2> QED
    BY <2>3 DEF s, x
<1> DEFINE p == [k \in 1 .. count |-> idx + k - 1]
           t == Round(a, len - count, h + count)
           z == Round(a, len, h)
<1>5. p \in Seq(Int) /\ Len(p) = count
  BY <1>2, <1>3
<1>6. t \in Seq(Int) /\ Len(t) = len - count
  <2>1. \A k \in 1 .. len - count : ((h + count) + k - 1) % a \in Int
    BY <1>3
  <2> QED
    BY <1>3, <2>1, SMTT(30) DEF Round
<1>7. z \in Seq(Int) /\ Len(z) = len
  <2>1. \A k \in 1 .. len : (h + k - 1) % a \in Int
    OBVIOUS
  <2> QED
    BY <2>1 DEF Round
<1>8. \A k \in 1 .. count : p[k] = (h + k - 1) % a
  BY <1>4
<1>9. \A k \in 1 .. len - count : t[k] = ((h + count) + k - 1) % a
  BY DEF Round
<1>10. \A k \in 1 .. len : z[k] = (h + k - 1) % a
  BY DEF Round
<1> HIDE DEF p, t, z
<1>11. Len(z) = Len(p) + Len(t)
  BY <1>3, <1>5, <1>6, <1>7
<1>12. \A k \in 1 .. Len(p) : z[k] = p[k]
  BY <1>3, <1>5, <1>8, <1>10
<1>13. ASSUME NEW k \in 1 .. Len(t) PROVE z[Len(p) + k] = t[k]
  <2>1. k \in 1 .. len - count /\ count + k \in 1 .. len
        /\ (h + count) + k - 1 = h + (count + k) - 1
    BY <1>3, <1>6
  <2>2. t[k] = ((h + count) + k - 1) % a /\ z[count + k] = (h + (count + k) - 1) % a
    BY <1>9, <1>10, <2>1
  <2> QED
    BY <1>5, <2>1, <2>2, Zenon
<1>14. p \o t = z
  BY <1>5, <1>6, <1>7, <1>11, <1>12, <1>13, ConcatIs
<1> QED
  BY <1>3, <1>14 DEF p, t, z, IsPiece

(* The recursive definition of Message                                     *)
Pieces(a, f, len, g) ==
  IF len = 0 THEN <<>>
  ELSE LET idx == g % a
           count == IF a - idx < len THEN a - idx ELSE len
       IN  [k \in 1 .. count |-> idx + k - 1] \o f[len - count][g + count]

IsFill(f, n, a) == f = [len \in 0 .. n |-> [g \in Nat |-> Pieces(a, f, len, g)]]

(* The loop goes on with the alphabet if it did so for shorter messages.   *)
LEMMA PiecesAreRound ==
  ASSUME NEW a \in Nat \ {0}, NEW len \in Nat, NEW g \in Nat, NEW f,
         \A m \in 0 .. len - 1 : \A h \in Nat : f[m][h] = Round(a, m, h)
  PROVE  Pieces(a, f, len, g) = Round(a, len, g)
<1>1. CASE len = 0
  <2>1. Round(a, 0, g) = <<>>
    BY DEF Round
  <2> QED
    BY <1>1, <2>1 DEF Pieces
<1>2. CASE len # 0
  <2> DEFINE idx == g % a
             count == IF a - idx < len THEN a - idx ELSE len
  <2>0. idx = g % a /\ count = IF a - idx < len THEN a - idx ELSE len
    OBVIOUS
  <2>1. Pieces(a, f, len, g) = [k \in 1 .. count |-> idx + k - 1] \o f[len - count][g + count]
    BY <1>2, Zenon DEF Pieces
  <2> HIDE DEF idx, count
  <2>2. IsPiece(a, len, g, idx, count)
    <3>1. len \in Nat \ {0}
      BY <1>2
    <3> QED
      BY <2>0, <3>1, OnePiece, Zenon
  <2>3. f[len - count][g + count] = Round(a, len - count, g + count)
    BY <2>2 DEF IsPiece
  <2> QED
    BY <2>1, <2>2, <2>3, Zenon DEF IsPiece
<1> QED
  BY <1>1, <1>2

(* There is a function that Message can be defined by, ...                 *)
LEMMA FillExists ==
  ASSUME NEW a \in Nat \ {0}, NEW n \in Nat
  PROVE  \E f : IsFill(f, n, a)
<1> DEFINE f == [len \in 0 .. n |-> [g \in Nat |-> Round(a, len, g)]]
<1>1. \A m \in 0 .. n : \A h \in Nat : f[m][h] = Round(a, m, h)
  OBVIOUS
<1> HIDE DEF f
<1>2. ASSUME NEW len \in 0 .. n, NEW g \in Nat
      PROVE  Pieces(a, f, len, g) = Round(a, len, g)
  <2>1. len \in Nat /\ \A m \in 0 .. len - 1 : \A h \in Nat : f[m][h] = Round(a, m, h)
    BY <1>1
  <2> QED
    BY <2>1, PiecesAreRound, ZenonT(60)
<1>3. IsFill(f, n, a)
  BY <1>2 DEF f, IsFill
<1> QED
  BY <1>3

(* ... and it repeats the alphabet.                                        *)
LEMMA FillIsRound ==
  ASSUME NEW a \in Nat \ {0}, NEW n \in Nat, NEW f, IsFill(f, n, a)
  PROVE  \A len \in 0 .. n : \A g \in Nat : f[len][g] = Round(a, len, g)
<1> DEFINE S == {len \in Nat : len <= n => \A g \in Nat : f[len][g] = Round(a, len, g)}
<1>1. ASSUME NEW len \in Nat, \A m \in 0 .. len - 1 : m \in S
      PROVE  len \in S
  <2> SUFFICES ASSUME len <= n, NEW g \in Nat PROVE f[len][g] = Round(a, len, g)
    OBVIOUS
  <2>1. f[len][g] = Pieces(a, f, len, g)
    <3> DEFINE P(x, y) == Pieces(a, f, x, y)
    <3>1. f = [x \in 0 .. n |-> [y \in Nat |-> P(x, y)]]
      BY Zenon DEF IsFill
    <3> HIDE DEF P
    <3>2. f[len][g] = P(len, g)
      BY <3>1
    <3> QED
      BY <3>2 DEF P
  <2>2. \A m \in 0 .. len - 1 : \A h \in Nat : f[m][h] = Round(a, m, h)
    BY <1>1
  <2> QED
    BY <2>1, <2>2, PiecesAreRound
<1> HIDE DEF S
<1>2. \A len \in Nat : len \in S
  BY <1>1, StrongSetInduction
<1> QED
  BY <1>2 DEF S

(* The alphabet of a message is never empty.                               *)
LEMMA AlphabetSizeType ==
  ASSUME NEW n \in Nat
  PROVE  AlphabetSize(n) \in Nat \ {0} /\ AlphabetSize(n) <= kAlphabetSize
BY AlphabetAssumption DEF AlphabetSize

(* A message is the alphabet, over and over.                               *)
LEMMA MessageIsRound ==
  ASSUME NEW n \in Nat, NEW g \in Nat
  PROVE  Message(n, g) = Round(AlphabetSize(n), n, g)
<1> DEFINE a == AlphabetSize(n)
           f == CHOOSE f : IsFill(f, n, a)
<1>1. a \in Nat \ {0}
  BY AlphabetSizeType
<1>2. Message(n, g) = f[n][g]
  BY Zenon DEF Message, IsFill, Pieces
<1> HIDE DEF a
<1>3. \E h : IsFill(h, n, a)
  BY <1>1, FillExists
<1>4. IsFill(f, n, a)
  BY <1>3, Zenon
<1> HIDE DEF f
<1>5. f[n][g] = Round(a, n, g)
  BY <1>1, <1>4, FillIsRound
<1> QED
  BY <1>2, <1>5 DEF a

(* The characters and the size of a message                                *)
LEMMA RoundType ==
  ASSUME NEW a \in Nat \ {0}, a <= kAlphabetSize, NEW n \in Nat, NEW g \in Nat
  PROVE  /\ Round(a, n, g) \in Seq(0 .. kAlphabetSize - 1) /\ Len(Round(a, n, g)) = n
         /\ \A k \in 1 .. n : Round(a, n, g)[k] = (g + k - 1) % a
<1>1. \A k \in 1 .. n : (g + k - 1) % a \in 0 .. kAlphabetSize - 1
  BY AlphabetAssumption
<1> QED
  BY <1>1 DEF Round

-----------------------------------------------------------------------------
(* When two messages in a row are alike                                    *)

(* The divisor is at most once in a number: n is a multiple of a when      *)
(* moving on by n characters leads to the same one.                        *)
LEMMA SameRest ==
  ASSUME NEW a \in Nat \ {0}, NEW n \in Nat, NEW g \in Nat
  PROVE  (g + n) % a = g % a <=> n % a = 0
<1>1. PICK q \in Nat, r \in 0 .. a - 1 : q = g \div a /\ r = g % a /\ g = a * q + r
  BY Division
<1>2. PICK p \in Nat, s \in 0 .. a - 1 : p = n \div a /\ s = n % a /\ n = a * p + s
  BY Division
<1>3. /\ a * q \in Int /\ a * p \in Int
      /\ a * (q + p) = a * q + a * p /\ a * (q + p + 1) = a * q + a * p + a
  OBVIOUS
<1>4. CASE r + s < a
  <2>1. r + s \in 0 .. a - 1 /\ g + n \in Int /\ q + p \in Int
    BY <1>4
  <2>2. g + n = a * (q + p) + (r + s)
    BY <1>1, <1>2, <1>3
  <2>3. (g + n) % a = r + s
    <3> DEFINE x == g + n
               y == q + p
               z == r + s
    <3>1. z \in 0 .. a - 1 /\ x \in Int /\ y \in Int /\ x = a * y + z
      BY <2>1, <2>2, Zenon
    <3> HIDE DEF x, y, z
    <3>2. x % a = z
      BY <3>1, DivModUnique
    <3> QED
      BY <3>2 DEF x, z
  <2>4. r + s = r <=> s = 0
    OBVIOUS
  <2> QED
    BY <1>1, <1>2, <2>3, <2>4, Zenon
<1>5. CASE r + s >= a
  <2>1. r + s - a \in 0 .. a - 1 /\ g + n \in Int /\ q + p + 1 \in Int
    BY <1>5
  <2>2. g + n = a * (q + p + 1) + (r + s - a)
    BY <1>1, <1>2, <1>3
  <2>3. (g + n) % a = r + s - a
    <3> DEFINE x == g + n
               y == q + p + 1
               z == r + s - a
    <3>1. z \in 0 .. a - 1 /\ x \in Int /\ y \in Int /\ x = a * y + z
      BY <2>1, <2>2, Zenon
    <3> HIDE DEF x, y, z
    <3>2. x % a = z
      BY <3>1, DivModUnique
    <3> QED
      BY <3>2 DEF x, z
  <2>4. r + s - a # r /\ s # 0
    BY <1>5
  <2> QED
    BY <1>1, <1>2, <2>3, <2>4, Zenon
<1> QED
  BY <1>4, <1>5

(* A multiple of K and of K - 1 is one of their product.                   *)
LEMMA MultipleOfBoth ==
  ASSUME NEW K \in Nat, K > 2, NEW n \in Nat
  PROVE  n % (K * (K - 1)) = 0 <=> n % K = 0 /\ n % (K - 1) = 0
<1> DEFINE J == K - 1
           L == K * J
<1>0. J \in Nat \ {0} /\ K \in Nat \ {0} /\ K = J + 1
  OBVIOUS
<1> HIDE DEF J
<1>1. L \in Nat \ {0}
  BY <1>0, DivDiv
<1>2. ASSUME n % K = 0, n % J = 0 PROVE n % L = 0
  <2>1. PICK x \in Nat, r \in 0 .. K - 1 : x = n \div K /\ r = n % K /\ n = K * x + r
    BY <1>0, Division
  <2>2. PICK y \in Nat, s \in 0 .. J - 1 : y = n \div J /\ s = n % J /\ n = J * y + s
    BY <1>0, Division
  <2>3. r = 0 /\ s = 0 /\ K * x \in Int /\ J * y \in Int /\ J * x \in Int
    BY <1>0, <1>2, <2>1, <2>2
  <2>4. n = K * x /\ n = J * y
    BY <2>1, <2>2, <2>3
  <2>5. K * x = J * x + x
    BY <1>0
  <2>6. J * (y - x) = J * y - J * x
    BY <1>0
  <2>7. x = J * (y - x)
    BY <2>3, <2>4, <2>5, <2>6
  <2>8. n = K * (J * (y - x))
    BY <2>4, <2>7, Zenon
  <2>9. K * (J * (y - x)) = L * (y - x)
    BY <1>0
  <2> HIDE DEF L
  <2>10. n = L * (y - x) + 0 /\ y - x \in Int /\ n \in Int /\ 0 \in 0 .. L - 1
    <3>1. L * (y - x) \in Int
      BY <1>1
    <3> QED
      BY <1>1, <2>8, <2>9, <3>1
  <2> QED
    BY <1>1, <2>10, DivModUnique
<1>3. ASSUME n % L = 0 PROVE n % K = 0 /\ n % J = 0
  <2> HIDE DEF L
  <2>1. PICK x \in Nat, r \in 0 .. L - 1 : x = n \div L /\ r = n % L /\ n = L * x + r
    BY <1>1, Division
  <2>2. L * x \in Int /\ r = 0
    BY <1>1, <1>3, <2>1
  <2>3. n = L * x
    BY <2>1, <2>2
  <2>4. L * x = K * (J * x) /\ L * x = J * (K * x)
    BY <1>0 DEF L
  <2>5. J * x \in Int /\ K * x \in Int
    BY <1>0
  <2>6. n % K = 0
    <3>1. n = K * (J * x) + 0 /\ 0 \in 0 .. K - 1 /\ n \in Int
      BY <2>2, <2>3, <2>4
    <3> QED
      BY <1>0, <2>5, <3>1, DivModUnique
  <2>7. n % J = 0
    <3>1. n = J * (K * x) + 0 /\ 0 \in 0 .. J - 1 /\ n \in Int
      BY <1>0, <2>2, <2>3, <2>4
    <3> QED
      BY <1>0, <2>5, <3>1, DivModUnique
  <2> QED
    BY <2>6, <2>7
<1> QED
  BY <1>2, <1>3 DEF J

(* A message and the one that continues it                                 *)
LEMMA NextMessage ==
  ASSUME NEW n \in Nat, NEW g \in Nat
  PROVE  Message(n, g) = Message(n, g + n) <=> n % (kAlphabetSize * (kAlphabetSize - 1)) = 0
<1> DEFINE a == AlphabetSize(n)
           K == kAlphabetSize
<1>1. a \in Nat \ {0} /\ a <= K
  BY AlphabetSizeType
<1>2. a = IF n % K # 0 THEN K ELSE K - 1
  BY DEF AlphabetSize
<1>3. Message(n, g) = Round(a, n, g) /\ Message(n, g + n) = Round(a, n, g + n)
  BY MessageIsRound
<1> HIDE DEF a
<1>4. K \in Nat /\ K > 2
  BY AlphabetAssumption
<1>5. n % a = 0 <=> n % (K * (K - 1)) = 0
  <2>1. n % (K * (K - 1)) = 0 <=> n % K = 0 /\ n % (K - 1) = 0
    BY <1>4, MultipleOfBoth
  <2> QED
    BY <1>2, <2>1, Zenon
<1> HIDE DEF K
<1>6. Round(a, n, g) = Round(a, n, g + n) <=> n % a = 0
  <2>1. ASSUME n % a = 0 PROVE Round(a, n, g) = Round(a, n, g + n)
    <3>1. ASSUME NEW k \in 1 .. n PROVE (g + k - 1) % a = ((g + n) + k - 1) % a
      <4>1. g + k - 1 \in Nat /\ (g + n) + k - 1 = (g + k - 1) + n
        OBVIOUS
      <4>2. ((g + k - 1) + n) % a = (g + k - 1) % a
        BY <1>1, <2>1, <4>1, SameRest
      <4> QED
        BY <4>1, <4>2
    <3> QED
      BY <3>1 DEF Round
  <2>2. ASSUME Round(a, n, g) = Round(a, n, g + n) PROVE n % a = 0
    <3>1. CASE n = 0
      <4>1. 0 \in 0 .. a - 1
        BY <1>1
      <4> QED
        BY <1>1, <3>1, <4>1, ModSmall
    <3>2. CASE n # 0
      <4>1. Round(a, n, g)[1] = (g + 1 - 1) % a /\ Round(a, n, g + n)[1] = ((g + n) + 1 - 1) % a
        BY <3>2 DEF Round
      <4>2. g + 1 - 1 = g /\ (g + n) + 1 - 1 = g + n
        OBVIOUS
      <4>3. (g + n) % a = g % a
        BY <2>2, <4>1, <4>2
      <4> QED
        BY <1>1, <4>3, SameRest
    <3> QED
      BY <3>1, <3>2
  <2> QED
    BY <2>1, <2>2
<1> QED
  BY <1>3, <1>5, <1>6, Zenon DEF K

-----------------------------------------------------------------------------
(* The inductive invariant                                                 *)

(* The messages are the alphabet, over and over, from the first to the     *)
(* last.                                                                   *)
MessageInv ==
  /\ ~IsProducer => _msgs = <<>> /\ alphabet_global_idx = 0
  /\ IsProducer =>
       /\ ProducerArguments.chunks_size \in SizeT
       /\ _msgs \in Seq(Seq(0 .. kAlphabetSize - 1))
       /\ alphabet_global_idx = Len(_msgs) * ProducerArguments.chunks_size
       /\ \A i \in 1 .. Len(_msgs) :
            _msgs[i] = Message(ProducerArguments.chunks_size,
                               (i - 1) * ProducerArguments.chunks_size)

IInv == ParseInv /\ ChildrenAgree /\ MessageInv

(* The size that a producer has parsed, or not, is a size.                 *)
LEMMA ProducerValues ==
  ASSUME NEW a, IsArguments("producer", a)
  PROVE  a.values.chunks_size \in SizeT
<1>1. Items["producer"]["chunks_size"].parser = "size"
  BY ProducerTable, Item
<1>2. a.values["chunks_size"] \in SizeT
  BY <1>1, OptionsOf DEF IsArguments
<1> QED
  BY <1>2

(* Every step keeps the agreement of the children.                         *)
LEMMA ChildrenNext ==
  ASSUME ParseInv, ChildrenAgree, [Next]_vars
  PROVE  ChildrenAgree'
<1>1. CASE StartChildren
  BY <1>1, ChildrenStart
<1>2. CASE ~StartChildren /\ children = None
  <2>1. children' = children
    BY <1>2 DEF Next, vars, Main, ParseOption, UnknownOption, End, Start, Generate
  <2> QED
    BY <1>2, <2>1 DEF ChildrenAgree
<1>3. CASE ~StartChildren /\ children # None
  <2>1. status = "working"
    BY <1>3 DEF ParseInv
  <2>2. children' = children /\ args' = args
    BY <1>3, <2>1 DEF Next, vars, Main, ParseOption, UnknownOption, End, Start, Generate
  <2> QED
    BY <2>2 DEF ChildrenAgree
<1> QED
  BY <1>1, <1>2, <1>3

(* No messages yet: all that is needed is the size of the first one.       *)
LEMMA FirstMessages ==
  ASSUME _msgs' = <<>>, alphabet_global_idx' = 0, ParseInv', ChildrenAgree'
  PROVE  MessageInv'
<1>1. ASSUME IsProducer' PROVE (ProducerArguments.chunks_size \in SizeT)'
  <2>1. CASE role' = "producer"
    <3>1. status' = "working" /\ role' \in Modes
      BY <1>1, <2>1 DEF IsProducer, ParseInv
    <3>2. IsArguments("producer", args')
      BY <2>1, <3>1 DEF ParseInv
    <3>3. args'.values.chunks_size \in SizeT
      BY <3>2, ProducerValues
    <3> QED
      BY <2>1, <3>3 DEF ProducerArguments
  <2>2. CASE role' # "producer"
    <3>1. children' # None /\ role' = "run_test" /\ status' = "working" /\ role' \in Modes
      BY <1>1, <2>2 DEF IsProducer, ParseInv
    <3>2. IsArguments("run_test", args') /\ args'.missing = 0
      BY <3>1 DEF ParseInv
    <3>3. args'.values.chunks_size \in SizeT
      BY <3>2, RunTestValues DEF IsRunTestValues
    <3>4. children'.producer.values.chunks_size = args'.values.chunks_size
      BY <3>1 DEF ChildrenAgree
    <3> QED
      BY <2>2, <3>3, <3>4 DEF ProducerArguments
  <2> QED
    BY <2>1, <2>2
<1> DEFINE n == ProducerArguments.chunks_size
<1>2. IsProducer' => n' \in SizeT
  BY <1>1
<1>3. _msgs' \in Seq(Seq(0 .. kAlphabetSize - 1)) /\ Len(_msgs') = 0 /\ 1 .. Len(_msgs') = {}
  OBVIOUS
<1> HIDE DEF n
<1>4. IsProducer' => alphabet_global_idx' = Len(_msgs') * n'
  BY <1>2, <1>3 DEF SizeT
<1> QED
  BY <1>2, <1>3, <1>4 DEF MessageInv, n

(* One more message                                                        *)
LEMMA GenerateStep ==
  ASSUME MessageInv, Generate
  PROVE  MessageInv'
<1> DEFINE n == ProducerArguments.chunks_size
           g == alphabet_global_idx
           m == _msgs
           l == Len(_msgs)
<1>1. /\ IsProducer /\ m' = Append(m, Message(n, g)) /\ g' = g + n
      /\ UNCHANGED <<role, args, status, children>>
  BY DEF Generate
<1>2. IsProducer' /\ n' = n
  BY <1>1 DEF IsProducer, ProducerArguments
<1>3. /\ n \in SizeT /\ m \in Seq(Seq(0 .. kAlphabetSize - 1)) /\ g = l * n
      /\ \A i \in 1 .. l : m[i] = Message(n, (i - 1) * n)
  BY <1>1 DEF MessageInv
<1> HIDE DEF n
<1>4. n \in Nat /\ l \in Nat /\ g \in Nat
  <2>1. n \in Nat /\ l \in Nat
    BY <1>3, WidthAssumption DEF SizeT
  <2>2. \A x, y \in Nat : x * y \in Nat
    OBVIOUS
  <2> QED
    BY <1>3, <2>1, <2>2, Zenon
<1>5. Message(n, g) \in Seq(0 .. kAlphabetSize - 1)
  <2>1. AlphabetSize(n) \in Nat \ {0} /\ AlphabetSize(n) <= kAlphabetSize
    BY <1>4, AlphabetSizeType
  <2>2. Message(n, g) = Round(AlphabetSize(n), n, g)
    BY <1>4, MessageIsRound
  <2> QED
    BY <1>4, <2>1, <2>2, RoundType
<1>6. m' \in Seq(Seq(0 .. kAlphabetSize - 1)) /\ Len(m') = l + 1
  BY <1>1, <1>3, <1>5
<1>7. g' = Len(m') * n
  <2>1. (l + 1) * n = l * n + n
    BY <1>4
  <2> QED
    BY <1>1, <1>3, <1>6, <2>1
<1>8. ASSUME NEW i \in 1 .. Len(m') PROVE m'[i] = Message(n, (i - 1) * n)
  <2>1. CASE i \in 1 .. l
    <3>1. m'[i] = m[i]
      BY <1>1, <1>3, <1>5, <2>1
    <3> QED
      BY <1>3, <2>1, <3>1
  <2>2. CASE i = l + 1
    <3>1. m'[i] = Message(n, g)
      BY <1>1, <1>3, <1>5, <2>2
    <3>2. i - 1 = l
      BY <1>4, <2>2
    <3> QED
      BY <1>3, <3>1, <3>2, Zenon
  <2> QED
    BY <1>4, <1>6, <2>1, <2>2
<1> QED
  BY <1>2, <1>3, <1>6, <1>7, <1>8 DEF MessageInv, n

(* Every step keeps the invariant of the messages.                         *)
LEMMA MessageNext ==
  ASSUME IInv, [Next]_vars, ParseInv', ChildrenAgree'
  PROVE  MessageInv'
<1>1. CASE Generate
  BY <1>1, GenerateStep DEF IInv
<1>2. CASE ~Generate /\ IsProducer
  <2>1. status = "working"
    BY <1>2 DEF IInv, ParseInv, IsProducer
  <2>2. UNCHANGED vars
    BY <1>2, <2>1 DEF Next, Main, ParseOption, UnknownOption, End, Start, StartChildren
  <2> QED
    BY <2>2 DEF IInv, MessageInv, IsProducer, ProducerArguments, vars
<1>3. CASE ~Generate /\ ~IsProducer
  <2>1. _msgs = <<>> /\ alphabet_global_idx = 0
    BY <1>3 DEF IInv, MessageInv
  <2>2. UNCHANGED <<_msgs, alphabet_global_idx>>
    BY <1>3 DEF Next, vars, Main, ParseOption, UnknownOption, End, Start, StartChildren
  <2> QED
    BY <2>1, <2>2, FirstMessages
<1> QED
  BY <1>1, <1>2, <1>3

(* The invariant holds in the beginning, ...                               *)
LEMMA InvInit == Init => IInv
<1> SUFFICES ASSUME Init PROVE IInv
  OBVIOUS
<1>1. ParseInv
  BY ParseInvInit
<1>2. ChildrenAgree
  BY DEF Init, ChildrenAgree
<1>3. MessageInv
  BY DEF Init, MessageInv, IsProducer
<1> QED
  BY <1>1, <1>2, <1>3 DEF IInv

(* ... and every step keeps it.                                            *)
LEMMA InvNext == IInv /\ [Next]_vars => IInv'
<1> SUFFICES ASSUME IInv, [Next]_vars PROVE IInv'
  OBVIOUS
<1>1. ParseInv /\ ChildrenAgree
  BY DEF IInv
<1>2. ParseInv'
  BY <1>1, ParseInvNext
<1>3. ChildrenAgree'
  BY <1>1, ChildrenNext
<1>4. MessageInv'
  BY <1>2, <1>3, MessageNext
<1> QED
  BY <1>2, <1>3, <1>4 DEF IInv

(* The types follow, ...                                                   *)
LEMMA TypeFromInv ==
  ASSUME IInv
  PROVE  TypeOK
<1>1. /\ role \in Roles /\ garbage \in Garbage
      /\ status \in {"main", "parsing", "usage", "thrown", "TooFew", "running", "working"}
  BY DEF IInv, ParseInv
<1>2. ASSUME args # None
      PROVE  /\ args.missing \in 0 .. Cardinality(RequiredOptions(role))
             /\ args.parsed \subseteq given /\ given \subseteq DOMAIN Items[role]
             /\ \A o \in DOMAIN Items[role] :
                  CASE Items[role][o].parser = "size" -> args.values[o] \in SizeT
                    [] Items[role][o].parser = "cpu"  -> args.values[o] \in Int32
                    [] OTHER                          -> TRUE
  <2>1. role \in Modes /\ IsArguments(role, args)
        /\ args.parsed \subseteq given /\ given \subseteq DOMAIN Items[role]
    BY <1>2 DEF IInv, ParseInv
  <2>2. args.missing \in 0 .. Cardinality(RequiredOptions(role))
    BY <2>1, NoneIsMissing
  <2>3. ASSUME NEW o \in DOMAIN Items[role]
        PROVE  CASE Items[role][o].parser = "size" -> args.values[o] \in SizeT
                 [] Items[role][o].parser = "cpu"  -> args.values[o] \in Int32
                 [] OTHER                          -> TRUE
    BY <2>1 DEF IsArguments
  <2> QED
    BY <2>1, <2>2, <2>3
<1>3. \A i \in 1 .. Len(_msgs) : _msgs[i] \in Seq(0 .. kAlphabetSize - 1)
  <2>1. _msgs \in Seq(Seq(0 .. kAlphabetSize - 1))
    <3>1. <<>> \in Seq(Seq(0 .. kAlphabetSize - 1))
      OBVIOUS
    <3> QED
      BY <3>1, Zenon DEF IInv, MessageInv
  <2> QED
    BY <2>1
<1> QED
  BY <1>1, <1>2, <1>3 DEF TypeOK

(* ... and so does what is said of the messages.                           *)
LEMMA MessagesFromInv ==
  ASSUME IInv
  PROVE  MessagesDiffer
<1>1. CASE ~IsProducer
  <2>1. _msgs = <<>>
    BY <1>1 DEF IInv, MessageInv
  <2>2. 1 .. Len(_msgs) = {} /\ 1 .. Len(_msgs) - 1 = {}
    BY <2>1
  <2> QED
    BY <2>2 DEF MessagesDiffer
<1>2. CASE IsProducer
  <2> DEFINE n == ProducerArguments.chunks_size
             m == _msgs
             l == Len(_msgs)
  <2>1. /\ n \in SizeT /\ m \in Seq(Seq(0 .. kAlphabetSize - 1))
        /\ \A i \in 1 .. l : m[i] = Message(n, (i - 1) * n)
    BY <1>2 DEF IInv, MessageInv
  <2> HIDE DEF n
  <2>2. n \in Nat /\ l \in Nat
    BY <2>1, WidthAssumption DEF SizeT
  <2>3. \A x, y \in Nat : x * y \in Nat
    OBVIOUS
  <2>4. ASSUME NEW i \in 1 .. l PROVE Len(m[i]) = n
    <3> DEFINE g == (i - 1) * n
    <3>1. g \in Nat /\ m[i] = Message(n, g)
      <4>1. i - 1 \in Nat
        BY <2>2
      <4> QED
        BY <2>1, <2>2, <2>3, <4>1, Zenon
    <3> HIDE DEF g
    <3>2. AlphabetSize(n) \in Nat \ {0} /\ AlphabetSize(n) <= kAlphabetSize
      BY <2>2, AlphabetSizeType
    <3>3. Message(n, g) = Round(AlphabetSize(n), n, g)
      BY <2>2, <3>1, MessageIsRound
    <3>4. Len(Round(AlphabetSize(n), n, g)) = n
      BY <2>2, <3>1, <3>2, RoundType
    <3> QED
      BY <3>1, <3>3, <3>4, Zenon
  <2>5. ASSUME NEW i \in 1 .. l - 1
        PROVE  m[i] = m[i + 1] <=> n % (kAlphabetSize * (kAlphabetSize - 1)) = 0
    <3> DEFINE g == (i - 1) * n
    <3>1. i - 1 \in Nat /\ i \in 1 .. l /\ i + 1 \in 1 .. l /\ (i + 1) - 1 = i
      BY <2>2
    <3>2. g \in Nat
      BY <2>2, <2>3, <3>1, Zenon
    <3>3. i * n = g + n
      BY <2>2
    <3>4. m[i] = Message(n, g) /\ m[i + 1] = Message(n, ((i + 1) - 1) * n)
      BY <2>1, <3>1, Zenon
    <3> HIDE DEF g
    <3>5. m[i + 1] = Message(n, g + n)
      BY <3>1, <3>3, <3>4, Zenon
    <3>6. Message(n, g) = Message(n, g + n)
            <=> n % (kAlphabetSize * (kAlphabetSize - 1)) = 0
      BY <2>2, <3>2, NextMessage
    <3> QED
      BY <3>4, <3>5, <3>6, Zenon
  <2> QED
    BY <2>4, <2>5 DEF MessagesDiffer, n
<1> QED
  BY <1>1, <1>2

(* The options, the command lines of the children and the messages, from   *)
(* the start of main on                                                    *)
THEOREM Invariant == Spec => []IInv
BY InvInit, InvNext, PTL DEF Spec

(* Every number that is parsed, or left over, is one that its C++ type can *)
(* hold, and the count of missing options never falls below zero.          *)
THEOREM TypeCorrect == Spec => []TypeOK
<1>1. IInv => TypeOK
  BY TypeFromInv
<1> QED
  BY <1>1, Invariant, PTL

(* Whatever was parsed by run_test, its three children accept the command  *)
(* lines written for them, read back the values that they were written     *)
(* from, and the ends of each connection meet each other and no other.     *)
THEOREM ChildrenReadWhatIsWritten == Spec => []ChildrenAgree
<1>1. IInv => ChildrenAgree
  BY DEF IInv
<1> QED
  BY <1>1, Invariant, PTL

(* For an alphabet of any size, two messages in a row differ exactly when  *)
(* their size is no multiple of both alphabet sizes.                       *)
THEOREM MessagesAreTold == Spec => []MessagesDiffer
<1>1. IInv => MessagesDiffer
  BY MessagesFromInv
<1> QED
  BY <1>1, Invariant, PTL
=============================================================================
