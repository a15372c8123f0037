------------------------------- MODULE RunTest -------------------------------
(***************************************************************************)
(* From a command line to the messages (main.cpp, run/src/as): main finds  *)
(* the mode, the mode parses its options one by one, run_test writes the   *)
(* command lines of its three children and these parse them again, and the *)
(* producer makes its messages.  IpcChecker continues from there.          *)
(***************************************************************************)
EXTENDS Arguments, SimpleRoundGenerator

CONSTANTS
  Roles,        \* the first argument: a mode, another word, or None
  Texts,        \* texts that options may have, for each kind of parser
  Garbage,      \* what uninitialized numbers may hold
  Cpus          \* the processors of the machine

ASSUME TextsAssumption == DOMAIN Texts = {"size", "optional", "cpu", "type", "address"}
ASSUME NoneAssumption == None \notin Modes
ASSUME GarbageAssumption == Garbage \subseteq SizeT

VARIABLES
  role,         \* argv[1]
  garbage,
  args,         \* the Arguments of the mode
  given,        \* history: the options on the command line
  status,       \* how far the process is, or how it has ended
  children,     \* the Arguments of run_test's children
  _msgs,        \* of the producer's SimpleRoundGenerator
  alphabet_global_idx

vars == <<role, garbage, args, given, status, children, _msgs, alphabet_global_idx>>

Init ==
  /\ role \in Roles /\ garbage \in Garbage
  /\ args = None /\ given = {} /\ status = "main" /\ children = None
  /\ _msgs = <<>> /\ alphabet_global_idx = 0

-----------------------------------------------------------------------------
(* main: usage without an argument, an exception for an unknown mode.      *)
Main ==
  /\ status = "main"
  /\ status' = CASE role = None      -> "usage"
                 [] role \in Modes   -> "parsing"
                 [] role \notin Modes -> "thrown"
  /\ args' = IF role \in Modes THEN NewArguments(role, garbage) ELSE None
  /\ UNCHANGED <<role, garbage, given, children, _msgs, alphabet_global_idx>>

(* parser: the key of an option                                            *)
ParseOption(o, text) ==
  /\ status = "parsing"
  /\ args' = ParseArgument(role, args, o, text, garbage)
  /\ given' = given \cup {o}
  /\ status' = IF args'.thrown THEN "thrown" ELSE "parsing"
  /\ UNCHANGED <<role, garbage, children, _msgs, alphabet_global_idx>>

(* ARGP_ERR_UNKNOWN                                                        *)
UnknownOption ==
  /\ status = "parsing"
  /\ status' = "usage"
  /\ UNCHANGED <<role, garbage, args, given, children, _msgs, alphabet_global_idx>>

(* ARGP_KEY_END                                                            *)
End ==
  /\ status = "parsing"
  /\ status' = IF HasNotParsedRequiredArguments(args) THEN "TooFew" ELSE "running"
  /\ UNCHANGED <<role, garbage, args, given, children, _msgs, alphabet_global_idx>>

(* SchedSetAffinity, first of all in a consumer and a producer: where the  *)
(* process may run.  The system refuses to leave it no processor.          *)
Affinity(cpu) == IF cpu = -1 THEN Cpus ELSE {cpu} \cap Cpus

(* A mode refuses a cpu that is not there and a net socket without a port. *)
Starts(a) ==
  /\ "cpu" \in DOMAIN a => Affinity(a.cpu) # {}
  /\ \A o \in DOMAIN a \cap {"connection", "measurer", "measurer_producer",
                             "measurer_consumer"} : HasEndpoint(a[o])

(* runAsAnalyzer, runAsConsumer and runAsProducer                          *)
Start ==
  /\ status = "running" /\ role # "run_test"
  /\ status' = IF Starts(args.values) THEN "working" ELSE "thrown"
  /\ UNCHANGED <<role, garbage, args, given, children, _msgs, alphabet_global_idx>>

-----------------------------------------------------------------------------
(* run_test                                                                *)

Sides == {"ConsumerProducer", "MeasurerProducer", "MeasurerConsumer"}
PortOf == [ConsumerProducer |-> 8000, MeasurerProducer |-> 8100, MeasurerConsumer |-> 8200]
NameOf == [ConsumerProducer |-> "ipc_checker_connection_id",
           MeasurerProducer |-> "ipc_checker_measurer_producer_id",
           MeasurerConsumer |-> "ipc_checker_measurer_consumer_id"]

(* Mutant: a client of a measurer connection goes to the other one.        *)
MakeConnectionString_Crossed(side, end, type) ==
  LET to == IF side = "ConsumerProducer" \/ end = "Server" THEN side
            ELSE CHOOSE s \in Sides \ {"ConsumerProducer"} : s # side
  IN  Address(ToString[type],
              IF type = "kNetSocket"
              THEN [host |-> IF end = "Server" THEN "" ELSE "localhost", port |-> PortOf[to]]
              ELSE [name |-> NameOf[to]])

MakeConnectionString(side, end, type) ==
  Address(ToString[type],
          IF type = "kNetSocket"
          THEN [host |-> IF end = "Server" THEN "" ELSE "localhost", port |-> PortOf[side]]
          ELSE [name |-> NameOf[side]])

(* modes_arguments: the options of each child, in their order; numbers are *)
(* written with std::to_string.                                            *)
ModesArguments(a) ==
  LET Option(o, text) == [option |-> o, text |-> text]
      Connection(o, side, end) == Option(o, MakeConnectionString(side, end, a.connection))
      count == Option("chunks_total_count", Number(a.chunks_total_count))
      buffer == Option("connection_buffer_size", Number(a.connection_buffer_size))
  IN  [analyzer |->
         <<count, Connection("measurer_producer", "MeasurerProducer", "Server"),
           Connection("measurer_consumer", "MeasurerConsumer", "Server")>>,
       consumer |->
         <<count, Connection("connection", "ConsumerProducer", "Server"), buffer,
           Connection("measurer", "MeasurerConsumer", "Client"),
           Option("cpu", Number(a.environment_consumer_cpu))>>,
       producer |->
         <<Option("chunks_size", Number(a.chunks_size)), count,
           Connection("connection", "ConsumerProducer", "Client"), buffer,
           Connection("measurer", "MeasurerProducer", "Client"),
           Option("cpu", Number(a.environment_producer_cpu))>>]

(* The children are processes with an argv of their own, and memory that   *)
(* holds something else where it is not initialized.                       *)
StartChildren ==
  /\ status = "running" /\ role = "run_test"
  /\ status' = "working"
  /\ \E g \in Garbage :
       children' =
         [m \in Modes \ {"run_test"} |-> ParseArguments(m, ModesArguments(args.values)[m], g)]
  /\ UNCHANGED <<role, garbage, args, given, _msgs, alphabet_global_idx>>

-----------------------------------------------------------------------------
(* The arguments of the producer, once there is one                        *)
IsProducer ==
  \/ status = "working" /\ role = "producer"
  \/ children # None /\ Starts(children.producer.values)
ProducerArguments == IF role = "producer" THEN args.values ELSE children.producer.values

(* The for loop of SimpleRoundGenerator::SimpleRoundGenerator              *)
Generate ==
  /\ IsProducer
  /\ Len(_msgs) < ProducerArguments.chunks_total_count
  /\ _msgs' = Append(_msgs, Message(ProducerArguments.chunks_size, alphabet_global_idx))
  /\ alphabet_global_idx' = alphabet_global_idx + ProducerArguments.chunks_size
  /\ UNCHANGED <<role, garbage, args, given, status, children>>

Next ==
  \/ Main
  \/ /\ status = "parsing"
     /\ \E o \in DOMAIN Items[role] :
          \E text \in Texts[Items[role][o].parser] : ParseOption(o, text)
  \/ UnknownOption \/ End \/ Start \/ StartChildren \/ Generate

Spec == Init /\ [][Next]_vars

-----------------------------------------------------------------------------
(* PROPERTIES                                                              *)

(* Every variable keeps its type; a number is one the machine can hold.    *)
TypeOK ==
  /\ role \in Roles /\ garbage \in Garbage
  /\ status \in {"main", "parsing", "usage", "thrown", "TooFew", "running",
                "working"}
  /\ args # None =>
       /\ args.missing \in 0 .. Cardinality(RequiredOptions(role))
       /\ args.parsed \subseteq given /\ given \subseteq DOMAIN Items[role]
       /\ \A o \in DOMAIN Items[role] :
            CASE Items[role][o].parser = "size" -> args.values[o] \in SizeT
              [] Items[role][o].parser = "cpu"  -> args.values[o] \in Int32
              [] OTHER                          -> TRUE
  /\ \A i \in 1 .. Len(_msgs) : _msgs[i] \in Seq(0 .. kAlphabetSize - 1)

(* A mode starts its work exactly when each of its required options was on *)
(* the command line, in whatever order and however often the options were  *)
(* given (Arguments::ParseArgument and HasNotParsedRequiredArguments).     *)
StartsWhenComplete ==
  /\ status \in {"running", "working"} => RequiredOptions(role) \subseteq given
  /\ status = "TooFew" => ~(RequiredOptions(role) \subseteq given)

Meet(server, client) ==
  server.type = client.type /\ Endpoint(server) = Endpoint(client)

(* What run_test writes for its children is what these read: all three     *)
(* accept it, they count to the same number, each of the three connections *)
(* has its own two ends, of the type that was asked for, and size, buffer  *)
(* and cpu are the ones that run_test has parsed, even if that was garbage *)
(* (MakeConnectionString and modes_arguments).                             *)
ChildrenAgree ==
  children # None =>
    LET a == children.analyzer.values
        c == children.consumer.values
        p == children.producer.values
        servers == <<a.measurer_producer, a.measurer_consumer, c.connection>>
    IN  /\ \A m \in DOMAIN children :
             ~children[m].thrown /\ ~HasNotParsedRequiredArguments(children[m])
        /\ {a.chunks_total_count, c.chunks_total_count, p.chunks_total_count}
             = {args.values.chunks_total_count}
        /\ Meet(a.measurer_producer, p.measurer)
        /\ Meet(a.measurer_consumer, c.measurer)
        /\ Meet(c.connection, p.connection)
        /\ \A i, j \in 1 .. 3 : Endpoint(servers[i]) = Endpoint(servers[j]) => i = j
        /\ \A i \in 1 .. 3 : servers[i].type = args.values.connection
        /\ p.chunks_size = args.values.chunks_size
        /\ {c.connection_buffer_size, p.connection_buffer_size}
             = {args.values.connection_buffer_size}
        /\ c.cpu = args.values.environment_consumer_cpu
        /\ p.cpu = args.values.environment_producer_cpu

(* Every message has the size asked for, and two in a row are never alike, *)
(* so that one received twice or a stale buffer would show, unless the     *)
(* size is a multiple of both alphabet sizes (1260 in the program).        *)
MessagesDiffer ==
  /\ \A i \in 1 .. Len(_msgs) : Len(_msgs[i]) = ProducerArguments.chunks_size
  /\ \A i \in 1 .. Len(_msgs) - 1 :
       _msgs[i] = _msgs[i + 1] <=>
         ProducerArguments.chunks_size % (kAlphabetSize * (kAlphabetSize - 1)) = 0

=============================================================================
