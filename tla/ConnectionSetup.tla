--------------------------- MODULE ConnectionSetup ---------------------------
(***************************************************************************)
(* Opening a connection (open_connection and                               *)
(* open_connection_to_shard_aware_port in scylla/src/network/              *)
(* connection.rs): address translation, TCP connect from the source ports  *)
(* of a shard, OPTIONS, the choice of extensions and compression, STARTUP, *)
(* authentication and REGISTER; then requests, responses and events on the *)
(* open connection.  The node checks what it is sent against its own state *)
(* of the protocol.                                                        *)
(***************************************************************************)
EXTENDS Naturals, FiniteSets

CONSTANTS
  Compressions,    \* the compression algorithms
  Extensions,      \* the protocol extensions the driver knows
  NoCompression,   \* the absence of one
  MaxPorts,        \* bound on the source ports of a shard
  MaxChallenges    \* bound on the authentication challenges

ASSUME SetupConstants ==
  /\ NoCompression \notin Compressions
  /\ MaxPorts \in Nat
  /\ MaxChallenges \in Nat

VARIABLES
  conf,      \* HostConnectionConfig and the endpoint, fixed
  peer,      \* what the node supports and demands, and its state of the protocol
  setup,     \* where the setup is, and what the Connection has negotiated
  frame      \* the frame sent last, with what its receiver makes of it

setupVars == <<conf, peer, setup, frame>>

Options == Compressions \cup {NoCompression}

\* A frame that is sent to, or by, the node.
NoFrame == [to |-> "none", compression |-> NoCompression, reader |-> NoCompression]

\* ports = 0 stands for a connection from any port.
SetupInit ==
  /\ conf \in [compression: Options, control: BOOLEAN, authenticator: BOOLEAN,
               translator: BOOLEAN, ports: 0..MaxPorts]
  /\ peer \in [supported: SUBSET Compressions, extensions: SUBSET Extensions,
               malformed: SUBSET Extensions, authenticates: BOOLEAN, compression: {NoCompression},
               features: {{}}, state: {"new"}, challenges: {0}, registered: {FALSE}]
  /\ peer.malformed \subseteq peer.extensions
  /\ setup = [at |-> "translate", ports |-> conf.ports, compression |-> conf.compression,
              features |-> {}]
  /\ frame = NoFrame

Fail == setup' = [setup EXCEPT !.at = "failed"]

\* A request of the setup or of a user, in the compression of the connection if it
\* is sent with `compress`.  The node decodes it with what STARTUP has announced.
Sends(compress) ==
  frame' = [to |-> "node", compression |-> IF compress THEN setup.compression ELSE NoCompression,
            reader |-> peer.compression]

\* maybe_translated_addr
Translate ==
  /\ setup.at = "translate"
  /\ \/ setup' = [setup EXCEPT !.at = "connect"]
     \/ conf.translator /\ Fail
  /\ UNCHANGED <<conf, peer, frame>>

\* Connection::new; a port that is in use is followed by the next one.
Connect ==
  /\ setup.at = "connect"
  /\ \/ setup' = [setup EXCEPT !.at = "options"]
     \/ Fail
     \/ /\ conf.ports > 0
        /\ IF setup.ports > 1
           THEN setup' = [setup EXCEPT !.at = "translate", !.ports = @ - 1]
           ELSE Fail
  /\ UNCHANGED <<conf, peer, frame>>

\* get_options: the answer is SUPPORTED.
GetOptions ==
  /\ setup.at = "options"
  /\ Sends(FALSE)
  /\ setup' = [setup EXCEPT !.at = "startup"]
  /\ UNCHANGED <<conf, peer>>

\* ProtocolFeatures::parse_from_supported: an extension is used if the node lists
\* it with parameters that can be parsed.
ParseFromSupported == (peer.extensions \ peer.malformed) \cap Extensions

\* The compression of STARTUP: the configured one, if the node lists it.
Negotiated == IF conf.compression \in peer.supported THEN conf.compression ELSE NoCompression

\* Mutant: the connection keeps the configured compression when it falls back.
StartupKeepsCompression ==
  /\ setup.at = "startup"
  /\ Sends(FALSE)
  /\ peer' = [peer EXCEPT !.compression = Negotiated, !.features = ParseFromSupported,
                          !.state = IF peer.authenticates THEN "authenticating" ELSE "ready"]
  /\ setup' = [setup EXCEPT !.at = IF peer.authenticates THEN "authenticate" ELSE "register",
                            !.features = ParseFromSupported]
  /\ UNCHANGED conf

\* The features are set, STARTUP is sent uncompressed with the extensions and the
\* compression in it, and answered with READY or AUTHENTICATE.
Startup ==
  /\ setup.at = "startup"
  /\ Sends(FALSE)
  /\ peer' = [peer EXCEPT !.compression = Negotiated, !.features = ParseFromSupported,
                          !.state = IF peer.authenticates THEN "authenticating" ELSE "ready"]
  /\ setup' = [setup EXCEPT !.at = IF peer.authenticates THEN "authenticate" ELSE "register",
                            !.compression = Negotiated, !.features = ParseFromSupported]
  /\ UNCHANGED conf

\* perform_authenticate: AUTH_RESPONSE until the node answers AUTH_SUCCESS; the
\* session of the user's authenticator may fail at any of its calls.
Authenticate ==
  /\ setup.at = "authenticate"
  /\ IF ~conf.authenticator
     THEN Fail /\ UNCHANGED <<peer, frame>>
     ELSE /\ Sends(FALSE)
          /\ \/ /\ peer' = [peer EXCEPT !.state = "ready"]
                /\ setup' = [setup EXCEPT !.at = "register"]
             \/ /\ peer.challenges < MaxChallenges
                /\ peer' = [peer EXCEPT !.challenges = @ + 1]
                /\ UNCHANGED setup
             \/ Fail /\ UNCHANGED peer
  /\ UNCHANGED conf

\* REGISTER on a control connection.
Register ==
  /\ setup.at = "register"
  /\ IF conf.control
     THEN /\ Sends(TRUE)
          /\ peer' = [peer EXCEPT !.registered = TRUE]
     ELSE UNCHANGED <<peer, frame>>
  /\ setup' = [setup EXCEPT !.at = "open"]
  /\ UNCHANGED conf

\* A request fails: with an error of the database, a response that is not among
\* the expected ones or cannot be parsed, or with the connection.
SetupRequestFails ==
  /\ setup.at \in {"options", "startup", "authenticate", "register"}
  /\ Fail
  /\ UNCHANGED <<conf, peer, frame>>

\* A request on the open connection.
Request ==
  /\ setup.at = "open"
  /\ Sends(TRUE)
  /\ UNCHANGED <<conf, peer, setup>>

\* A response, which the connection decodes with its own compression ...
Response ==
  /\ setup.at \in {"register", "open"} /\ frame.to = "node"
  /\ frame' = [to |-> "connection", compression |-> peer.compression,
               reader |-> setup.compression]
  /\ UNCHANGED <<conf, peer, setup>>

\* ... and an event, which the router decodes with the configuration it was
\* started with.
EventArrives ==
  /\ peer.registered
  /\ frame' = [to |-> "router", compression |-> peer.compression, reader |-> conf.compression]
  /\ UNCHANGED <<conf, peer, setup>>

SetupNext ==
  \/ Translate \/ Connect \/ GetOptions \/ Startup \/ Authenticate \/ Register
  \/ SetupRequestFails \/ Request \/ Response \/ EventArrives

SetupSpec == SetupInit /\ [][SetupNext]_setupVars
-----------------------------------------------------------------------------
(* Properties *)

\* Whoever receives a compressed frame knows its compression: the node only
\* learns it from STARTUP, and the router keeps the configured one even when the
\* connection falls back to none.
FramesReadable ==
  frame.compression # NoCompression => frame.reader = frame.compression

\* open_connection returns a connection only of a node that is ready for requests:
\* authenticated if it demanded so, and registered for events if it is the
\* control connection; and both sides have the same extensions turned on.
OpenMeansReady ==
  setup.at = "open" =>
    /\ peer.state = "ready"
    /\ conf.control => peer.registered
    /\ setup.features = peer.features

\* Both ends of a connection agree on how they talk once it is open.
SetupAgreed == FramesReadable /\ OpenMeansReady
=============================================================================
