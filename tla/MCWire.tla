-------------------------------- MODULE MCWire --------------------------------
(* What crosses a connection, for TLC: the two codecs, of which a connection *)
(* uses one (the NDJSON transports the line decoder, the WebSocket transport *)
(* the chunk codec), the names a frame may carry, two peers, and the command *)
(* line that starts a remote one.  A behaviour is about one of the five.     *)
EXTENDS LineDecoder, ChunkCodec, FrameNames, Peers, SshCommand

VARIABLE part

(* Every kind of profile against every other: two majors, two minors, a      *)
(* ceiling of the session's, of the port's and of both, below, at and above  *)
(* the default; one below the floor; in-flight ceilings no session or no     *)
(* hello may have; a large hello.                                            *)
MCProfiles ==
    {o \in [major : {1, 2}, minor : {0, 1}, session : {0, 1, 2, 4}, port : {0, 2, 4},
            inFlight : {0, 1, 2, 9}, hello : {1, 3}] :
        /\ o.major = 2 => o.minor = 1 /\ o.session = 0 /\ o.port = 0
        /\ o.inFlight # 2 => o.minor = 1 /\ o.session = 0
        /\ o.hello = 3 => o.minor = 1 /\ o.session = 0 /\ o.inFlight = 2}

QuietPeers == CHOOSE o \in MCProfiles : Opens(o)

Init ==
    /\ part \in {"ndjson", "websocket", "names", "peers", "ssh"}
    /\ LineInit /\ ChunkInit /\ NamesInit /\ PeersInit /\ SshInit
    /\ part # "peers" => opts = [p \in Sides |-> QuietPeers]

Next ==
    /\ UNCHANGED part
    /\ \/ part = "ndjson" /\ LineNext /\ UNCHANGED <<chunkVars, name, peerVars, sshVars>>
       \/ part = "websocket" /\ ChunkNext /\ UNCHANGED <<lineVars, name, peerVars, sshVars>>
       \/ part = "names" /\ NamesNext /\ UNCHANGED <<lineVars, chunkVars, peerVars, sshVars>>
       \/ part = "peers" /\ PeersNext /\ UNCHANGED <<lineVars, chunkVars, name, sshVars>>
       \/ part = "ssh" /\ SshNext /\ UNCHANGED <<lineVars, chunkVars, name, peerVars>>
=============================================================================
