------------------------------ MODULE MCGrove ------------------------------
(* Instance of Grove: two clients, two channels, each reader in turn and   *)
(* the tools that matter to it.                                            *)
EXTENDS Grove

MCTools == [r \in Readers |->
    CASE r = "none"   -> {"command", "ack", "reply"}
      [] r = "poller" -> {"send", "reply"}
      [] r = "listen" -> {"send", "heartbeat"}
      [] r = "heimdallr" -> {"send", "post"}
      [] OTHER        -> {"send"}]
MCRooms == [r \in Readers |-> IF r \in {"listen", "coordinator"} THEN Channels ELSE {General}]
MCExisting == [r \in Readers |-> CASE r = "coordinator" -> Channels
                                    [] r = "listen" -> {General}
                                    [] OTHER -> {}]
MCMaxMsgs == [r \in Readers |-> IF r \in {"none", "poller"} THEN 4 ELSE 3]
=============================================================================
