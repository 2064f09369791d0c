----------------------------- MODULE MCDecoder -----------------------------
EXTENDS Decoder

(* Two sections in use, with and without questions, one of them twice.     *)
MCRrCounts == { [t \in 0 .. 3 |-> n[t + 1]] : n \in {<<1, 0, 2, 0>>, <<0, 1, 0, 0>>} }

(* Defaults, a key no module has, a value of the wrong type.               *)
Unset == [k \in {} |-> BoolValue(TRUE)]
MCConfigs ==
  { Unset, Config_set(Unset, "TCP.session", IntValue(1)),
    Config_set(Unset, "TCP.enable_session_mgmt", IntValue(1)) }
MCConfigsOff == {Config_set(Unset, "TCP.enable_session_mgmt", BoolValue(FALSE))}
=============================================================================
