---------------------------- MODULE MCBridgeIngest ----------------------------
(* Instances of BridgeIngest: one device with two values, which are         *)
(* interchangeable, and manifests that are right or wrong.                  *)
EXTENDS BridgeIngest, TLC

CONSTANTS d1, v1, v2

MCStream == [kind : {"device-upserted", "device-removed"}, device : Device]
            \cup [kind : {"state"}, device : Device, value : Value]
            \cup [kind : {"sync-complete"}, count : 0..2]
Sym == Permutations(Value)
====
