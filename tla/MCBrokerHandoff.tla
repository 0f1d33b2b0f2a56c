-------------------------- MODULE MCBrokerHandoff ---------------------------
(* Instances of BrokerHandoff for TLC. *)
EXTENDS BrokerHandoff, TLC

RequestSymmetry == Permutations(Requests)

\* Requests come to need the user in every state of a running process.
AnyTime == {"active", "inactive", "foregrounding", "background"}

\* They do not while the app returns, between the two notifications.
NotBetween == AnyTime \ {"foregrounding"}

\* They do only while the app is active.
WhileActive == {"active"}
=============================================================================
