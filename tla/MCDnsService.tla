---- MODULE MCDnsService ----
(* Small instances of DnsService for TLC: three hosts, one of which is always  *)
(* found; one has a list of three addresses, where a remainder may go wrong.   *)
EXTENDS DnsService, TLC

CONSTANTS qq, live, gone

AddressesOf == {"qq1", "qq2", "qq3", "qq4", "live1", "live2", "gone1"}
AnswersOf == (qq :> {<<"qq1", "qq2", "qq3">>, <<"qq4">>}) @@ (live :> {<<"live1", "live2">>}) @@ (gone :> {<<"gone1">>})
====
