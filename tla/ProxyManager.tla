---------------------------- MODULE ProxyManager ----------------------------
(***************************************************************************)
(* proxy/proxy.go: the proxy list and its rotation.  GetNextProxy holds    *)
(* pm.mutex throughout, so a call is one action.                           *)
(***************************************************************************)
EXTENDS Integers, Sequences

CONSTANTS
  Proxy,        \* the addresses a proxy file may list
  Malformed,    \* those that url.Parse refuses, such as "10.0.0.1:3128"
  Direct,       \* the empty address
  ProxyFiles    \* the files of an instance: the addresses LoadProxies keeps

ASSUME ProxyAssumption ==
  /\ Malformed \subseteq Proxy /\ Direct \notin Proxy
  /\ ProxyFiles \subseteq Seq(Proxy)

VARIABLES proxies, index   \* pm's fields

proxyVars == <<proxies, index>>

NewProxyManager == proxies = <<>> /\ index = 0

\* Comments and blank lines are gone from file.
LoadProxies(file) == proxies' = file /\ index' = 0

NextProxy == IF proxies = <<>> THEN Direct ELSE proxies[index + 1]

\* The rotation moves on; a variant wraps one place too early, so that the last proxy is
\* never handed out.
AdvanceShort == IF Len(proxies) < 2 THEN 0 ELSE (index + 1) % (Len(proxies) - 1)
Advance == IF proxies = <<>> THEN index ELSE (index + 1) % Len(proxies)
GetNextProxy == index' = Advance /\ UNCHANGED proxies

\* NewHTTPClient: only the address of a proxy can make it fail.
BuildsClient(p) == p \notin Malformed

ProxyTypeOK ==
  /\ proxies \in {<<>>} \cup ProxyFiles
  /\ index = 0 \/ index \in 0 .. Len(proxies) - 1
=============================================================================
