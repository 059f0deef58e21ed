----------------------------- MODULE MCServices ------------------------------
(* The services around the store, one at a time: a scene uses the actions of one of them and the          *)
(* variables of the others keep their initial value.  The sampling scenes take one credential, number or  *)
(* document after the other.                                                                               *)
EXTENDS AuditLog, TenantKeys, JwksCache, Gateway, BackupScheduler, TLC

VARIABLES scene, sample

rest == <<auditVars, tenantVars, jwksVars, gatewayVars, backupVars>>

-----------------------------------------------------------------------------
(* what the scenes use *)

Event(ts, user, action) == [ts |-> ts, tenant |-> "acme", user |-> user, action |-> action, resource |-> "data", outcome |-> "allow", detail |-> "ok"]
SomeEvents == {Event("1", "ann", "write"), Event("1", "bob", "query"), Event("2", "action", "write")}
OldFiles == {<<>>, <<Event("0", "old", "write")>>}

Key(name, kid, kty, use) == [name |-> name, kid |-> kid, kty |-> kty, alg |-> IF kty = "RSA" THEN "RS256" ELSE "HS256", use |-> use, material |-> kty # "EC"]
SomeKeys == {Key("k1", "one", "RSA", "sig"), Key("k2", None, "RSA", None), Key("k3", "one", "oct", None), Key("k4", "two", "RSA", "enc"), Key("k5", "two", "EC", "sig")}
SomeKeySets == {<<k>> : k \in SomeKeys} \union {<<k, l>> : k, l \in SomeKeys}
PublishedSets == {<<Key("k1", "one", "RSA", "sig")>>, <<Key("k2", None, "RSA", None), Key("k5", "two", "EC", "sig")>>}

Own(tenant) == Context(tenant, "ann", DefaultPermissions)
Reader == Context("acme", "bob", {<<"sparql", "query">>})
Triple(s, o) == [s |-> s, p |-> "p", o |-> o, blank |-> s = "b"]
St(graph, s, o) == [graph |-> graph, triple |-> Triple(s, o)]
Request(kind) == [kind |-> kind, context |-> Own("acme"), fault |-> 0, graph |-> {}, tenant_graph |-> FALSE, statements |-> {}, ops |-> <<>>, terms |-> {}]
Insert(set) == [op |-> "insert", statements |-> set]
Remov(set) == [op |-> "delete", statements |-> set]
Load(silent, set) == [op |-> "load", source |-> "doc", silent |-> silent, into |-> DefaultGraph, statements |-> set]
Here == St(DefaultGraph, "x", "y")
There == St(TenantGraph("acme"), "x", "y")
Updating(ops) == [Request("update") EXCEPT !.ops = ops]
SomeTraffic ==
    {[Request("ingest") EXCEPT !.statements = {Here}],
     [Request("ingest") EXCEPT !.graph = {TenantGraph("other")}, !.statements = {St(DefaultGraph, "b", "z")}],
     Updating(<<Insert({There}), Remov({Here})>>), Updating(<<Remov({There}), Insert({Here})>>),
     Updating(<<Load(FALSE, {St(DefaultGraph, "x", "z")}), Load(TRUE, {Here})>>),
     [Request("index") EXCEPT !.context = Context("acme", "ann", {<<"semantic", "*">>}), !.terms = {"q"}],
     Request("options"), Request("query"), [Request("update") EXCEPT !.fault = 400],
     [Request("ingest") EXCEPT !.context = Reader], [Request("query") EXCEPT !.context = Refused("unauthorized")],
     [Request("update") EXCEPT !.context = Refused("forbidden")]}

-----------------------------------------------------------------------------
(* samples *)

Numbers == UNION {[1..k -> 0..(Radix - 1)] : k \in 1..2} \union {<<x, 0, y>> : x, y \in 0..(Radix - 1)}
ByteStrings == UNION {[1..k -> {0, 1, 7, 15}] : k \in 0..4}
Modulus == <<2, 3, 0, 2, 1>>    \* 23 * 31 in radix 4, with the exponents 7 and 283

Names == {None, "", "acme", "other"}
Headers == [tenant : Names, user : {None, "", "ann"}]
Config(mode, api_key, registry, secret, oidc, issuer) ==
    [mode |-> mode, api_key |-> api_key, registry |-> registry, secret |-> secret, oidc |-> oidc, issuer |-> issuer, audience |-> None]
Modes == {Config(m, k, r, s, FALSE, None) : m \in {"disabled", "enforced"}, k \in {None, "key"}, r \in BOOLEAN, s \in {None, "secret"}}
TokenModes == {Config("enforced", None, TRUE, "secret", FALSE, None), Config("enforced", None, TRUE, None, TRUE, None), Config("enforced", None, TRUE, "secret", TRUE, "issuer")}
Credential(h, key, scheme) == [tenant |-> h.tenant, user |-> h.user, key |-> key, scheme |-> scheme]
ByKey == {Credential(h, k, s) : h \in Headers, k \in {None, "", "key", "tenant key"}, s \in {None, "Basic "}}
ByToken == {Credential(h, "tenant key", "Bearer ") : h \in Headers}
Founds == {{}} \union {{[id |-> "acme", status |-> st]} : st \in Statuses}
Claims(exp, nbf, tenant, scope) == [sub |-> "ann", exp |-> exp, nbf |-> nbf, tenant |-> tenant, scope |-> scope, iss |-> "issuer", aud |-> None]
Token(alg, kid, signer, claims) == [parts |-> 3, alg |-> alg, kid |-> kid, signer |-> signer, claims |-> claims]
TimedTokens ==
    {Token(a, kid, s, Claims(e, n, None, {})) : a \in {"RS256", "HS256", "none"}, kid \in {None, "one", "two"}, s \in {"k1", "k2", "k3", "k4"},
                                                e \in {{}, {2}, {4}}, n \in {{}, {1}, {5}}}
NamedTokens == {Token("HS256", None, s, Claims({}, {}, t, scope)) : s \in {"secret", "k3"}, t \in Names, scope \in {{}, {{}}, {{<<"data", "read">>}}}}
OctKeys == {<<Key("k3", "one", "oct", None)>>}
AclKeys == [read : {None, "r"}, write : {None, "w"}]
Provided == {None, "r", "w", "x"}
TheTimes == 0..7

AToken == Token("HS256", None, "secret", Claims({}, {}, None, {}))
Identity(config, credential, token, found) == <<[config |-> config, request |-> credential, token |-> token, found |-> found]>>

-----------------------------------------------------------------------------

MCInit ==
    /\ scene \in {"audit", "tenants", "jwks", "gateway", "backups", "numbers", "bytes", "signature", "tokens", "identities", "ranks"}
    /\ sample = <<>>
    /\ AuditInit /\ TenantInit /\ JwksInit /\ GatewayInit /\ BackupInit
    /\ scene # "audit" => file = <<>>
    /\ scene # "tenants" => durable
    /\ scene # "jwks" => published = <<<<Key("k1", "one", "RSA", "sig")>>>>
    /\ IF scene = "gateway" THEN enforced = ~persistent ELSE enforced /\ persistent
    /\ scene # "backups" => base /\ schedule = [enabled |-> FALSE, interval |-> 0]

Sampling ==
    /\ sample = <<>>
    /\ \/ scene = "numbers" /\ \E a, b \in Numbers : sample' = <<a, b>>
       \/ scene = "bytes" /\ \E bytes \in ByteStrings : sample' = <<bytes>>
       \/ scene = "signature" /\ sample' = <<Modulus>>
       \/ scene = "tokens" /\ \E t \in TimedTokens, set \in SomeKeySets : UsableKeys(set) # <<>> /\ sample' = <<[token |-> t, keys |-> UsableKeys(set)]>>
       \/ scene = "ranks" /\ \E acl \in AclKeys, key \in Provided : sample' = <<acl, key>>
       \/ scene = "identities" /\ \E c \in Modes, r \in ByKey, f \in Founds : sample' = Identity(c, r, AToken, f)
       \/ scene = "identities" /\ \E c \in TokenModes, r \in ByToken, t \in NamedTokens : sample' = Identity(c, r, t, {})

MCNext ==
    /\ UNCHANGED scene
    /\ \/ Sampling /\ UNCHANGED rest
       \/ scene = "audit" /\ AuditNext /\ UNCHANGED <<sample, tenantVars, jwksVars, gatewayVars, backupVars>>
       \/ scene = "tenants" /\ TenantNext /\ UNCHANGED <<sample, auditVars, jwksVars, gatewayVars, backupVars>>
       \/ scene = "jwks" /\ JwksNext /\ UNCHANGED <<sample, auditVars, tenantVars, gatewayVars, backupVars>>
       \/ scene = "gateway" /\ GatewayNext /\ UNCHANGED <<sample, auditVars, tenantVars, jwksVars, backupVars>>
       \/ scene = "backups" /\ BackupNext /\ UNCHANGED <<sample, auditVars, tenantVars, jwksVars, gatewayVars>>

BackupsFair == BackupFairness
MCSpec == MCInit /\ [][MCNext]_<<rest, scene, sample>> /\ BackupsFair

-----------------------------------------------------------------------------
(* properties *)

\* Across the service, either store and the authenticator: a key without other headers is accepted exactly from
\* the answer that shows it to its end, while its tenant is active, and only for that tenant, provided no two
\* calls worked on the tenant at a time.
WithKey == [tenant |-> None, user |-> None, key |-> "a key", scheme |-> None]
KeyAdmits ==
    \A k \in Keys : k[1] \notin raced =>
        LET result == Authenticate(Config("enforced", None, TRUE, None, FALSE, None), WithKey, Resolve(k))
        IN  /\ result.ok <=> Known(k[1]) /\ tenants[k[1]].status = "active" /\ k \in shown \ gone
            /\ result.ok => result.tenant = k[1]

\* The audit file, the tenants' keys and the provider's keys hold what was recorded, shown and published.
RecordsSafe == AuditSafe /\ RegistryAgrees /\ KeyAdmits /\ KeysFresh

\* The functions behind a credential agree with what the numbers, the times and the identities mean.
SamplesExact ==
    sample = <<>> \/ CASE scene = "numbers" -> NumbersExact(sample[1], sample[2])
                       [] scene = "bytes" -> BytesSurvive(sample[1])
                       [] scene = "signature" -> SignatureExact(sample[1], <<1, 3>>, 283, 1)
                       [] scene = "tokens" -> TokensExact(sample[1].token, sample[1].keys, Config("enforced", None, FALSE, None, TRUE, "issuer"), TheTimes)
                       [] scene = "ranks" -> KeyRanks(sample[1], sample[2])
                       [] scene = "identities" -> IdentityBound(sample[1].config, sample[1].request, sample[1].token, sample[1].found, OctKeys, Headers)

\* Requests are counted, confined to their tenant and followed by the semantic index, and one scheduler at most runs.
RequestsSafe == GatewaySafe /\ OneScheduler
=============================================================================
