------------------------------- MODULE Access --------------------------------
(***************************************************************************)
(* Who a request acts as: HeaderAuthenticator with its tenant registry,    *)
(* the HS256 and the OIDC tokens, permissions and tenant namespaces, and   *)
(* the keys of the management plane. A token is a record of its header,    *)
(* the key that signed it and its claims; times are seconds.               *)
(*                                                                         *)
(* First the arithmetic behind the tokens: base64url and the big numbers   *)
(* of RSA, as sequences of digits, most significant first. The radix is a  *)
(* constant, so that small numbers already carry, borrow and overflow a    *)
(* digit; a byte is to a base64 digit what 2^4 is to 2^3.                  *)
(***************************************************************************)
EXTENDS Integers, FiniteSets, SequencesExt

CONSTANTS
    Radix,          \* 256 in the code
    ByteBits,       \* 8; DigitBits is 6
    DigitBits,
    MinModulus,     \* a modulus of fewer digits is refused: 32
    InfoLength,     \* DIGEST_INFO: 19
    DigestLength    \* sha256: 32

Pow2(n) == 2^n
Zero == <<0>>
Sliced(value, width, count) == [i \in 1..count |-> (value \div Pow2(width * (count - i))) % Pow2(width)]
Joined(digits, width) == FoldLeft(LAMBDA acc, d : acc * Pow2(width) + d, 0, digits)

\* Four digits for three bytes, without the padding.
Base64Encode(bytes) ==
    LET chunks == (Len(bytes) + 2) \div 3
        Chunk(c) == SubSeq(bytes \o <<0, 0>>, 3 * c - 2, 3 * c)
        digits == FoldLeft(LAMBDA acc, c : acc \o Sliced(Joined(Chunk(c), ByteBits), DigitBits, 4), <<>>, [c \in 1..chunks |-> c])
    IN  SubSeq(digits, 1, Len(bytes) + chunks)

\* acc and bits of the loop: what is left of the last digits is dropped.  One digit too many is an error.
Base64Step(state, digit) ==
    LET acc == state.acc * Pow2(DigitBits) + digit
        bits == state.bits + DigitBits
    IN  IF bits < ByteBits THEN [state EXCEPT !.acc = acc, !.bits = bits]
        ELSE [acc |-> acc % Pow2(bits - ByteBits), bits |-> bits - ByteBits,
              out |-> Append(state.out, (acc \div Pow2(bits - ByteBits)) % Pow2(ByteBits))]
Base64Decodes(digits) == Len(digits) % 4 # 1
Base64Decode(digits) == FoldLeft(Base64Step, [acc |-> 0, bits |-> 0, out |-> <<>>], digits).out

-----------------------------------------------------------------------------
(* big numbers *)

BigTrim(a) ==
    LET significant == {i \in DOMAIN a : a[i] # 0 \/ i = Len(a)}
    IN  SubSeq(a, CHOOSE i \in significant : \A j \in significant : i <= j, Len(a))
FirstDifference(x, y) == CHOOSE i \in DOMAIN x : x[i] # y[i] /\ \A j \in 1..(i - 1) : x[j] = y[j]
BigLeq(a, b) ==
    LET x == BigTrim(a)
        y == BigTrim(b)
    IN  \/ Len(x) < Len(y)
        \/ Len(x) = Len(y) /\ (x = y \/ x[FirstDifference(x, y)] < y[FirstDifference(x, y)])

\* The borrow of the digit before is not looked at for the next one.
SubStepForgetting(state, pair) ==
    [out |-> <<(pair[1] - pair[2] - state.borrow) % Radix>> \o state.out, borrow |-> IF pair[1] < pair[2] THEN 1 ELSE 0]
\* For b <= a: digit by digit from the right, with the borrow.
SubStep(state, pair) ==
    LET diff == pair[1] - pair[2] - state.borrow
    IN  [out |-> <<IF diff < 0 THEN diff + Radix ELSE diff>> \o state.out, borrow |-> IF diff < 0 THEN 1 ELSE 0]
Aligned(a, b) == [i \in DOMAIN a |-> <<a[i], IF i <= Len(a) - Len(b) THEN 0 ELSE b[i - (Len(a) - Len(b))]>>]
BigSub(a, b) == BigTrim(FoldRight(LAMBDA pair, state : SubStep(state, pair), Aligned(BigTrim(a), BigTrim(b)), [out |-> <<>>, borrow |-> 0]).out)

\* out is least significant first; each row adds a digit of a times b and runs its carry up.
Carrying(state, at, sum) == [out |-> [state.out EXCEPT ![at] = sum % Radix], carry |-> sum \div Radix]
MulRow(out, i, digit, b) ==
    LET row == FoldLeft(LAMBDA state, j : Carrying(state, i + j - 1, state.out[i + j - 1] + digit * b[j] + state.carry),
                        [out |-> out, carry |-> 0], [j \in DOMAIN b |-> j])
        run == FoldLeft(LAMBDA state, at : Carrying(state, at, state.out[at] + state.carry),
                        row, [n \in 1..(Len(out) - (i + Len(b) - 1)) |-> i + Len(b) - 1 + n])
    IN  run.out
BigMul(a, b) ==
    LET x == Reverse(BigTrim(a))
        y == Reverse(BigTrim(b))
        rows == FoldLeft(LAMBDA out, i : MulRow(out, i, x[i], y), [k \in 1..(Len(x) + Len(y)) |-> 0], [i \in DOMAIN x |-> i])
    IN  BigTrim(Reverse(rows))

\* q goes up to Radix, one more than a digit.
MulSmallStep(state, digit, q) == [out |-> <<(digit * q + state.carry) % Radix>> \o state.out, carry |-> (digit * q + state.carry) \div Radix]
BigMulSmall(a, q) ==
    LET state == FoldRight(LAMBDA digit, s : MulSmallStep(s, digit, q), BigTrim(a), [out |-> <<>>, carry |-> 0])
    IN  BigTrim(<<state.carry \div Radix, state.carry % Radix>> \o state.out)

\* The quotient digit of a remainder with the next digit behind it: the largest that fits, found by bisection.
QuotientDigit(r, n) ==
    LET search[lo \in 0..Radix, hi \in 0..(Radix + 1)] ==
            IF lo + 1 >= hi THEN lo
            ELSE LET mid == (lo + hi) \div 2
                 IN  IF BigLeq(BigMulSmall(n, mid), r) THEN search[mid, hi] ELSE search[lo, mid]
    IN  search[0, Radix + 1]
BigRem(x, n) == BigTrim(FoldLeft(LAMBDA r, digit : BigSub(Append(r, digit), BigMulSmall(n, QuotientDigit(Append(r, digit), n))), Zero, x))

BigModPow(base, exp, modulus) ==
    LET power[b \in Seq(Nat), result \in Seq(Nat), e \in Nat] ==
            IF e = 0 THEN result
            ELSE power[BigRem(BigMul(b, b), modulus), IF e % 2 = 1 THEN BigRem(BigMul(result, b), modulus) ELSE result, e \div 2]
    IN  BigTrim(power[BigRem(base, modulus), <<1>>, exp])

-----------------------------------------------------------------------------
(* PKCS#1 *)

\* Filling the block panics when the modulus has less room than the digest needs.
EmsaFits(k) == k >= InfoLength + DigestLength + 3
EmsaEncode(info, digest, k) == <<0, 1>> \o [i \in 1..(k - InfoLength - DigestLength - 3) |-> Radix - 1] \o <<0>> \o info \o digest
PadTo(v, k) == [i \in 1..(k - Len(v)) |-> 0] \o v

RsaVerifies(signature, n, e, info, digest) ==
    LET modulus == BigTrim(n)
        exponent == FoldLeft(LAMBDA acc, d : acc * Radix + d, 0, e)
        k == Len(modulus)
    IN  /\ k >= MinModulus /\ exponent # 0 /\ Len(signature) <= k
        /\ PadTo(BigModPow(PadTo(signature, k), exponent, modulus), k) = EmsaEncode(info, digest, k)

-----------------------------------------------------------------------------
(* properties *)

ValueOf(digits) == FoldLeft(LAMBDA acc, d : acc * Radix + d, 0, digits)
PowerMod(x, e, m) == LET power[n \in 0..e] == IF n = 0 THEN 1 ELSE (x * power[n - 1]) % m IN power[e]

\* What is encoded is decoded again, whatever the length of the last chunk (base64url_encode, base64url_decode).
BytesSurvive(bytes) == Base64Decodes(Base64Encode(bytes)) /\ Base64Decode(Base64Encode(bytes)) = bytes

\* The digit-wise functions compute what the numbers say, with leading zeros, carries and borrows (big_cmp to big_mod_pow).
NumbersExact(a, b) ==
    LET x == ValueOf(a)
        y == ValueOf(b)
    IN  /\ BigLeq(a, b) <=> x <= y
        /\ y <= x => ValueOf(BigSub(a, b)) = x - y
        /\ ValueOf(BigMul(a, b)) = x * y
        /\ \A q \in 0..Radix : ValueOf(BigMulSmall(a, q)) = x * q
        /\ y > 0 => ValueOf(BigRem(a, b)) = x % y
        /\ y > 1 => \A e \in 1..3 : ValueOf(BigModPow(a, e, b)) = PowerMod(x, e, y)

\* A signature made with the private exponent verifies for its digest and for no other (rsa_sha256_verify).
SignatureExact(n, e, d, info) ==
    \A signed, read \in 0..(Radix - 1) :
        LET k == Len(BigTrim(n))
            signature == BigModPow(EmsaEncode(<<info>>, <<signed>>, k), d, n)
        IN  EmsaFits(k) /\ (RsaVerifies(signature, n, e, <<info>>, <<read>>) <=> signed = read)

CONSTANT Leeway     \* jwt_leeway_secs

None == "none"      \* Option::None
Filled(text) == text \notin {None, ""}
Or(text, default) == IF Filled(text) THEN text ELSE default

Refused(why) == [ok |-> FALSE, why |-> why]
Context(tenant, user, permissions) == [ok |-> TRUE, tenant |-> tenant, user |-> user, permissions |-> permissions]
DefaultPermissions == {<<"sparql", "query">>, <<"sparql", "explain">>, <<"metrics", "read">>, <<"health", "read">>,
                       <<"data", "write">>, <<"cluster", "admin">>}
SystemAdmin == Context("system", "system", {<<"*", "*">>})

\* AuthContext::can: a starred action under its resource, a starred resource only with a starred action.
Can(context, resource, action) ==
    <<"*", "*">> \in context.permissions \/ \E p \in context.permissions : p[1] = resource /\ p[2] \in {action, "*"}

\* TenantNamespace::is_owned over graphs that know their tenant and suffix; acme2 is not a part of acme.
IsOwned(tenant, graph) == graph.tenant = tenant

-----------------------------------------------------------------------------
(* header credentials *)

\* found: the record resolve_key answers, if any; an error of the registry is taken like no record.
Registered(config, request, found) == config.registry /\ Filled(request.key) /\ found # {}

ByRegistry(request, record) ==
    IF record.status # "active" THEN Refused("unauthorized")
    ELSE IF Filled(request.tenant) /\ request.tenant # record.id THEN Refused("forbidden")
    ELSE Context(record.id, Or(request.user, "api"), DefaultPermissions)

ByHeaders(config, request) ==
    IF config.api_key # None /\ request.key # config.api_key THEN Refused("unauthorized")
    ELSE IF ~Filled(request.tenant) \/ ~Filled(request.user) THEN Refused("unauthorized")
    ELSE Context(request.tenant, request.user, DefaultPermissions)

Authenticate(config, request, found) ==
    IF config.mode = "disabled" THEN SystemAdmin
    ELSE IF Registered(config, request, found) THEN ByRegistry(request, CHOOSE record \in found : TRUE)
    ELSE ByHeaders(config, request)

-----------------------------------------------------------------------------
(* tokens *)

\* parse_claims: only sub must be there.  Times and scope are sets of at most one value: a claim of
\* another JSON type is read as absent.
ClaimsRead(claims) == Filled(claims.sub)
Matches(required, claim) == required = None \/ claim = required

HsAccepts(token, config, time) ==
    /\ token.parts = 3 /\ token.alg = "HS256" /\ token.signer = config.secret
    /\ ClaimsRead(token.claims)
    /\ \A exp \in token.claims.exp : exp >= time
    /\ Matches(config.issuer, token.claims.iss) /\ Matches(config.audience, token.claims.aud)

\* The keys kept of a document; a document without any is refused.
Usable(key) == key.kty \in {"RSA", "oct"} /\ key.material
UsableKeys(document) == SelectSeq(document, Usable)
FirstOf(keys, found) == {keys[i] : i \in {j \in found : \A h \in found : j <= h}}

SelectedByAlg(keys, token) == FirstOf(keys, {i \in DOMAIN keys : keys[i].alg = token.alg})
\* Jwks::select: by the token's kid alone; without one the only key, or the first without kid for the algorithm.
Selected(keys, token) ==
    IF token.kid # None THEN FirstOf(keys, {i \in DOMAIN keys : keys[i].kid = token.kid})
    ELSE IF Len(keys) = 1 THEN {keys[1]}
    ELSE FirstOf(keys, {i \in DOMAIN keys : keys[i].kid = None /\ keys[i].alg = token.alg})
Verifies(key, token) == <<token.alg, key.kty>> \in {<<"RS256", "RSA">>, <<"HS256", "oct">>} /\ token.signer = key.name

ClaimsValid(claims, config, time) ==
    /\ \A exp \in claims.exp : exp + Leeway >= time
    /\ \A nbf \in claims.nbf : nbf <= time + Leeway
    /\ Matches(config.issuer, claims.iss) /\ Matches(config.audience, claims.aud)

OidcAccepts(token, keys, config, time) ==
    /\ token.parts = 3 /\ token.alg \in {"RS256", "HS256"}
    /\ \E key \in Selected(keys, token) : key.use # "enc" /\ Verifies(key, token)
    /\ ClaimsRead(token.claims) /\ ClaimsValid(token.claims, config, time)

\* auth_context_from_claims: an empty tenant claim hides the header; a blank scope is no scope.
ClaimedTenant(claims, header) == Or(IF claims.tenant # None THEN claims.tenant ELSE header, "system")
ClaimedPermissions(claims) == IF claims.scope = {} THEN DefaultPermissions ELSE UNION claims.scope
FromClaims(claims, request) == Context(ClaimedTenant(claims, request.tenant), claims.sub, ClaimedPermissions(claims))

\* authenticate_with_bearer; keys is what the cache answers, a set with the key sequence or empty.
Bears(request) == request.scheme \in {"Bearer ", "bearer "}
AuthenticateWithBearer(config, request, token, found, keys, time) ==
    IF Bears(request) /\ config.oidc
        THEN IF \E served \in keys : OidcAccepts(token, served, config, time) THEN FromClaims(token.claims, request) ELSE Refused("unauthorized")
    ELSE IF Bears(request) /\ config.secret # None
        THEN IF HsAccepts(token, config, time) THEN FromClaims(token.claims, request) ELSE Refused("unauthorized")
    ELSE Authenticate(config, request, found)

AllowsReadOnly(acl, key) == acl.read = None \/ key = acl.read
\* ManagementAcl: the write key reads, too; with only a read key everything asks for that one.
AllowsRead(acl, key) ==
    \/ acl.read = None /\ acl.write = None
    \/ key # None /\ key \in {acl.read, acl.write}
AllowsWrite(acl, key) ==
    \/ acl.read = None /\ acl.write = None
    \/ key # None /\ key = IF acl.write # None THEN acl.write ELSE acl.read

\* authorize_read, authorize_admin_view and authorize_admin_mutation of the management plane.
Manages(context, acl, key, mutation) ==
    context.ok /\ Can(context, "cluster", "admin") /\ IF mutation THEN AllowsWrite(acl, key) ELSE AllowsRead(acl, key)
\* admin_tenant_auth of the gateway.
AdministersTenants(context) == context.ok /\ Can(context, "cluster", "admin") /\ context.tenant = "system"

-----------------------------------------------------------------------------
(* properties *)

\* A token is accepted over one stretch of time, never once its signer's key was replaced under its kid, and always
\* inside its times when its kid, or without one its algorithm, names the signer's key alone (verify_oidc_token, select, validate_oidc_claims).
Rotated(keys, name) == [i \in DOMAIN keys |-> IF keys[i].name = name THEN [keys[i] EXCEPT !.name = "another"] ELSE keys[i]]
NamedAlone(keys, token) ==
    \E i \in DOMAIN keys : /\ keys[i].name = token.signer /\ keys[i].use # "enc" /\ Verifies(keys[i], token)
                           /\ \A j \in DOMAIN keys : keys[j].kid = token.kid <=> i = j
                           /\ token.kid = None => keys[i].alg = token.alg
Accepts(token, keys, config, time) == OidcAccepts(token, keys, config, time)
TokensExact(token, keys, config, times) ==
    LET accepted == {t \in times : Accepts(token, keys, config, t)}
    IN  /\ \A t, u \in accepted, between \in times : t <= between /\ between <= u => between \in accepted
        /\ \A t \in times : ~Accepts(token, Rotated(keys, token.signer), config, t)
        /\ \A t \in accepted : \A exp \in token.claims.exp : t <= exp + Leeway
        /\ token.parts = 3 /\ token.alg \in {"RS256", "HS256"} /\ ClaimsRead(token.claims) /\ NamedAlone(keys, token) =>
               accepted = {t \in times : ClaimsValid(token.claims, config, t)}

\* A registered key or a token that names its tenant decides who the request acts as: other tenant and user
\* headers are refused or change nothing but the user's name, and a disabled tenant's key admits nobody.
Decided(config, request, token, found) ==
    IF Bears(request) /\ (config.oidc \/ config.secret # None) THEN token.claims.tenant # None ELSE Registered(config, request, found)
IdentityBound(config, request, token, found, keys, headers) ==
    LET Given(r) == AuthenticateWithBearer(config, r, token, found, keys, 0)
        mine == Given(request)
        Other(h) == Given([request EXCEPT !.tenant = h.tenant, !.user = h.user])
    IN  config.mode = "enforced" /\ Decided(config, request, token, found) =>
            /\ \A h \in headers : (mine.ok /\ Other(h).ok) => mine.tenant = Other(h).tenant /\ mine.permissions = Other(h).permissions
            /\ (mine.ok /\ ~Bears(request)) => \A record \in found : record.status = "active" /\ mine.tenant = record.id

\* Whoever may change something may also see it; when a key is set, no request without one passes, and with
\* two keys the one for reading changes nothing (enforce_acl).
KeyRanks(acl, key) ==
    /\ AllowsWrite(acl, key) => AllowsRead(acl, key)
    /\ (acl.read # None \/ acl.write # None) => ~AllowsRead(acl, None)
    /\ (acl.write # None /\ AllowsWrite(acl, key)) => key = acl.write
=============================================================================
