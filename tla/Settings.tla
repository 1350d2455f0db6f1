---------------------------- MODULE Settings ----------------------------
(* Where a setting of the generated configuration comes from: its default, *)
(* the ConfigMap (internal/configs/configmaps.go) and the annotations of   *)
(* an Ingress (internal/configs/annotations.go), with the checks of        *)
(* internal/k8s/validation.go in front of them.  Pure definitions: the     *)
(* state machine that uses them is IngressConfig.                          *)
(*                                                                         *)
(* A parameter goes by its ConfigMap key; an annotation goes by the same   *)
(* name, its prefix (nginx.org/, nginx.com/, ...) dropped.  A raw value is *)
(* "yes" or "no" (two values that the key's parser accepts), "plus" (one   *)
(* that only NGINX Plus accepts), "huge" (an unsigned 64-bit integer that  *)
(* no signed one holds) or "junk" (one that no parser accepts).            *)
EXTENDS Naturals, Sequences, FiniteSets, Functions

Good == {"yes", "no"}
Junk == "junk"

\* The zero value that a failed parse returns next to its error.
Zero == "zero"

(***************************** ConfigMap keys *****************************)

\* Keys whose value is taken as it is (or only split into a list).
VerbatimConfigMapKeys ==
    {"proxy-connect-timeout", "proxy-read-timeout", "proxy-send-timeout",
     "proxy-hide-headers", "proxy-pass-headers", "client-max-body-size",
     "server-names-hash-bucket-size", "server-names-hash-max-size",
     "real-ip-header", "set-real-ip-from", "ssl-protocols", "ssl-ciphers",
     "ssl-dhparam-file", "error-log-level", "log-format", "stream-log-format",
     "proxy-buffers", "proxy-buffer-size", "proxy-max-temp-file-size",
     "main-snippets", "http-snippets", "location-snippets", "server-snippets",
     "worker-cpu-affinity", "worker-shutdown-timeout", "worker-connections",
     "worker-rlimit-nofile", "upstream-zone-size", "fail-timeout",
     "main-template", "ingress-template", "virtualserver-template",
     "stream-snippets", "keepalive-timeout"}

\* Keys whose value is dropped, with a message, when it does not parse.
CheckedConfigMapKeys ==
    {"http2", "redirect-to-https", "ssl-redirect", "proxy-protocol",
     "real-ip-recursive", "ssl-prefer-server-ciphers", "access-log-off",
     "log-format-escaping", "stream-log-format-escaping",
     "default-server-access-log-off", "proxy-buffering", "worker-processes",
     "keepalive", "max-fails", "keepalive-requests",
     "variables-hash-bucket-size", "variables-hash-max-size"}

HSTSKeys ==
    {"hsts", "hsts-max-age", "hsts-include-subdomains", "hsts-behind-proxy"}

ResolverKeys ==
    {"resolver-addresses", "resolver-ipv6", "resolver-valid", "resolver-timeout"}

OpenTracingKeys ==
    {"opentracing", "opentracing-tracer", "opentracing-tracer-config"}

AppProtectMainKeys ==
    {"app-protect-failure-mode-action", "app-protect-cookie-seed",
     "app-protect-cpu-thresholds", "app-protect-physical-memory-util-thresholds"}

ConfigMapKeys ==
    VerbatimConfigMapKeys \cup CheckedConfigMapKeys \cup HSTSKeys
        \cup ResolverKeys \cup OpenTracingKeys \cup AppProtectMainKeys
        \cup {"server-tokens", "lb-method"}

(**************************** annotation keys *****************************)

VerbatimAnnotations ==
    {"server-snippets", "location-snippets", "proxy-connect-timeout",
     "proxy-read-timeout", "proxy-send-timeout", "proxy-hide-headers",
     "proxy-pass-headers", "client-max-body-size", "proxy-buffers",
     "proxy-buffer-size", "upstream-zone-size", "proxy-max-temp-file-size",
     "fail-timeout"}

CheckedAnnotations ==
    {"redirect-to-https", "ssl-redirect", "proxy-buffering", "keepalive",
     "max-fails", "max-conns"}

\* Annotations that are assigned even when they do not parse.
ForcedAnnotations ==
    {"health-checks", "health-checks-mandatory",
     "health-checks-mandatory-queue", "slow-start"}

JWTAnnotations == {"jwt-realm", "jwt-key", "jwt-token", "jwt-login-url"}

PortAnnotations == {"listen-ports", "listen-ports-ssl"}

AppProtectAnnotations ==
    {"app-protect-enable", "app-protect-security-log-enable"}

\* Annotations that list services of the Ingress; their value is the set of
\* the services that the list declares well.
ServiceLists ==
    {"websocket-services", "rewrites", "ssl-services", "grpc-services",
     "sticky-cookie-services"}

ValueAnnotations ==
    VerbatimAnnotations \cup CheckedAnnotations \cup ForcedAnnotations
        \cup HSTSKeys \cup JWTAnnotations \cup AppProtectAnnotations
        \cup {"server-tokens", "lb-method", "internal-route"}

Annotations == ValueAnnotations \cup PortAnnotations \cup ServiceLists

Params == ConfigMapKeys \cup (Annotations \ ServiceLists)

(* NewDefaultConfigParams: "default" stands for the key's own default.     *)
DefaultParams ==
    [p \in Params |-> IF p \in PortAnnotations THEN <<"default">>
                      ELSE IF p \in JWTAnnotations \cup ForcedAnnotations THEN Zero
                      ELSE "default"]

(******************************** parsing *********************************)

\* The parameters with those of keys that m holds replaced.
Assign(params, m, keys) ==
    [p \in DOMAIN params |-> IF p \in keys \cap DOMAIN m THEN m[p] ELSE params[p]]

\* The keys for which m has one of the values.
Parsed(m, keys, values) == {k \in keys \cap DOMAIN m : m[k] \in values}

ParseLBMethod(params, m, st) ==
    Assign(params, m, Parsed(m, {"lb-method"},
                             IF st.plus THEN Good \cup {"plus"} ELSE Good))

\* A boolean becomes "on" or "off"; NGINX Plus takes any other text too.
OnOff(v) == IF v = "yes" THEN "on" ELSE IF v = "no" THEN "off" ELSE v

ParseServerTokens(params, m, st) ==
    LET key == {"server-tokens"}
        taken == Assign(params, m, IF st.plus THEN key ELSE Parsed(m, key, Good))
    IN  [taken EXCEPT !["server-tokens"] = OnOff(@)]

\* The settings of HSTS are taken together or not at all, and only when
\* hsts itself is among them.
ParseHSTS(params, m) ==
    IF "hsts" \in DOMAIN m /\ \A k \in HSTSKeys \cap DOMAIN m : m[k] \in Good
    THEN Assign(params, m, HSTSKeys)
    ELSE params

ParseResolver(params, m, st) ==
    IF ~st.plus THEN params
    ELSE Assign(params, m, (ResolverKeys \ {"resolver-ipv6"})
                             \cup Parsed(m, {"resolver-ipv6"}, Good))

\* opentracing asks for the tracer or for its configuration.
ParseOpenTracing(params, m) ==
    LET tracer == {"opentracing-tracer", "opentracing-tracer-config"}
        loaded == Assign(params, m, tracer)
    IN  IF tracer \cap DOMAIN m = {} THEN loaded
        ELSE Assign(loaded, m, Parsed(m, {"opentracing"}, Good))

\* The thresholds of the physical memory are assigned before they are checked.
ParseAppProtect(params, m, st) ==
    IF ~st.appProtect THEN params
    ELSE Assign(params, m,
            {"app-protect-cookie-seed", "app-protect-physical-memory-util-thresholds"}
            \cup Parsed(m, {"app-protect-failure-mode-action",
                            "app-protect-cpu-thresholds"}, Good))

ParseConfigMap(m, st) ==
    LET verbatim == Assign(DefaultParams, m, VerbatimConfigMapKeys)
        checked == Assign(verbatim, m, Parsed(m, CheckedConfigMapKeys, Good))
        plus == ParseServerTokens(ParseLBMethod(checked, m, st), m, st)
        groups == ParseResolver(ParseHSTS(plus, m), m, st)
    IN  ParseAppProtect(ParseOpenTracing(groups, m), m, st)

\* parsePort reads 16 bits, signed: "high" is a port above 32767.
ParsePort(v) == v \notin {Junk, "high"}

ParsePorts(params, ann) ==
    LET ports(p) == SelectSeq(ann[p], ParsePort)
    IN  [p \in DOMAIN params |->
            IF p \in PortAnnotations \cap DOMAIN ann /\ ports(p) # <<>>
            THEN ports(p) ELSE params[p]]

ParseForced(params, ann) ==
    [p \in DOMAIN params |->
        IF p \in ForcedAnnotations \cap DOMAIN ann
        THEN IF ann[p] \in Good THEN ann[p] ELSE Zero
        ELSE params[p]]

ParseAppProtectAnnotations(params, ann, st) ==
    IF ~st.appProtect THEN params
    ELSE LET taken == Assign(params, ann, Parsed(ann, AppProtectAnnotations, Good))
         IN  [p \in DOMAIN params |->
                IF p \in AppProtectAnnotations THEN OnOff(taken[p]) ELSE taken[p]]

ParseJWT(params, ann, st) ==
    IF st.plus THEN Assign(params, ann, JWTAnnotations) ELSE params

ParseInternalRoute(params, ann, st) ==
    IF st.internalRoutes THEN Assign(params, ann, Parsed(ann, {"internal-route"}, Good))
    ELSE params

ParseAnnotations(ann, base, st) ==
    LET verbatim == Assign(base, ann, VerbatimAnnotations)
        checked == Assign(verbatim, ann, Parsed(ann, CheckedAnnotations, Good))
        forced == ParseForced(checked, ann)
        plus == ParseServerTokens(ParseLBMethod(forced, ann, st), ann, st)
        hsts == ParseHSTS(plus, ann)
        ports == ParsePorts(ParseJWT(hsts, ann, st), ann)
    IN  ParseInternalRoute(ParseAppProtectAnnotations(ports, ann, st), ann, st)

ListedServices(ann, list) == IF list \in DOMAIN ann THEN ann[list] ELSE {}

(******************************* validation *******************************)

\* validateIngressAnnotations: an Ingress that fails it is not configured.
ValidateIngressAnnotations(ann, st) ==
    LET has(k) == k \in DOMAIN ann
    IN  /\ has("lb-method") => \/ ann["lb-method"] \in Good
                               \/ st.plus /\ ann["lb-method"] = "plus"
        /\ ~st.plus => ForcedAnnotations \cap DOMAIN ann = {}
        /\ \A k \in {"health-checks", "health-checks-mandatory", "slow-start"} :
             has(k) => ann[k] \in Good
        /\ has("health-checks-mandatory") =>
             has("health-checks") /\ ann["health-checks"] = "yes"
        /\ has("health-checks-mandatory-queue") =>
             /\ has("health-checks-mandatory")
             /\ ann["health-checks-mandatory"] = "yes"
             /\ ann["health-checks-mandatory-queue"] \in Good \cup {"huge"}

(************************** masters and minions ***************************)

MasterBlacklist ==
    {"rewrites", "ssl-services", "grpc-services", "websocket-services",
     "sticky-cookie-services", "health-checks", "health-checks-mandatory",
     "health-checks-mandatory-queue"}

\* The App Protect names of the list are spelled with underscores, so that
\* they name no annotation.
MinionBlacklist ==
    {"proxy-hide-headers", "proxy-pass-headers", "redirect-to-https",
     "ssl-redirect", "hsts", "hsts-max-age", "hsts-include-subdomains",
     "server-tokens", "listen-ports", "listen-ports-ssl", "server-snippets",
     "app_protect_enable", "app_protect_policy",
     "app_protect_security_log_enable", "app_protect_security_log"}

MinionInheritanceList ==
    {"proxy-connect-timeout", "proxy-read-timeout", "proxy-send-timeout",
     "client-max-body-size", "proxy-buffering", "proxy-buffers",
     "proxy-buffer-size", "proxy-max-temp-file-size", "upstream-zone-size",
     "location-snippets", "lb-method", "keepalive", "max-fails", "max-conns",
     "fail-timeout"}

FilterMasterAnnotations(ann) == Restrict(ann, DOMAIN ann \ MasterBlacklist)

FilterMinionAnnotations(ann) == Restrict(ann, DOMAIN ann \ MinionBlacklist)


MergeMasterAnnotationsIntoMinion(minion, master) ==
    [k \in DOMAIN minion \cup (DOMAIN master \cap MinionInheritanceList) |->
        IF k \in DOMAIN minion THEN minion[k] ELSE master[k]]

============================================================================
