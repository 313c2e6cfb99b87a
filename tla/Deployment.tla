------------------------------ MODULE Deployment ------------------------------
(* The configuration of a deployment and what it lets the process become:   *)
(* the environment variables a hosting project keeps, staging:secrets that  *)
(* imports them, production:check that judges them, the schemas every       *)
(* process parses them with, and the payment adapter the first request      *)
(* builds from them and keeps, whose webhook secrets rotate.                *)
(*                                                                         *)
(* A value is the class the code tells apart: an origin is loopback, a      *)
(* vercel.app host, the shop's own https host or plain http; a secret is    *)
(* short, weak (long, but a placeholder) or one of two strong ones.         *)
EXTENDS Integers, FiniteSets

CONSTANTS
  MaxEdits,      \* bound: changes made by hand to a configuration
  PreviousSecretWindow,   \* MAXIMUM_PREVIOUS_SECRET_WINDOW_MS, in days
  Horizon        \* bound: days

ASSUME DeploymentConstants ==
  MaxEdits \in Nat /\ PreviousSecretWindow \in Nat /\ Horizon \in Nat \ {0}

VARIABLES
  hosted,      \* the variables of the hosting project
  edits,       \* how often they were changed
  release,     \* the running process: its environment and whether it was checked
  adapter,     \* the memoized payment provider of the process
  day,
  answered     \* its answer to the last webhook delivery, the secret that verified it
               \* and what was handed to payments, refunds or disputes

deploymentVars == <<hosted, edits, release, adapter, day, answered>>

Unset == "unset"
NoExpiry == -1
Origins == {Unset, "loopback", "vercel", "shop", "plain"}
Databases == {Unset, "seatflow", "seatflow_test", "pooled", "direct", "other"}
Secrets == {Unset, "short", "weak", "one", "two"}
WebhookSecrets == {Unset, "short", "old", "new"}
Flag == {Unset, "true"}
Switch == {Unset, "false"}
Given == {Unset, "set"}

\* The variables the code reads and the values it tells apart.  Every bounded
\* number of every schema is one variable: in its range or not.
ValuesOf ==
  [NODE_ENV |-> {Unset, "development", "production"},
   SEATFLOW_E2E_TEST_MODE |-> Flag, SEATFLOW_PRODUCTION_LAUNCH |-> Flag,
   SEATFLOW_DEPLOYMENT_PROFILE |-> {Unset, "local", "isolated-e2e", "staging-demo", "production"},
   SEATFLOW_STAGING_ORIGIN |-> Origins, BETTER_AUTH_URL |-> Origins,
   NEXT_PUBLIC_APP_URL |-> Origins, NEXT_PUBLIC_REALTIME_URL |-> Origins,
   DATABASE_URL |-> Databases, DIRECT_URL |-> Databases, TEST_DATABASE_URL |-> Databases,
   SEATFLOW_PROTECTED_DATABASE_URL |-> Databases,
   BETTER_AUTH_SECRET |-> Secrets, TICKET_CREDENTIAL_SECRET |-> Secrets,
   PAYMENT_PROVIDER |-> {Unset, "LOCAL_SIGNED", "EXTERNAL", "STRIPE"},
   LOCAL_PAYMENT_WEBHOOK_SECRET |-> Secrets,
   STRIPE_SECRET_KEY |-> {Unset, "test", "live", "unknown"},
   STRIPE_MODE |-> {Unset, "test", "live"},
   STRIPE_WEBHOOK_SECRET_CURRENT |-> WebhookSecrets,
   STRIPE_WEBHOOK_SECRET_PREVIOUS |-> WebhookSecrets,
   STRIPE_WEBHOOK_SECRET_PREVIOUS_EXPIRES_AT |-> {NoExpiry} \cup 0..Horizon,
   STRIPE_WEBHOOK_EVENTS |-> Given,
   NOTIFICATION_PROVIDER |-> {Unset, "LOCAL_FILE", "EXTERNAL", "RESEND"},
   RESEND_API_KEY |-> {Unset, "re", "unknown"}, RESEND_MODE |-> {Unset, "test", "live"},
   RESEND_FROM_ADDRESS |-> {Unset, "mailbox", "malformed"}, RESEND_TEST_RECIPIENT |-> Given,
   LOCAL_EMAIL_CAPTURE_DIR |-> Given,
   REDIS_URL |-> {Unset, "local", "plain", "tls"},
   REDIS_STREAM_PREFIX |-> {Unset, "development", "staging", "live"},
   SEATFLOW_JOB_MODE |-> {Unset, "worker", "serverless"},
   QSTASH_CURRENT_SIGNING_KEY |-> {Unset, "first", "second"},
   QSTASH_NEXT_SIGNING_KEY |-> {Unset, "first", "second"}, QSTASH_TOKEN |-> Given,
   TRUSTED_PROXY_MODE |-> {Unset, "none", "trusted-hop", "platform-header"},
   TRUSTED_PROXY_HEADER |-> Given,
   LOG_LEVEL |-> {Unset, "debug"}, DEBUG |-> Given,
   RATE_LIMIT_ENABLED |-> Switch, SECURITY_HEADERS_ENABLED |-> Switch,
   SEATFLOW_DECLARED_WORKERS |-> Given,
   numbers |-> {"inRange", "outOfRange"}]

Variables == DOMAIN ValuesOf
Expiry == "STRIPE_WEBHOOK_SECRET_PREVIOUS_EXPIRES_AT"
Has(c, v) == IF v = Expiry THEN c[v] # NoExpiry ELSE v # "numbers" /\ c[v] # Unset

Blank ==
  [v \in Variables |-> CASE v = Expiry -> NoExpiry [] v = "numbers" -> "inRange" [] OTHER -> Unset]

-----------------------------------------------------------------------------
(* Value classes *)

isLoopback(u) == u = "loopback"
isHttps(u) == u \in {"vercel", "shop"}
isStagingOrigin(u, declared) == u = "vercel" \/ (u = "shop" /\ declared = "shop")
isLocalDatabase(u) == u \in {"seatflow", "seatflow_test"}
isTestMarkedDatabase(u) == u = "seatflow_test"
isLong(s) == s \notin {Unset, "short"}
isWeakSecret(s) == s \in {Unset, "short", "weak"}
looksLikePlaceholder(s) == s = "weak"

classifyNeonConnection(u) ==
  CASE u = Unset -> "invalid" [] u \in {"pooled", "direct"} -> u [] OTHER -> "not-neon"

-----------------------------------------------------------------------------
(* Which deployment this is *)

evaluateIsolatedE2EMode(c) ==
  /\ c.SEATFLOW_E2E_TEST_MODE = "true"
  /\ isTestMarkedDatabase(c.DATABASE_URL)
  /\ Has(c, "SEATFLOW_PROTECTED_DATABASE_URL") =>
       c.SEATFLOW_PROTECTED_DATABASE_URL \notin {c.DATABASE_URL, c.DIRECT_URL}
  /\ isLoopback(c.BETTER_AUTH_URL) /\ isLoopback(c.NEXT_PUBLIC_APP_URL)
  /\ isLong(c.LOCAL_PAYMENT_WEBHOOK_SECRET)
  /\ ~Has(c, "STRIPE_SECRET_KEY") /\ ~Has(c, "RESEND_API_KEY")

\* A demo that keeps its Resend account in live mode.
MutantStagingDemo(c) ==
  /\ c.SEATFLOW_DEPLOYMENT_PROFILE = "staging-demo"
  /\ c.NODE_ENV = "production"
  /\ isStagingOrigin(c.BETTER_AUTH_URL, c.SEATFLOW_STAGING_ORIGIN)
  /\ isStagingOrigin(c.NEXT_PUBLIC_APP_URL, c.SEATFLOW_STAGING_ORIGIN)
  /\ c.PAYMENT_PROVIDER = "LOCAL_SIGNED"
  /\ isLong(c.LOCAL_PAYMENT_WEBHOOK_SECRET)
  /\ ~Has(c, "STRIPE_SECRET_KEY") /\ ~Has(c, "STRIPE_WEBHOOK_SECRET_CURRENT")
  /\ c.STRIPE_MODE # "live"
  /\ c.SEATFLOW_PRODUCTION_LAUNCH # "true"

evaluateStagingDemoMode(c) ==
  /\ c.SEATFLOW_DEPLOYMENT_PROFILE = "staging-demo"
  /\ c.NODE_ENV = "production"
  /\ isStagingOrigin(c.BETTER_AUTH_URL, c.SEATFLOW_STAGING_ORIGIN)
  /\ isStagingOrigin(c.NEXT_PUBLIC_APP_URL, c.SEATFLOW_STAGING_ORIGIN)
  /\ c.PAYMENT_PROVIDER = "LOCAL_SIGNED"
  /\ isLong(c.LOCAL_PAYMENT_WEBHOOK_SECRET)
  /\ ~Has(c, "STRIPE_SECRET_KEY") /\ ~Has(c, "STRIPE_WEBHOOK_SECRET_CURRENT")
  /\ c.STRIPE_MODE # "live" /\ c.RESEND_MODE # "live"
  /\ c.SEATFLOW_PRODUCTION_LAUNCH # "true"

resolveDeploymentProfile(c) ==
  LET undeclared == IF c.NODE_ENV = "production" THEN "production" ELSE "local"
      declared == c.SEATFLOW_DEPLOYMENT_PROFILE
  IN IF evaluateIsolatedE2EMode(c) THEN "isolated-e2e"
     ELSE CASE declared = "staging-demo" /\ ~evaluateStagingDemoMode(c) -> "production"
            [] declared \in {Unset, "isolated-e2e"} -> undeclared
            [] OTHER -> declared

allowsSimulatedPayments(profile) == profile # "production"
requiresDemoDisclosure(profile) == profile \in {"staging-demo", "local"}

-----------------------------------------------------------------------------
(* What a process can read: a schema refuses the whole environment or none  *)

readApplicationEnvironment(c) ==
  /\ Has(c, "DATABASE_URL") /\ isLong(c.BETTER_AUTH_SECRET) /\ Has(c, "BETTER_AUTH_URL")

readInventoryEventEnvironment(c) == Has(c, "REDIS_URL") /\ c.numbers = "inRange"

LocalPaymentIsAllowed(c) ==
  /\ Has(c, "LOCAL_PAYMENT_WEBHOOK_SECRET")
  /\ c.NODE_ENV = "production" => evaluateIsolatedE2EMode(c) \/ evaluateStagingDemoMode(c)

StripeIsComplete(c) ==
  /\ Has(c, "STRIPE_SECRET_KEY") /\ Has(c, "STRIPE_WEBHOOK_SECRET_CURRENT") /\ Has(c, "STRIPE_MODE")
  /\ c.STRIPE_SECRET_KEY = c.STRIPE_MODE   \* stripeKeyMode
  /\ Has(c, "STRIPE_WEBHOOK_SECRET_PREVIOUS") =>
       Has(c, Expiry) /\ c.STRIPE_WEBHOOK_SECRET_PREVIOUS # c.STRIPE_WEBHOOK_SECRET_CURRENT

readPaymentEnvironment(c) ==
  /\ Has(c, "PAYMENT_PROVIDER") /\ c.numbers = "inRange"
  /\ "short" \notin {c.LOCAL_PAYMENT_WEBHOOK_SECRET, c.STRIPE_WEBHOOK_SECRET_CURRENT,
                      c.STRIPE_WEBHOOK_SECRET_PREVIOUS}
  /\ c.PAYMENT_PROVIDER = "LOCAL_SIGNED" => LocalPaymentIsAllowed(c)
  /\ c.PAYMENT_PROVIDER = "STRIPE" => StripeIsComplete(c)

readTicketEnvironment(c) == isLong(c.TICKET_CREDENTIAL_SECRET) /\ c.numbers = "inRange"

readNotificationEnvironment(c) ==
  /\ Has(c, "NOTIFICATION_PROVIDER") /\ c.numbers = "inRange"
  /\ c.RESEND_FROM_ADDRESS # "malformed"
  /\ c.NOTIFICATION_PROVIDER = "LOCAL_FILE" =>
       Has(c, "LOCAL_EMAIL_CAPTURE_DIR") /\ c.NODE_ENV # "production"
  /\ c.NOTIFICATION_PROVIDER = "RESEND" =>
       /\ c.RESEND_API_KEY = "re" /\ Has(c, "RESEND_FROM_ADDRESS") /\ Has(c, "RESEND_MODE")
       /\ c.RESEND_MODE = "test" => Has(c, "RESEND_TEST_RECIPIENT")

readServerlessJobEnvironment(c) ==
  /\ c.numbers = "inRange"
  /\ c.SEATFLOW_JOB_MODE = "serverless" =>
       /\ Has(c, "QSTASH_CURRENT_SIGNING_KEY") /\ Has(c, "QSTASH_NEXT_SIGNING_KEY")
       /\ c.QSTASH_CURRENT_SIGNING_KEY # c.QSTASH_NEXT_SIGNING_KEY

readOperationsEnvironment(c) ==
  c.numbers = "inRange" /\ ((c.TRUSTED_PROXY_MODE = "platform-header") <=> Has(c, "TRUSTED_PROXY_HEADER"))

\* The parts of the process that have an environment to work with.
Services == {"web", "realtime", "payments", "tickets", "mail", "jobs", "operations"}
Serving(c) ==
  {s \in Services :
     CASE s = "web" -> readApplicationEnvironment(c)
       [] s = "realtime" -> readInventoryEventEnvironment(c)
       [] s = "payments" -> readPaymentEnvironment(c)
       [] s = "tickets" -> readTicketEnvironment(c)
       [] s = "mail" -> readNotificationEnvironment(c)
       [] s = "jobs" -> readServerlessJobEnvironment(c)
       [] s = "operations" -> readOperationsEnvironment(c)}

-----------------------------------------------------------------------------
(* The payment adapter, its webhook secrets, and the mail it goes with *)

\* A previous secret that may stay as long as its expiry says.
MutantSecretWindow(w, today) ==
  /\ isLong(w.current)
  /\ w.previous # Unset =>
       isLong(w.previous) /\ w.previous # w.current /\ w.expiresAt # NoExpiry

validateSecretWindow(w, today) ==
  /\ isLong(w.current)
  /\ w.previous # Unset =>
       /\ isLong(w.previous) /\ w.previous # w.current /\ w.expiresAt # NoExpiry
       /\ w.expiresAt - today <= PreviousSecretWindow

activeSecretsForVerification(w, today) ==
  IF ~validateSecretWindow(w, today) THEN {}
  ELSE {w.current} \cup (IF w.previous # Unset /\ w.expiresAt > today THEN {w.previous} ELSE {})

StripeWindow(c) ==
  [current |-> c.STRIPE_WEBHOOK_SECRET_CURRENT, previous |-> c.STRIPE_WEBHOOK_SECRET_PREVIOUS,
   expiresAt |-> c[Expiry]]
LocalWindow(c) ==
  [current |-> c.LOCAL_PAYMENT_WEBHOOK_SECRET, previous |-> Unset, expiresAt |-> NoExpiry]
SecretWindow(name, c) == IF name = "STRIPE" THEN StripeWindow(c) ELSE LocalWindow(c)

LocalSignedPaymentProvider(c) ==
  /\ c.NODE_ENV = "production" => allowsSimulatedPayments(resolveDeploymentProfile(c))
  /\ isLong(c.LOCAL_PAYMENT_WEBHOOK_SECRET)

NoAdapter == [name |-> "none", builtOn |-> 0]

\* Once built an adapter is kept; a configuration that is refused is tried again.
getConfiguredPaymentProvider(c, today) ==
  LET allowed == /\ readPaymentEnvironment(c)
                 /\ \/ c.PAYMENT_PROVIDER = "LOCAL_SIGNED" /\ LocalSignedPaymentProvider(c)
                    \/ c.PAYMENT_PROVIDER = "STRIPE" /\ validateSecretWindow(StripeWindow(c), today)
  IN IF adapter # NoAdapter THEN adapter
     ELSE IF allowed THEN [name |-> c.PAYMENT_PROVIDER, builtOn |-> today] ELSE NoAdapter

\* Whom the mail of a deployment reaches.
createDeployedNotificationProvider(c) ==
  IF readNotificationEnvironment(c) /\ c.NOTIFICATION_PROVIDER = "RESEND"
  THEN IF c.RESEND_MODE = "live" THEN "customers" ELSE "test recipient"
  ELSE "nobody"

\* What the page says of payments, and whether it says anything.
describePaymentCapability(c) ==
  CASE c.PAYMENT_PROVIDER = "LOCAL_SIGNED" -> "simulated"
    [] c.PAYMENT_PROVIDER = "STRIPE" -> IF c.STRIPE_MODE = "live" THEN "live" ELSE "test"
    [] OTHER -> "none"
EnvironmentBanner(c) ==
  IF requiresDemoDisclosure(resolveDeploymentProfile(c)) THEN describePaymentCapability(c) ELSE "nothing"

-----------------------------------------------------------------------------
(* production:check *)

validateStripeConfiguration(c) ==
  /\ Has(c, "STRIPE_WEBHOOK_SECRET_CURRENT")
  /\ c.STRIPE_MODE = "live" /\ c.STRIPE_SECRET_KEY = "live"
  /\ Has(c, "STRIPE_WEBHOOK_SECRET_PREVIOUS") =>
       Has(c, Expiry) /\ c.STRIPE_WEBHOOK_SECRET_PREVIOUS # c.STRIPE_WEBHOOK_SECRET_CURRENT
  /\ Has(c, "STRIPE_WEBHOOK_EVENTS")

validateResendConfiguration(c) ==
  c.RESEND_API_KEY = "re" /\ Has(c, "RESEND_FROM_ADDRESS") /\ c.RESEND_MODE = "live"

ProvidersAreReal(c) ==
  /\ c.NODE_ENV = "production" /\ ~Has(c, "SEATFLOW_E2E_TEST_MODE")
  /\ c.PAYMENT_PROVIDER = "STRIPE" /\ validateStripeConfiguration(c)
  /\ ~Has(c, "LOCAL_PAYMENT_WEBHOOK_SECRET")
  /\ c.NOTIFICATION_PROVIDER = "RESEND" /\ validateResendConfiguration(c)
  /\ ~Has(c, "LOCAL_EMAIL_CAPTURE_DIR")

SecretsAreStrong(c) ==
  /\ ~isWeakSecret(c.TICKET_CREDENTIAL_SECRET) /\ ~isWeakSecret(c.BETTER_AUTH_SECRET)
  /\ c.TICKET_CREDENTIAL_SECRET # c.BETTER_AUTH_SECRET

AddressesAreSafe(c) ==
  /\ Has(c, "DATABASE_URL")
  /\ Has(c, "TEST_DATABASE_URL") => c.TEST_DATABASE_URL # c.DATABASE_URL
  /\ isHttps(c.BETTER_AUTH_URL) /\ isHttps(c.NEXT_PUBLIC_APP_URL)
  /\ c.NEXT_PUBLIC_REALTIME_URL \in {Unset, "vercel", "shop"}

TransportIsSafe(c, redisAvailable) ==
  /\ Has(c, "REDIS_URL") /\ redisAvailable
  /\ c.REDIS_STREAM_PREFIX \notin {Unset, "development"}
  /\ (c.TRUSTED_PROXY_MODE = "platform-header") <=> Has(c, "TRUSTED_PROXY_HEADER")

ControlsAreOn(c) ==
  /\ c.LOG_LEVEL # "debug" /\ ~Has(c, "DEBUG")
  /\ c.RATE_LIMIT_ENABLED # "false" /\ c.SECURITY_HEADERS_ENABLED # "false"
  /\ Has(c, "SEATFLOW_DECLARED_WORKERS")

\* Live probes: a gate is over its limit, a financial probe fails on its own,
\* and an unreachable database fails all of them.
FinancialProbes == {"refund_backlog", "unresolved_chargebacks", "financial_divergence", "ticket_revocation_backlog"}
DatabaseProbes ==
  FinancialProbes \cup {"migrations", "outbox_dead_letters", "notification_dead_letters", "paid_unfulfilled"}
Clear == [reachable |-> TRUE, over |-> {}, failing |-> {}]
Books ==
  {Clear, [Clear EXCEPT !.reachable = FALSE]} \cup {[Clear EXCEPT !.over = {g}] : g \in DatabaseProbes}
    \cup {[Clear EXCEPT !.failing = {g}] : g \in FinancialProbes}

collectFinancialProbes(books) ==
  [over |-> (books.over \cap FinancialProbes) \ books.failing, probeFailures |-> books.failing]

probeDatabase(books) ==
  IF ~books.reachable THEN [over |-> {}, probeFailures |-> DatabaseProbes]
  ELSE [collectFinancialProbes(books) EXCEPT !.over = @ \cup (books.over \ FinancialProbes)]

validateProductionConfiguration(c, redisAvailable, probes) ==
  /\ ProvidersAreReal(c) /\ SecretsAreStrong(c) /\ AddressesAreSafe(c)
  /\ TransportIsSafe(c, redisAvailable) /\ ControlsAreOn(c)
  /\ probes.over = {} /\ probes.probeFailures = {}

\* The gates of a staging demo: what it claims to be, and what it could reach.
StagingDemoIsSealed(c) ==
  /\ c.SEATFLOW_DEPLOYMENT_PROFILE = "staging-demo"
  /\ ~Has(c, "SEATFLOW_PRODUCTION_LAUNCH") /\ ~Has(c, "SEATFLOW_E2E_TEST_MODE")
  /\ c.PAYMENT_PROVIDER = "LOCAL_SIGNED" /\ ~isWeakSecret(c.LOCAL_PAYMENT_WEBHOOK_SECRET)
  /\ ~Has(c, "STRIPE_SECRET_KEY") /\ ~Has(c, "STRIPE_WEBHOOK_SECRET_CURRENT")
  /\ c.NOTIFICATION_PROVIDER = "RESEND" /\ c.RESEND_MODE = "test" /\ Has(c, "RESEND_TEST_RECIPIENT")
  /\ ~Has(c, "LOCAL_EMAIL_CAPTURE_DIR") /\ SecretsAreStrong(c)

validateStagingDemoConfiguration(c) ==
  /\ StagingDemoIsSealed(c)
  /\ isHttps(c.BETTER_AUTH_URL) /\ isHttps(c.NEXT_PUBLIC_APP_URL)
  /\ Has(c, "DATABASE_URL") /\ ~Has(c, "TEST_DATABASE_URL")
  /\ c.SEATFLOW_JOB_MODE = "serverless"
  /\ Has(c, "QSTASH_CURRENT_SIGNING_KEY") /\ Has(c, "QSTASH_NEXT_SIGNING_KEY")
  /\ c.QSTASH_CURRENT_SIGNING_KEY # c.QSTASH_NEXT_SIGNING_KEY
  /\ c.RATE_LIMIT_ENABLED # "false" /\ c.SECURITY_HEADERS_ENABLED # "false"

-----------------------------------------------------------------------------
(* staging:secrets *)

REQUIRED_STAGING_VARIABLES ==
  {"DATABASE_URL", "DIRECT_URL", "BETTER_AUTH_SECRET", "BETTER_AUTH_URL", "NEXT_PUBLIC_APP_URL",
   "TICKET_CREDENTIAL_SECRET", "LOCAL_PAYMENT_WEBHOOK_SECRET", "PAYMENT_PROVIDER",
   "NOTIFICATION_PROVIDER", "RESEND_API_KEY", "RESEND_FROM_ADDRESS", "RESEND_MODE",
   "RESEND_TEST_RECIPIENT", "QSTASH_CURRENT_SIGNING_KEY", "QSTASH_NEXT_SIGNING_KEY",
   "SEATFLOW_DEPLOYMENT_PROFILE", "SEATFLOW_JOB_MODE", "REDIS_STREAM_PREFIX"}
LOCAL_ONLY_VARIABLES ==
  {"TEST_DATABASE_URL", "LOCAL_EMAIL_CAPTURE_DIR", "SEATFLOW_E2E_TEST_MODE",
   "SEATFLOW_PROTECTED_DATABASE_URL"}
NON_IMPORTABLE_VARIABLES == LOCAL_ONLY_VARIABLES \cup {"QSTASH_TOKEN"}

StagingValuesAreFilled(f) ==
  /\ \A v \in REQUIRED_STAGING_VARIABLES : Has(f, v)
  /\ \A v \in Variables \ {Expiry} : ~looksLikePlaceholder(f[v])
  /\ \A v \in LOCAL_ONLY_VARIABLES : ~Has(f, v)

StagingEndpointsAreHosted(f) ==
  /\ classifyNeonConnection(f.DATABASE_URL) # "direct" /\ classifyNeonConnection(f.DIRECT_URL) # "pooled"
  /\ f.DATABASE_URL # f.DIRECT_URL
  /\ ~isLocalDatabase(f.DATABASE_URL) /\ ~isLocalDatabase(f.DIRECT_URL)
  /\ \A v \in {"BETTER_AUTH_URL", "NEXT_PUBLIC_APP_URL", "SEATFLOW_STAGING_ORIGIN"} :
       Has(f, v) => isHttps(f[v])
  /\ f.REDIS_URL \in {Unset, "tls"}

StagingProvidersAreSealed(f) ==
  /\ ~Has(f, "STRIPE_SECRET_KEY") /\ ~Has(f, "STRIPE_WEBHOOK_SECRET_CURRENT")
  /\ ~Has(f, "STRIPE_WEBHOOK_SECRET_PREVIOUS") /\ f.STRIPE_MODE # "live"
  /\ f.PAYMENT_PROVIDER = "LOCAL_SIGNED"
  /\ f.RESEND_MODE # "live" /\ f.RESEND_API_KEY = "re"

StagingSecretsAreSound(f) ==
  /\ ~isWeakSecret(f.LOCAL_PAYMENT_WEBHOOK_SECRET) /\ SecretsAreStrong(f)
  /\ f.QSTASH_CURRENT_SIGNING_KEY # f.QSTASH_NEXT_SIGNING_KEY
  /\ f.SEATFLOW_DEPLOYMENT_PROFILE = "staging-demo" /\ f.SEATFLOW_JOB_MODE = "serverless"
  /\ f.SEATFLOW_PRODUCTION_LAUNCH # "true"

validateStagingSecrets(f) ==
  /\ StagingValuesAreFilled(f) /\ StagingEndpointsAreHosted(f)
  /\ StagingProvidersAreSealed(f) /\ StagingSecretsAreSound(f)

-----------------------------------------------------------------------------
(* Where configurations start: .env.example, the browser harness,           *)
(* .env.staging.example filled in, and a shop that is live, that rotates    *)
(* its secret, or that still rehearses in test mode                         *)

\* A configuration with some of its variables given other values.
With(c, given) == [v \in Variables |-> IF v \in DOMAIN given THEN given[v] ELSE c[v]]

Development ==
  With(Blank, [NODE_ENV |-> "development", DATABASE_URL |-> "seatflow", DIRECT_URL |-> "seatflow",
               TEST_DATABASE_URL |-> "seatflow_test", BETTER_AUTH_SECRET |-> "weak",
               TICKET_CREDENTIAL_SECRET |-> "weak", BETTER_AUTH_URL |-> "loopback",
               NEXT_PUBLIC_APP_URL |-> "loopback", NEXT_PUBLIC_REALTIME_URL |-> "loopback",
               REDIS_URL |-> "local", REDIS_STREAM_PREFIX |-> "development",
               PAYMENT_PROVIDER |-> "LOCAL_SIGNED", LOCAL_PAYMENT_WEBHOOK_SECRET |-> "weak",
               NOTIFICATION_PROVIDER |-> "LOCAL_FILE", LOCAL_EMAIL_CAPTURE_DIR |-> "set",
               TRUSTED_PROXY_MODE |-> "none", SEATFLOW_DECLARED_WORKERS |-> "set"])

Harness ==
  With(Development, [NODE_ENV |-> "production", SEATFLOW_E2E_TEST_MODE |-> "true",
                     DATABASE_URL |-> "seatflow_test", DIRECT_URL |-> "seatflow_test",
                     SEATFLOW_PROTECTED_DATABASE_URL |-> "seatflow"])

StagingFile ==
  With(Blank, [SEATFLOW_DEPLOYMENT_PROFILE |-> "staging-demo", SEATFLOW_JOB_MODE |-> "serverless",
               DATABASE_URL |-> "pooled", DIRECT_URL |-> "direct", BETTER_AUTH_URL |-> "vercel",
               NEXT_PUBLIC_APP_URL |-> "vercel", BETTER_AUTH_SECRET |-> "one",
               TICKET_CREDENTIAL_SECRET |-> "two", PAYMENT_PROVIDER |-> "LOCAL_SIGNED",
               LOCAL_PAYMENT_WEBHOOK_SECRET |-> "one", NOTIFICATION_PROVIDER |-> "RESEND",
               RESEND_API_KEY |-> "re", RESEND_FROM_ADDRESS |-> "mailbox", RESEND_MODE |-> "test",
               RESEND_TEST_RECIPIENT |-> "set", QSTASH_TOKEN |-> "set",
               QSTASH_CURRENT_SIGNING_KEY |-> "first", QSTASH_NEXT_SIGNING_KEY |-> "second",
               REDIS_URL |-> "tls", REDIS_STREAM_PREFIX |-> "staging",
               TRUSTED_PROXY_MODE |-> "trusted-hop"])

Shop ==
  With(Blank, [NODE_ENV |-> "production", DATABASE_URL |-> "other", BETTER_AUTH_SECRET |-> "one",
               TICKET_CREDENTIAL_SECRET |-> "two", BETTER_AUTH_URL |-> "shop",
               NEXT_PUBLIC_APP_URL |-> "shop", PAYMENT_PROVIDER |-> "STRIPE",
               STRIPE_SECRET_KEY |-> "live", STRIPE_MODE |-> "live",
               STRIPE_WEBHOOK_SECRET_CURRENT |-> "old", STRIPE_WEBHOOK_EVENTS |-> "set",
               NOTIFICATION_PROVIDER |-> "RESEND", RESEND_API_KEY |-> "re",
               RESEND_FROM_ADDRESS |-> "mailbox", RESEND_MODE |-> "live", REDIS_URL |-> "tls",
               REDIS_STREAM_PREFIX |-> "live", TRUSTED_PROXY_MODE |-> "trusted-hop",
               SEATFLOW_DECLARED_WORKERS |-> "set"])

RotatingShop ==
  With(Shop, [STRIPE_WEBHOOK_SECRET_CURRENT |-> "new", STRIPE_WEBHOOK_SECRET_PREVIOUS |-> "old",
              STRIPE_WEBHOOK_SECRET_PREVIOUS_EXPIRES_AT |-> 1])

RehearsingShop == With(Shop, [STRIPE_SECRET_KEY |-> "test", STRIPE_MODE |-> "test"])
Staging == With(StagingFile, [NODE_ENV |-> "production", QSTASH_TOKEN |-> Unset])
Empty == With(Blank, [NODE_ENV |-> "production"])

-----------------------------------------------------------------------------
NoDelivery == [verified |-> Unset, status |-> 0, handed |-> [category |-> "UNSUPPORTED", status |-> Unset]]
NotReleased == [config |-> <<>>, running |-> FALSE, checked |-> FALSE, serving |-> {}]

DeploymentTypeOK ==
  /\ \A v \in Variables : hosted[v] \in ValuesOf[v] /\ (release.running => release.config[v] \in ValuesOf[v])
  /\ edits \in 0..MaxEdits /\ day \in 0..Horizon
  /\ release.checked \in BOOLEAN /\ release.running \in BOOLEAN /\ release.serving \subseteq Services
  /\ adapter.name \in {"none", "LOCAL_SIGNED", "STRIPE"} /\ adapter.builtOn \in 0..day
  /\ answered.status \in {0, 200, 400, 404, 413, 503}
  /\ answered.handed.category \in {"PAYMENT", "REFUND", "DISPUTE", "UNSUPPORTED"}

DeploymentInit ==
  /\ hosted \in {Development, Harness, Staging, Shop, RotatingShop, RehearsingShop, Empty}
  /\ edits = 0 /\ day = 0
  /\ release = NotReleased /\ adapter = NoAdapter /\ answered = NoDelivery

\* Someone sets or removes a variable of the hosting project.
EditVariable(v, x) ==
  /\ edits < MaxEdits /\ hosted[v] # x /\ answered = NoDelivery
  /\ hosted' = [hosted EXCEPT ![v] = x] /\ edits' = edits + 1
  /\ UNCHANGED <<release, adapter, day, answered>>

\* staging:secrets import writes the variables of a file that passes, one call
\* of the hosting CLI each; the ones that fail keep their old values.
runImport(file, failed) ==
  /\ edits = 0 /\ answered = NoDelivery /\ validateStagingSecrets(file)
  /\ LET importable == {v \in Variables : Has(file, v)} \ NON_IMPORTABLE_VARIABLES
     IN hosted' = [v \in Variables |-> IF v \in importable \ failed THEN file[v] ELSE hosted[v]]
  /\ edits' = MaxEdits
  /\ UNCHANGED <<release, adapter, day, answered>>

\* A new process takes the environment as it is; nothing makes it wait for a check.
Release(checked) ==
  /\ answered = NoDelivery
  /\ release' = [config |-> hosted, running |-> TRUE, checked |-> checked, serving |-> Serving(hosted)]
  /\ adapter' = NoAdapter
  /\ UNCHANGED <<hosted, edits, day, answered>>

Deploy == Release(FALSE)

\* production:check, with its probes or without, and then a deployment.
CheckAndDeploy(skipProbes, redisAvailable, books) ==
  /\ validateProductionConfiguration(hosted, skipProbes \/ redisAvailable,
        probeDatabase(IF skipProbes THEN Clear ELSE books))
  /\ Release(TRUE)

\* The first checkout or job that needs the adapter builds it.
UseAdapter ==
  /\ release.running /\ adapter = NoAdapter /\ answered = NoDelivery
  /\ adapter' = getConfiguredPaymentProvider(release.config, day) /\ adapter' # NoAdapter
  /\ UNCHANGED <<hosted, edits, release, day, answered>>

\* What an event says: its type and the provider's word for the state of its object.
Event(type, word) == [type |-> type, word |-> word]
LocalEvents ==
  {Event("payment.succeeded", "succeeded"), Event("payment.failed", "failed"),
   Event("refund.processing", "processing"), Event("refund.failed", "requires_capture"),
   Event("dispute.lost", "lost"), Event("payout.paid", "paid")}
StripeEvents ==
  {Event("payment_intent.succeeded", "succeeded"),
   Event("payment_intent.payment_failed", "requires_payment_method"),
   Event("payment_intent.amount_capturable_updated", "requires_capture"),
   Event("refund.updated", "pending"), Event("refund.failed", "failed"),
   Event("charge.dispute.closed", "warning_closed")}

normalizedStatuses ==
  [succeeded |-> "SUCCEEDED", failed |-> "FAILED", requires_payment_method |-> "FAILED"]
normalizedRefundStatuses ==
  [succeeded |-> "SUCCEEDED", failed |-> "FAILED", processing |-> "PROCESSING", pending |-> "PROCESSING"]
normalizedDisputeStatuses == [lost |-> "LOST", won |-> "WON", warning_closed |-> "CLOSED"]

\* The family of a type, as each adapter tells it from the type's name.
CategoryOf(name, type) ==
  CASE type \in {"payment.succeeded", "payment.failed"} /\ name = "LOCAL_SIGNED" -> "PAYMENT"
    [] type \in {"refund.processing", "refund.failed"} /\ name = "LOCAL_SIGNED" -> "REFUND"
    [] type = "dispute.lost" /\ name = "LOCAL_SIGNED" -> "DISPUTE"
    [] type \in {e.type : e \in StripeEvents} \ {"refund.updated", "refund.failed", "charge.dispute.closed"}
         /\ name = "STRIPE" -> "PAYMENT"
    [] type = "refund.updated" /\ name = "STRIPE" -> "REFUND"
    [] type = "charge.dispute.closed" /\ name = "STRIPE" -> "DISPUTE"
    [] OTHER -> "UNSUPPORTED"

\* A word no vocabulary has is refused, an event of no family is acknowledged.
Refused == [category |-> "refused", status |-> Unset]
Unsupported == [category |-> "UNSUPPORTED", status |-> Unset]
normalizeWebhookEvent(name, event) ==
  LET category == CategoryOf(name, event.type)
      vocabulary == CASE category = "PAYMENT" -> normalizedStatuses
                      [] category = "REFUND" -> normalizedRefundStatuses
                      [] category = "DISPUTE" -> normalizedDisputeStatuses
                      [] OTHER -> <<>>
  IN IF category = "UNSUPPORTED" THEN Unsupported
     ELSE IF event.word \in DOMAIN vocabulary
          THEN [category |-> category, status |-> vocabulary[event.word]]
          ELSE Refused

\* A delivery is signed with one secret and carries the signature in one header,
\* and its body fits, is declared too large or turns out to be.
Delivery(path, header, secret, event, size) ==
  [path |-> path, header |-> header, secret |-> secret, event |-> event, size |-> size]
Own == "x-seatflow-signature"
Paid(path) == IF path = "STRIPE" THEN Event("payment_intent.succeeded", "succeeded")
              ELSE Event("payment.succeeded", "succeeded")
Deliveries ==
  {Delivery(path, Own, secret, Paid(path), "fits") :
     path \in {"LOCAL_SIGNED", "STRIPE"}, secret \in {"one", "old", "new"}}
    \cup {Delivery("STRIPE", "stripe-signature", "new", Paid("STRIPE"), "fits"),
          Delivery("STRIPE", Own, "new", Paid("STRIPE"), "declared large"),
          Delivery("LOCAL_SIGNED", Own, "one", Paid("LOCAL_SIGNED"), "large")}
    \cup {Delivery("LOCAL_SIGNED", Own, "one", e, "fits") : e \in LocalEvents}
    \cup {Delivery("STRIPE", Own, "new", e, "fits") : e \in StripeEvents}

\* The route reads only its own header.
SignatureRead(d) == IF d.header = Own THEN d.secret ELSE Unset

Answer(status) == [verified |-> Unset, status |-> status, handed |-> Unsupported]

verifyWebhook(provider, d) ==
  SignatureRead(d) \in activeSecretsForVerification(SecretWindow(provider.name, release.config), day)

processPaymentWebhook(provider, d) ==
  LET event == normalizeWebhookEvent(provider.name, d.event)
  IN CASE d.size = "large" -> Answer(413)
       [] d.size # "large" /\ (~verifyWebhook(provider, d) \/ event = Refused) -> Answer(400)
       [] OTHER -> [verified |-> d.secret, status |-> 200, handed |-> event]

\* An answer is given at once, so nothing else moves until it is taken.
\* The route: what it answers, and what it hands to payments, refunds or disputes.
WebhookArrives(d) ==
  LET provider == getConfiguredPaymentProvider(release.config, day)
      reached == "payments" \in release.serving /\ d.size # "declared large"
  IN /\ release.running /\ answered = NoDelivery
     /\ adapter' = IF reached THEN provider ELSE adapter
     /\ answered' =
          CASE "payments" \notin release.serving -> Answer(503)
            [] "payments" \in release.serving /\ d.size = "declared large" -> Answer(413)
            [] reached /\ provider = NoAdapter -> Answer(503)
            [] reached /\ provider # NoAdapter /\ provider.name # d.path -> Answer(404)
            [] OTHER -> processPaymentWebhook(provider, d)
     /\ UNCHANGED <<hosted, edits, release, day>>

\* The provider has its answer; the next delivery may come.
AnswerTaken ==
  /\ answered # NoDelivery /\ answered' = NoDelivery
  /\ UNCHANGED <<hosted, edits, release, adapter, day>>

NextDay ==
  /\ day < Horizon /\ day' = day + 1
  /\ answered = NoDelivery
  /\ UNCHANGED <<hosted, edits, release, adapter, answered>>

Configure ==
  \/ \E v \in Variables : \E x \in ValuesOf[v] : EditVariable(v, x)
  \/ \E v \in Variables : \E x \in ValuesOf[v] : runImport([StagingFile EXCEPT ![v] = x], {})
  \/ \E v \in REQUIRED_STAGING_VARIABLES : runImport(StagingFile, {v})

DeploymentNext ==
  \/ Configure
  \/ Deploy
  \/ CheckAndDeploy(TRUE, TRUE, Clear)
  \/ \E redisAvailable \in BOOLEAN, books \in Books : CheckAndDeploy(FALSE, redisAvailable, books)
  \/ UseAdapter
  \/ \E d \in Deliveries : WebhookArrives(d)
  \/ AnswerTaken
  \/ NextDay

DeploymentSpec == DeploymentInit /\ [][DeploymentNext]_deploymentVars

-----------------------------------------------------------------------------
\* A production build that simulates its payments can neither charge a card nor
\* mail a customer, serves no origin that is not declared a staging one, and
\* says on its pages that payments are simulated, unless it is the harness.
SimulationIsSealed ==
  LET c == release.config
  IN adapter.name = "LOCAL_SIGNED" /\ c.NODE_ENV = "production" =>
       /\ c.STRIPE_SECRET_KEY = Unset
       /\ createDeployedNotificationProvider(c) # "customers"
       /\ \/ isLoopback(c.BETTER_AUTH_URL) /\ isLoopback(c.NEXT_PUBLIC_APP_URL)
          \/ /\ EnvironmentBanner(c) = "simulated"
             /\ \A u \in {c.BETTER_AUTH_URL, c.NEXT_PUBLIC_APP_URL} :
                  u # "plain" /\ (u = "shop" => c.SEATFLOW_STAGING_ORIGIN = "shop")

\* The gate a configuration passes decides what its process becomes: after a
\* production:check real cards, a live key and real customers, after the staging
\* gates a simulation that mails only the test recipient.
GatesDecideTheProvider ==
  LET c == release.config
  IN /\ release.checked /\ adapter # NoAdapter =>
          adapter.name = "STRIPE" /\ c.STRIPE_SECRET_KEY = "live" /\ c.STRIPE_MODE = "live"
            /\ createDeployedNotificationProvider(c) # "test recipient" /\ EnvironmentBanner(c) # "simulated"
     /\ release.running /\ validateStagingDemoConfiguration(c) =>
          adapter.name # "STRIPE" /\ createDeployedNotificationProvider(c) # "customers"

\* What a process becomes is what its configuration was admitted as.
ProviderMatchesDeployment == SimulationIsSealed /\ GatesDecideTheProvider

\* A secret that is not the current one verifies nothing once the longest window
\* counted from the day the adapter was built is over, however the expiry was set
\* and although the adapter is never built again.
RotationCloses ==
  answered.status = 200 =>
    \/ answered.verified = SecretWindow(adapter.name, release.config).current
    \/ day < adapter.builtOn + PreviousSecretWindow
=============================================================================
