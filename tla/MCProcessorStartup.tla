------------------------- MODULE MCProcessorStartup -------------------------
(* A small instance of ProcessorStartup for TLC. *)
EXTENDS ProcessorStartup

Set(n, raw) == [Bare EXCEPT ![n] = raw]
Production(access, refresh) ==
  [Bare EXCEPT !["NODE_ENV"] = Text("production"), !["JWT_ACCESS_SECRET"] = access,
               !["JWT_REFRESH_SECRET"] = refresh]

\* Nothing set; an index whose name the template does not match; ports at, above
\* and below the bounds, API_PORT with and without PORT; values of the wrong type;
\* production with, without and with published secrets.
MCEnvironments ==
  {Bare, Set("ELASTICSEARCH_LOGS_INDEX", Text("events")),
   Set("API_PORT", Digits(65535)), Set("API_PORT", Digits(65536)),
   Set("PORT", Number(65536)), Set("INGESTION_PORT", Digits(0)),
   [Set("API_PORT", Text("http")) EXCEPT !["PORT"] = Digits(8080)],
   Set("LOG_PROCESSOR_CONCURRENCY", Other), Set("REDIS_URL", Text("")),
   Set("NODE_ENV", Text("staging")),
   Production(Text("a"), Text("b")), Production(Unset, Text("b")),
   Production(Text("a"), Text("dev-refresh-secret-change-me"))}
=============================================================================
