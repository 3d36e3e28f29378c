--------------------------- MODULE MCTestScheduler ---------------------------
(* Three tests, -j 2, two runs of the script, up to two SIGINTs.           *)
EXTENDS TestScheduler

CONSTANTS t1, t2, t3

MCCatalog == <<t1, t2, t3>>

\* No --test-regex (everything matches), and a regex that misses t2.
MCFilters == {{t1, t2, t3}, {t1, t3}}

\* The stale-log question needs three runs (pass, a run that dies after
\* relaunching, a --rerun-failed run that reports); one test and no regex
\* keep that small.
MCStaleLogCatalog == <<t1>>
MCStaleLogFilters == {{t1}}
=============================================================================
