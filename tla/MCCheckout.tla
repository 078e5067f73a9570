------------------------------ MODULE MCCheckout -------------------------------
(* Two secrets and the key "sops"; manifests with a list, without one, and  *)
(* with a wrong file name; directories with files that may meet.            *)
EXTENDS Checkout

CONSTANTS ka, kb, a, b, web, webService, dbPod, dbPodService, env, pruneContainer

KV(k, t) == [key |-> k, text |-> t]

MCInputs == {
  <<KV(ka, <<a>>), KV(kb, <<b>>)>>,
  <<KV(kb, <<b, b>>), KV(ka, <<>>)>>,
  <<KV(ka, <<b>>)>>,
  <<KV(ka, <<a>>), KV(ka, <<>>)>>,
  <<KV(ka, <<a>>), KV(Meta, <<b>>)>>}

M(found, create) ==
  [found |-> found, create |-> create, login |-> {}, prune |-> TRUE, valid |-> TRUE]

MCManifests == {
  M(TRUE, {}), M(TRUE, {kb}), M(FALSE, {ka}), [M(FALSE, {}) EXCEPT !.login = {kb}],
  [M(TRUE, {}) EXCEPT !.prune = FALSE], [M(TRUE, {}) EXCEPT !.valid = FALSE]}

Of(name, unit, gen, needs) ==
  [name |-> name, unit |-> unit, gen |-> gen, env |-> needs,
   sections |-> TRUE, regular |-> TRUE, dashed |-> FALSE]

Web    == Of(web, "quadlet", webService, {env})
Env    == Of(env, "support", Absent, {})
DbPod  == Of(dbPod, "quadlet", dbPodService, {})

MCFileSets == {
  {Web, Env}, {Web}, {DbPod, Env},
  {Web, Env, Of(webService, "native", Absent, {})},
  {DbPod, Of(dbPodService, "native", Absent, {})},
  {Of(pruneContainer, "quadlet", Prune, {})},
  {Of(Prune, "native", Absent, {})},
  {[DbPod EXCEPT !.sections = FALSE]}, {[Env EXCEPT !.regular = FALSE]}, {[DbPod EXCEPT !.dashed = TRUE]}}

MCInit == CInit /\ dir.manifest \in {M(TRUE, {}), M(TRUE, {kb})} /\ dir.files = {Web, Env}
MCSpec == MCInit /\ [][CNext]_coVars
=============================================================================
