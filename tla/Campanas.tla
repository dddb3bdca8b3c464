------------------------------ MODULE Campanas ------------------------------
(***************************************************************************)
(* One WhatsApp campaign (lib/campaigns, api/campanas): the batches the    *)
(* open page asks for every four seconds whether or not the last one was   *)
(* answered, the launch, the cancellation, the validation, and what the    *)
(* provider reports.  An action is one await of a handler, which works on  *)
(* the copies it read; a request may die between two of them.              *)
(*                                                                         *)
(* The template has no variables, so that a validation finds nothing       *)
(* missing; rows the import marked invalid take part in nothing and are    *)
(* left out.                                                               *)
(***************************************************************************)
EXTENDS Integers, FiniteSets

CONSTANTS
    Destinos,         \* valid recipients, as their row_number; an import has some
    Sesiones,         \* each runs one request at a time
    TamLote,          \* batch_size
    MaxFallas,        \* bound: statements that fail and requests that die
    MaxValidaciones   \* bound: validations

ASSUME CampanasAssumption ==
    /\ Destinos \subseteq Int /\ Destinos # {}
    /\ \A ds \in SUBSET Destinos :
          ds # {} => \E d \in ds : \A e \in ds : d <= e   \* as row numbers have
    /\ TamLote \in Nat \ {0}
    /\ MaxFallas \in Nat
    /\ MaxValidaciones \in Nat

VARIABLES
    campana,       \* chat_campaigns.status
    aprobada,      \* whether the template is approved, which may end
    dest,          \* per recipient: status, and whether it has a
                   \* provider_message_id
    sesion,        \* per session: the step of its request, the recipients it
                   \* still has to treat, whether it saw an id on them, and
                   \* what the provider or the count said
    enviados,      \* history: messages the provider took, per recipient
    huerfanos,     \* history: those no row ever noted, per recipient
    pisados,       \* history: recipients that another request took or wrote
                   \* while a batch had them in hand
    aciegas,       \* history: recipients were queued, or a count failed,
                   \* where a batch about to finish would not see it
    fallas,
    validaciones

vars == <<campana, aprobada, dest, sesion, enviados, huerfanos, pisados, aciegas,
          fallas, validaciones>>

EstadosCampana == {"draft", "ready", "sending", "completed", "failed", "cancelled"}
EstadosDestino == {"pending", "queued", "sending", "sent", "failed", "replied", "skipped"}

PasosProceso == {"leer", "reencolar", "lote", "marcar", "enviar", "notar",
                 "contar_cola", "contar_envio", "completar"}
PasosOtros == {"lanzar_cola", "lanzar_envio", "saltar", "cancelar", "validar", "lista"}

Fila == [st : EstadosDestino, id : BOOLEAN]
Peticion == [paso : {"libre"} \cup PasosProceso \cup PasosOtros,
             lote : SUBSET Destinos, conId : SUBSET Destinos,
             resp : {"nada", "ok", "error"}]
Libre == [paso |-> "libre", lote |-> {}, conId |-> {}, resp |-> "nada"]

Init ==
    /\ campana = "draft"
    /\ aprobada = TRUE
    /\ dest = [d \in Destinos |-> [st |-> "pending", id |-> FALSE]]
    /\ sesion = [s \in Sesiones |-> Libre]
    /\ enviados = [d \in Destinos |-> 0]
    /\ huerfanos = [d \in Destinos |-> 0]
    /\ pisados = {}
    /\ aciegas = FALSE
    /\ fallas = 0
    /\ validaciones = 0

-----------------------------------------------------------------------------
(* What the requests have in common.                                       *)

En(s, p) == sesion[s].paso = p
Ir(s, p) == sesion' = [sesion EXCEPT ![s].paso = p]
Terminar(s) == sesion' = [sesion EXCEPT ![s] = Libre]
Con(estados) == {d \in Destinos : dest[d].st \in estados}
Poner(ds, estado) ==
    dest' = [d \in Destinos |-> IF d \in ds THEN [dest[d] EXCEPT !.st = estado] ELSE dest[d]]

(* The recipients a batch still has to treat.                              *)
Tratando == {"marcar", "enviar", "notar"}
EnMano(s) == IF sesion[s].paso \in Tratando THEN sesion[s].lote ELSE {}
Pisar(s, ds) ==
    pisados' = pisados \cup (ds \cap UNION {EnMano(t) : t \in Sesiones \ {s}})

(* Another batch counted the queue already.                                *)
OtroTermina(s) ==
    \E t \in Sesiones \ {s} : sesion[t].paso \in {"contar_envio", "completar"}

(* A statement whose error nobody looks at: applied, or one more failure.  *)
Bien == UNCHANGED fallas
Mal == fallas < MaxFallas /\ fallas' = fallas + 1

CambiarCampana(estado) ==
    \/ Bien /\ campana' = estado
    \/ Mal /\ UNCHANGED campana

Historia == <<enviados, huerfanos, pisados, aciegas, fallas, validaciones>>

-----------------------------------------------------------------------------
(* runCampaignProcessOnce (lib/campaigns/campaign-job-service.ts).         *)

(* The page of a campaign being sent asks for a batch (api/campanas/       *)
(* process); the row read here decides whether there is anything to do.    *)
Sondear(s) ==
    /\ En(s, "libre")
    /\ campana = "sending"
    /\ Ir(s, "reencolar")
    /\ UNCHANGED <<campana, aprobada, dest, Historia>>

(* The first batch, inside the request of the launch.                      *)
Leer(s) ==
    /\ En(s, "leer")
    /\ IF campana = "sending" THEN Ir(s, "reencolar") ELSE Terminar(s)
    /\ UNCHANGED <<campana, aprobada, dest, Historia>>

(* Recipients in sending without an id go back to the queue, whoever has   *)
(* them.                                                                   *)
Colgados == {d \in Con({"sending"}) : ~ dest[d].id}

(* Mutant: only rows with an id go back.                                   *)
ReencolarOtros(s) ==
    /\ En(s, "reencolar")
    /\ Ir(s, "lote")
    /\ Poner(Con({"sending"}) \ Colgados, "queued")
    /\ UNCHANGED <<campana, aprobada, Historia>>

Reencolar(s) ==
    /\ En(s, "reencolar")
    /\ Ir(s, "lote")
    /\ \/ /\ Bien
          /\ Poner(Colgados, "queued")
          /\ Pisar(s, Colgados)
          /\ aciegas' = (aciegas \/ (Colgados # {} /\ OtroTermina(s)))
       \/ Mal /\ UNCHANGED <<dest, pisados, aciegas>>
    /\ UNCHANGED <<campana, aprobada, enviados, huerfanos, validaciones>>

(* The template is looked at again, and the batch read: the first of the   *)
(* queue in row order.                                                     *)
Lote == LET cola == Con({"queued"})
        IN {d \in cola : Cardinality({e \in cola : e < d}) < TamLote}

(* Mutant: the query leaves provider_message_id out.                       *)
LeerLoteSinId(s) ==
    /\ En(s, "lote")
    /\ aprobada
    /\ sesion' = [sesion EXCEPT ![s].lote = Lote,
                                ![s].paso = IF Lote = {} THEN "contar_cola" ELSE "marcar"]
    /\ Pisar(s, Lote)
    /\ UNCHANGED <<campana, aprobada, dest, enviados, huerfanos, aciegas, fallas, validaciones>>

LeerLote(s) ==
    /\ En(s, "lote")
    /\ IF aprobada THEN Bien ELSE Mal   \* a template that was not read passes
    /\ sesion' = [sesion EXCEPT ![s].lote = Lote,
                                ![s].conId = {d \in Lote : dest[d].id},
                                ![s].paso = IF Lote = {} THEN "contar_cola" ELSE "marcar"]
    /\ Pisar(s, Lote)
    /\ UNCHANGED <<campana, aprobada, dest, enviados, huerfanos, aciegas, validaciones>>

(* A query that fails is an empty batch.                                   *)
NoLeerLote(s) ==
    /\ En(s, "lote")
    /\ aprobada
    /\ Mal
    /\ Ir(s, "contar_cola")
    /\ UNCHANGED <<campana, aprobada, dest, enviados, huerfanos, pisados, aciegas, validaciones>>

FallarCampana(s) ==
    /\ En(s, "lote")
    /\ ~ aprobada
    /\ CambiarCampana("failed")
    /\ Terminar(s)
    /\ UNCHANGED <<aprobada, dest, enviados, huerfanos, pisados, aciegas, validaciones>>

Primero(ds) == CHOOSE d \in ds : \A e \in ds : d <= e
Actual(s) == Primero(sesion[s].lote)

(* Mutant: the loop goes round once too many.                              *)
AvanzarDeMas(s) ==
    sesion' = [sesion EXCEPT ![s].lote = @ \ {Actual(s)}, ![s].resp = "nada",
                             ![s].paso = "marcar"]

(* On to the next recipient of the batch.                                  *)
Avanzar(s) ==
    LET resto == sesion[s].lote \ {Actual(s)}
    IN sesion' = [sesion EXCEPT ![s].lote = resto, ![s].resp = "nada",
                                ![s].paso = IF resto = {} THEN "contar_cola" ELSE "marcar"]

(* A recipient whose copy has an id was sent before: it is passed over.    *)
Saltear(s) ==
    /\ En(s, "marcar")
    /\ Actual(s) \in sesion[s].conId
    /\ Avanzar(s)
    /\ UNCHANGED <<campana, aprobada, dest, Historia>>

Marcar(s) ==
    /\ En(s, "marcar")
    /\ Actual(s) \notin sesion[s].conId
    /\ Ir(s, "enviar")
    /\ \/ Bien /\ Poner({Actual(s)}, "sending")
       \/ Mal /\ UNCHANGED dest
    /\ UNCHANGED <<campana, aprobada, enviados, huerfanos, pisados, aciegas, validaciones>>

(* The provider takes the message or refuses it.                           *)
Enviar(s) ==
    /\ En(s, "enviar")
    /\ \E r \in {"ok", "error"} :
          /\ sesion' = [sesion EXCEPT ![s].paso = "notar", ![s].resp = r]
          /\ enviados' = IF r = "ok" THEN [enviados EXCEPT ![Actual(s)] = @ + 1] ELSE enviados
    /\ UNCHANGED <<campana, aprobada, dest, huerfanos, pisados, aciegas, fallas, validaciones>>

Perder(s) ==
    huerfanos' = IF En(s, "notar") /\ sesion[s].resp = "ok"
                 THEN [huerfanos EXCEPT ![Actual(s)] = @ + 1] ELSE huerfanos

(* The answer is written on the row without a look at what it says now.    *)
Notar(s) ==
    /\ En(s, "notar")
    /\ Avanzar(s)
    /\ \/ /\ Bien
          /\ dest' = [dest EXCEPT ![Actual(s)] =
                         IF sesion[s].resp = "ok" THEN [st |-> "sent", id |-> TRUE]
                         ELSE [@ EXCEPT !.st = "failed"]]
          /\ UNCHANGED huerfanos
       \/ Mal /\ Perder(s) /\ UNCHANGED dest
    /\ UNCHANGED <<campana, aprobada, enviados, pisados, aciegas, validaciones>>

(* Two counts, one after the other; one that fails counts as zero.         *)
Contar(s, estado, si, no) ==
    \/ /\ Bien
       /\ IF Con({estado}) = {} THEN Ir(s, si) ELSE no
       /\ UNCHANGED aciegas
    \/ /\ Mal
       /\ Ir(s, si)
       /\ aciegas' = (aciegas \/ Con({estado}) # {})

ContarCola(s) ==
    /\ En(s, "contar_cola")
    /\ Contar(s, "queued", "contar_envio", Terminar(s))
    /\ UNCHANGED <<campana, aprobada, dest, enviados, huerfanos, pisados, validaciones>>

(* Mutant: an empty queue is enough.                                       *)
ContarEnvioNo(s) ==
    /\ En(s, "contar_envio")
    /\ Ir(s, "completar")
    /\ UNCHANGED <<campana, aprobada, dest, Historia>>

ContarEnvio(s) ==
    /\ En(s, "contar_envio")
    /\ Contar(s, "sending", "completar", Terminar(s))
    /\ UNCHANGED <<campana, aprobada, dest, enviados, huerfanos, pisados, validaciones>>

Completar(s) ==
    /\ En(s, "completar")
    /\ Terminar(s)
    /\ CambiarCampana("completed")
    /\ UNCHANGED <<aprobada, dest, enviados, huerfanos, pisados, aciegas, validaciones>>

-----------------------------------------------------------------------------
(* The other requests of the campaign.                                     *)

(* api/campanas/[id]/launch.                                               *)
LeerLanzar(s) ==
    /\ En(s, "libre")
    /\ campana \in {"draft", "ready"}
    /\ Ir(s, "lanzar_cola")
    /\ UNCHANGED <<campana, aprobada, dest, Historia>>

LanzarCola(s) ==
    /\ En(s, "lanzar_cola")
    /\ Ir(s, "lanzar_envio")
    /\ \/ /\ Bien
          /\ Poner(Con({"pending"}), "queued")
          /\ Pisar(s, Con({"pending"}))
          /\ aciegas' = \/ aciegas
                         \/ /\ Con({"pending"}) # {}
                            /\ campana \notin {"draft", "ready"} \/ OtroTermina(s)
       \/ Mal /\ UNCHANGED <<dest, pisados, aciegas>>
    /\ UNCHANGED <<campana, aprobada, enviados, huerfanos, validaciones>>

LanzarEnvio(s) ==
    /\ En(s, "lanzar_envio")
    /\ CambiarCampana("sending")
    /\ Ir(s, "leer")
    /\ UNCHANGED <<aprobada, dest, enviados, huerfanos, pisados, aciegas, validaciones>>

(* api/campanas/[id]/cancel.                                               *)
LeerCancelar(s) ==
    /\ En(s, "libre")
    /\ campana = "sending"
    /\ Ir(s, "saltar")
    /\ UNCHANGED <<campana, aprobada, dest, Historia>>

Saltar(s) ==
    /\ En(s, "saltar")
    /\ Ir(s, "cancelar")
    /\ \/ /\ Bien
          /\ Poner(Con({"queued", "pending", "sending"}), "skipped")
          /\ Pisar(s, Con({"queued", "pending", "sending"}))
       \/ Mal /\ UNCHANGED <<dest, pisados>>
    /\ UNCHANGED <<campana, aprobada, enviados, huerfanos, aciegas, validaciones>>

Cancelar(s) ==
    /\ En(s, "cancelar")
    /\ CambiarCampana("cancelled")
    /\ Terminar(s)
    /\ UNCHANGED <<aprobada, dest, enviados, huerfanos, pisados, aciegas, validaciones>>

(* api/campanas/[id]/validate: it looks at no status.  The page offers it  *)
(* on drafts only; one loaded before the launch still does.                *)
LeerValidar(s) ==
    /\ En(s, "libre")
    /\ validaciones < MaxValidaciones
    /\ validaciones' = validaciones + 1
    /\ sesion' = [sesion EXCEPT ![s].paso = "validar", ![s].lote = Destinos]
    /\ UNCHANGED <<campana, aprobada, dest, enviados, huerfanos, pisados, aciegas, fallas>>

ValidarFila(s) ==
    /\ En(s, "validar")
    /\ LET resto == sesion[s].lote \ {Actual(s)}
       IN sesion' = [sesion EXCEPT ![s].lote = resto,
                                   ![s].paso = IF resto = {} THEN "lista" ELSE "validar"]
    /\ \/ Bien /\ Poner({Actual(s)}, "pending") /\ Pisar(s, {Actual(s)})
       \/ Mal /\ UNCHANGED <<dest, pisados>>
    /\ UNCHANGED <<campana, aprobada, enviados, huerfanos, aciegas, validaciones>>

DejarLista(s) ==
    /\ En(s, "lista")
    /\ CambiarCampana("ready")
    /\ Terminar(s)
    /\ UNCHANGED <<aprobada, dest, enviados, huerfanos, pisados, aciegas, validaciones>>

(* A request dies: the server falls, or a fetch throws.                    *)
Caer(s) ==
    /\ ~ En(s, "libre")
    /\ Mal
    /\ Perder(s)
    /\ Terminar(s)
    /\ UNCHANGED <<campana, aprobada, dest, enviados, pisados, aciegas, validaciones>>

-----------------------------------------------------------------------------
(* The provider.                                                           *)

(* A sent recipient answers (lib/campaigns/campaign-inbound-hook.ts).      *)
Responder(d) ==
    /\ campana # "cancelled"
    /\ dest[d].st = "sent"
    /\ Poner({d}, "replied")
    /\ UNCHANGED <<campana, aprobada, sesion, Historia>>

(* A delivery fails: the row with that id, whatever its status             *)
(* (lib/campaigns/ycloud-outbound-campaign-status.ts).                     *)
FallarEntrega(d) ==
    /\ dest[d].id
    /\ dest[d].st # "failed"
    /\ Poner({d}, "failed")
    /\ UNCHANGED <<campana, aprobada, sesion, Historia>>

Desaprobar ==
    /\ aprobada
    /\ aprobada' = FALSE
    /\ UNCHANGED <<campana, dest, sesion, Historia>>

-----------------------------------------------------------------------------
Proceso(s) ==
    \/ Leer(s) \/ Reencolar(s) \/ LeerLote(s) \/ NoLeerLote(s) \/ FallarCampana(s)
    \/ Saltear(s) \/ Marcar(s) \/ Enviar(s) \/ Notar(s)
    \/ ContarCola(s) \/ ContarEnvio(s) \/ Completar(s)

Otras(s) ==
    \/ LanzarCola(s) \/ LanzarEnvio(s)
    \/ Saltar(s) \/ Cancelar(s)
    \/ ValidarFila(s) \/ DejarLista(s)

Empezar(s) == Sondear(s) \/ LeerLanzar(s) \/ LeerCancelar(s) \/ LeerValidar(s)

Next ==
    \/ \E s \in Sesiones : Empezar(s) \/ Proceso(s) \/ Otras(s) \/ Caer(s)
    \/ \E d \in Destinos : Responder(d) \/ FallarEntrega(d)
    \/ Desaprobar

(* A request under way goes on, and the page of a campaign being sent      *)
(* stays open: its interval asks for a batch again and again.              *)
Fairness == \A s \in Sesiones :
    WF_vars(Proceso(s)) /\ WF_vars(Otras(s)) /\ WF_vars(Sondear(s))

Spec == Init /\ [][Next]_vars /\ Fairness

-----------------------------------------------------------------------------
(* Types: a request treats recipients as long as it has some left.         *)
EnOrden(r) ==
    /\ r.paso \in Tratando \cup {"validar"} <=> r.lote # {}
    /\ r.paso = "notar" <=> r.resp # "nada"
TypeOK ==
    /\ campana \in EstadosCampana
    /\ aprobada \in BOOLEAN
    /\ dest \in [Destinos -> Fila]
    /\ sesion \in [Sesiones -> Peticion]
    /\ \A s \in Sesiones : EnOrden(sesion[s])
    /\ enviados \in [Destinos -> Nat]
    /\ huerfanos \in [Destinos -> Nat]
    /\ pisados \subseteq Destinos
    /\ aciegas \in BOOLEAN
    /\ fallas \in 0..MaxFallas
    /\ validaciones \in 0..MaxValidaciones

(* A recipient no other request took from a batch gets one message, and    *)
(* one more only for each that the provider took and no row noted: neither *)
(* the requeue, nor the two counts, nor a validation and a second launch   *)
(* send again what was sent (campaign-job-service.ts, the requeue and the  *)
(* skip of rows with an id).                                               *)
EnvioUnico ==
    \A d \in Destinos \ pisados : enviados[d] <= 1 + huerfanos[d]

(* A campaign completed leaves no recipient queued or half sent, save one  *)
(* taken from a batch's hands, unless something was queued behind a batch  *)
(* about to finish (campaign-job-service.ts, the completion).              *)
CompletaSinPendientes ==
    campana = "completed" /\ ~ aciegas
    => Con({"queued", "sending"}) \subseteq pisados

(* A row in the queue, or in sending, that has an id: the requeue leaves   *)
(* it there and a batch passes it over.                                    *)
Atascada == \E d \in Con({"queued", "sending"}) : dest[d].id

(* While its page stays open a campaign being sent ends, whatever failed   *)
(* or died and however batches overlapped before, unless a row with an id  *)
(* is stuck.  It takes that batches at last stop overlapping: two that     *)
(* alternate can requeue each other's refused message without end.         *)
UnoALaVez == Cardinality({s \in Sesiones : sesion[s].paso \in PasosProceso}) <= 1
Termina ==
    <>[]UnoALaVez => (campana = "sending" ~> (campana # "sending" \/ Atascada))
=============================================================================
