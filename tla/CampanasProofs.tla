--------------------------- MODULE CampanasProofs ---------------------------
(***************************************************************************)
(* Proofs about Campanas, for every number of recipients, sessions,        *)
(* failures and validations, and every size of batch.                      *)
(***************************************************************************)
EXTENDS Campanas, TLAPS

(* The recipient a batch is at is one of those it has left.                *)
LEMMA ActualEnLote ==
    ASSUME NEW s \in Sesiones, sesion[s].lote \subseteq Destinos, sesion[s].lote # {}
    PROVE  Actual(s) \in sesion[s].lote
<1>1. \E d \in sesion[s].lote : \A e \in sesion[s].lote : d <= e
  BY CampanasAssumption
<1>2. QED
  BY <1>1 DEF Actual, Primero

(* To write a status leaves the rest of the rows alone.                    *)
LEMMA PonerFilas ==
    ASSUME dest \in [Destinos -> Fila], NEW ds, NEW e \in EstadosDestino, Poner(ds, e)
    PROVE  /\ dest' \in [Destinos -> Fila]
           /\ \A d \in Destinos : dest'[d].id = dest[d].id
           /\ \A d \in Destinos \cap ds : dest'[d].st = e
           /\ \A d \in Destinos \ ds : dest'[d] = dest[d]
BY DEF Poner, Fila

-----------------------------------------------------------------------------
(* Types.                                                                  *)

LEMMA Cotas == MaxFallas \in Nat /\ MaxValidaciones \in Nat
BY CampanasAssumption

LEMMA CotaFallas ==
    ASSUME TypeOK, Bien \/ Mal
    PROVE  fallas' \in 0..MaxFallas
BY Cotas DEF TypeOK, Bien, Mal

LEMMA TipoCambiar ==
    ASSUME TypeOK, NEW e \in EstadosCampana, CambiarCampana(e)
    PROVE  fallas' \in 0..MaxFallas /\ campana' \in EstadosCampana
BY CotaFallas DEF CambiarCampana, TypeOK

LEMMA LibreEnOrden == Libre \in Peticion /\ EnOrden(Libre)
BY DEF Libre, Peticion, EnOrden, Tratando

LEMMA TipoInicial == Init => TypeOK
<1> SUFFICES ASSUME Init PROVE TypeOK
  OBVIOUS
<1>1. [st |-> "pending", id |-> FALSE] \in Fila
  BY DEF Fila, EstadosDestino
<1>2. dest \in [Destinos -> Fila]
  BY <1>1 DEF Init
<1>3. sesion \in [Sesiones -> Peticion] /\ \A s \in Sesiones : EnOrden(sesion[s])
  BY LibreEnOrden DEF Init
<1>4. /\ enviados \in [Destinos -> Nat] /\ huerfanos \in [Destinos -> Nat]
      /\ pisados \subseteq Destinos /\ aciegas \in BOOLEAN /\ aprobada \in BOOLEAN
      /\ campana \in EstadosCampana
  BY DEF Init, EstadosCampana
<1>5. fallas \in 0..MaxFallas /\ validaciones \in 0..MaxValidaciones
  BY Cotas DEF Init
<1>6. QED
  BY <1>2, <1>3, <1>4, <1>5 DEF TypeOK

(* A step that makes one request of the right type out of another.         *)
LEMMA UnaSesion ==
    ASSUME TypeOK, NEW s \in Sesiones, NEW r \in Peticion, EnOrden(r),
           sesion' = [sesion EXCEPT ![s] = r]
    PROVE  /\ sesion' \in [Sesiones -> Peticion]
           /\ \A t \in Sesiones : EnOrden(sesion'[t])
<1>1. /\ sesion' \in [Sesiones -> Peticion]
      /\ \A t \in Sesiones : sesion'[t] = IF t = s THEN r ELSE sesion[t]
  BY DEF TypeOK
<1>2. \A t \in Sesiones : EnOrden(sesion[t])
  BY DEF TypeOK
<1>3. QED
  BY <1>1, <1>2

LEMMA TipoTerminar ==
    ASSUME TypeOK, NEW s \in Sesiones, Terminar(s)
    PROVE  /\ sesion' \in [Sesiones -> Peticion]
           /\ \A t \in Sesiones : EnOrden(sesion'[t])
BY LibreEnOrden, UnaSesion DEF Terminar

(* A request without recipients goes on without recipients.                *)
LEMMA TipoIr ==
    ASSUME TypeOK, NEW s \in Sesiones, NEW p \in (PasosProceso \cup PasosOtros)
                                                \ {"marcar", "enviar", "notar", "validar"},
           sesion[s].lote = {}, Ir(s, p)
    PROVE  /\ sesion' \in [Sesiones -> Peticion]
           /\ \A t \in Sesiones : EnOrden(sesion'[t])
<1> DEFINE r == [sesion[s] EXCEPT !.paso = p]
<1>1. sesion[s] \in Peticion /\ EnOrden(sesion[s])
  BY DEF TypeOK
<1>2. r \in Peticion /\ EnOrden(r)
  BY <1>1 DEF Peticion, EnOrden, Tratando
<1>3. QED
  BY <1>2, UnaSesion DEF Ir

LEMMA TipoAvanzar ==
    ASSUME TypeOK, NEW s \in Sesiones, Avanzar(s)
    PROVE  /\ sesion' \in [Sesiones -> Peticion]
           /\ \A t \in Sesiones : EnOrden(sesion'[t])
<1> DEFINE resto == sesion[s].lote \ {Actual(s)}
           r == [sesion[s] EXCEPT !.lote = resto, !.resp = "nada",
                    !.paso = IF resto = {} THEN "contar_cola" ELSE "marcar"]
<1>1. sesion[s] \in Peticion
  BY DEF TypeOK
<1>2. r \in Peticion /\ EnOrden(r)
  BY <1>1 DEF Peticion, EnOrden, Tratando, PasosProceso
<1>3. sesion' = [sesion EXCEPT ![s] = r]
  BY DEF Avanzar
<1>4. QED
  BY <1>2, <1>3, UnaSesion

(* Steps of a batch, but those that treat a recipient.                     *)
LEMMA TipoProceso ==
    ASSUME TypeOK, NEW s \in Sesiones,
           \/ Sondear(s) \/ Leer(s) \/ Reencolar(s) \/ LeerLote(s) \/ NoLeerLote(s)
           \/ FallarCampana(s) \/ ContarCola(s) \/ ContarEnvio(s) \/ Completar(s)
    PROVE  TypeOK'
<1> USE DEF PasosProceso, PasosOtros, EstadosCampana, Tratando, Bien, Mal
<1>0. sesion[s] \in Peticion /\ EnOrden(sesion[s]) /\ dest \in [Destinos -> Fila]
  BY DEF TypeOK
<1>1. CASE Sondear(s)
  BY <1>0, <1>1, TipoIr DEF Sondear, En, EnOrden, TypeOK, Historia
<1>2. CASE Leer(s)
  BY <1>0, <1>2, TipoIr, TipoTerminar DEF Leer, En, EnOrden, TypeOK, Historia
<1>3. CASE Reencolar(s)
  <2>1. Ir(s, "lote") /\ sesion[s].lote = {}
    BY <1>0, <1>3 DEF Reencolar, En, EnOrden
  <2>2. /\ sesion' \in [Sesiones -> Peticion]
        /\ \A t \in Sesiones : EnOrden(sesion'[t])
    BY <2>1, TipoIr
  <2>3. dest' \in [Destinos -> Fila]
    BY <1>0, <1>3, PonerFilas DEF Reencolar, EstadosDestino
  <2>4. pisados' \subseteq Destinos
    BY <1>3 DEF Reencolar, Pisar, Colgados, Con, TypeOK
  <2>5. aciegas' \in BOOLEAN
    BY <1>3, Zenon DEF Reencolar, TypeOK
  <2>6. fallas' \in 0..MaxFallas
    BY <1>3, Cotas DEF Reencolar, TypeOK
  <2>7. QED
    BY <1>3, <2>2, <2>3, <2>4, <2>5, <2>6 DEF Reencolar, TypeOK
<1>4. CASE LeerLote(s)
  <2> DEFINE r == [sesion[s] EXCEPT !.lote = Lote, !.conId = {d \in Lote : dest[d].id},
                       !.paso = IF Lote = {} THEN "contar_cola" ELSE "marcar"]
  <2>1. Lote \subseteq Destinos
    BY DEF Lote, Con
  <2>2. r \in Peticion /\ EnOrden(r)
    BY <1>0, <1>4, <2>1 DEF LeerLote, En, Peticion, EnOrden
  <2>3. sesion' = [sesion EXCEPT ![s] = r]
    BY <1>4 DEF LeerLote
  <2>4. pisados' \subseteq Destinos
    BY <1>4, <2>1 DEF LeerLote, Pisar, TypeOK
  <2>5. fallas' \in 0..MaxFallas
    BY <1>4, CotaFallas DEF LeerLote
  <2>6. QED
    BY <1>4, <2>2, <2>3, <2>4, <2>5, UnaSesion DEF LeerLote, TypeOK
<1>5. CASE FallarCampana(s)
  <2>1. fallas' \in 0..MaxFallas /\ campana' \in EstadosCampana
    BY <1>5, TipoCambiar DEF FallarCampana
  <2>2. QED
    BY <1>5, <2>1, TipoTerminar DEF FallarCampana, TypeOK
<1>10. CASE NoLeerLote(s)
  <2>1. /\ sesion' \in [Sesiones -> Peticion]
        /\ \A t \in Sesiones : EnOrden(sesion'[t])
    BY <1>0, <1>10, TipoIr DEF NoLeerLote, En, EnOrden
  <2>2. fallas' \in 0..MaxFallas
    BY <1>10, CotaFallas DEF NoLeerLote
  <2>3. QED
    BY <1>10, <2>1, <2>2 DEF NoLeerLote, TypeOK
<1>6. CASE ContarCola(s)
  <2>1. Ir(s, "contar_envio") \/ Terminar(s)
    BY <1>6 DEF ContarCola, Contar
  <2>2. /\ sesion' \in [Sesiones -> Peticion]
        /\ \A t \in Sesiones : EnOrden(sesion'[t])
    BY <1>0, <1>6, <2>1, TipoIr, TipoTerminar DEF ContarCola, En, EnOrden
  <2>3. aciegas' \in BOOLEAN
    BY <1>6, Zenon DEF ContarCola, Contar, TypeOK
  <2>4. fallas' \in 0..MaxFallas
    BY <1>6, Cotas DEF ContarCola, Contar, TypeOK
  <2>5. QED
    BY <1>6, <2>2, <2>3, <2>4 DEF ContarCola, TypeOK
<1>7. CASE ContarEnvio(s)
  <2>1. Ir(s, "completar") \/ Terminar(s)
    BY <1>7 DEF ContarEnvio, Contar
  <2>2. /\ sesion' \in [Sesiones -> Peticion]
        /\ \A t \in Sesiones : EnOrden(sesion'[t])
    BY <1>0, <1>7, <2>1, TipoIr, TipoTerminar DEF ContarEnvio, En, EnOrden
  <2>3. aciegas' \in BOOLEAN
    BY <1>7, Zenon DEF ContarEnvio, Contar, TypeOK
  <2>4. fallas' \in 0..MaxFallas
    BY <1>7, Cotas DEF ContarEnvio, Contar, TypeOK
  <2>5. QED
    BY <1>7, <2>2, <2>3, <2>4 DEF ContarEnvio, TypeOK
<1>8. CASE Completar(s)
  <2>1. fallas' \in 0..MaxFallas /\ campana' \in EstadosCampana
    BY <1>8, TipoCambiar DEF Completar
  <2>2. QED
    BY <1>8, <2>1, TipoTerminar DEF Completar, TypeOK
<1>9. QED
  BY <1>1, <1>2, <1>3, <1>4, <1>5, <1>6, <1>7, <1>8, <1>10

LEMMA TipoDestinatario ==
    ASSUME TypeOK, NEW s \in Sesiones,
           Saltear(s) \/ Marcar(s) \/ Enviar(s) \/ Notar(s) \/ Caer(s)
    PROVE  TypeOK'
<1> USE DEF Bien, Mal, Tratando
<1>0. sesion[s] \in Peticion /\ EnOrden(sesion[s]) /\ dest \in [Destinos -> Fila]
  BY DEF TypeOK
<1>a. ASSUME sesion[s].paso \in {"marcar", "enviar", "notar"} PROVE Actual(s) \in Destinos
  BY <1>0, <1>a, ActualEnLote DEF EnOrden, Peticion
<1>1. CASE Saltear(s)
  BY <1>1, TipoAvanzar DEF Saltear, TypeOK, Historia
<1>2. CASE Marcar(s)
  <2> DEFINE r == [sesion[s] EXCEPT !.paso = "enviar"]
  <2>1. r \in Peticion /\ EnOrden(r)
    BY <1>0, <1>2 DEF Marcar, En, Peticion, EnOrden, PasosProceso
  <2>2. sesion' = [sesion EXCEPT ![s] = r]
    BY <1>2 DEF Marcar, Ir
  <2>3. dest' \in [Destinos -> Fila]
    BY <1>0, <1>2, PonerFilas DEF Marcar, EstadosDestino
  <2>4. fallas' \in 0..MaxFallas
    BY <1>2, Cotas DEF Marcar, TypeOK
  <2>5. QED
    BY <1>2, <2>1, <2>2, <2>3, <2>4, UnaSesion DEF Marcar, TypeOK
<1>3. CASE Enviar(s)
  <2>1. PICK x \in {"ok", "error"} :
           /\ sesion' = [sesion EXCEPT ![s] = [sesion[s] EXCEPT !.paso = "notar", !.resp = x]]
           /\ enviados' = IF x = "ok" THEN [enviados EXCEPT ![Actual(s)] = @ + 1] ELSE enviados
    BY <1>3 DEF Enviar
  <2> DEFINE r == [sesion[s] EXCEPT !.paso = "notar", !.resp = x]
  <2>2. r \in Peticion /\ EnOrden(r)
    BY <1>0, <1>3 DEF Enviar, En, Peticion, EnOrden, PasosProceso
  <2>3. enviados' \in [Destinos -> Nat]
    BY <1>3, <1>a, <2>1 DEF Enviar, En, TypeOK
  <2>4. QED
    BY <1>3, <2>1, <2>2, <2>3, UnaSesion DEF Enviar, TypeOK
<1>4. CASE Notar(s)
  <2>1. dest' \in [Destinos -> Fila]
    <3>1. Actual(s) \in Destinos
      BY <1>4, <1>a DEF Notar, En
    <3>2. /\ [st |-> "sent", id |-> TRUE] \in Fila
          /\ [dest[Actual(s)] EXCEPT !.st = "failed"] \in Fila
      BY <1>0, <3>1 DEF Fila, EstadosDestino
    <3>3. QED
      BY <1>0, <1>4, <3>2 DEF Notar
  <2>2. huerfanos' \in [Destinos -> Nat]
    BY <1>4, <1>a DEF Notar, En, Perder, TypeOK
  <2>3. fallas' \in 0..MaxFallas
    BY <1>4, Cotas DEF Notar, TypeOK
  <2>4. QED
    BY <1>4, <2>1, <2>2, <2>3, TipoAvanzar DEF Notar, TypeOK
<1>5. CASE Caer(s)
  <2>1. huerfanos' \in [Destinos -> Nat]
    BY <1>5, <1>a DEF Caer, En, Perder, TypeOK
  <2>2. fallas' \in 0..MaxFallas
    BY <1>5, Cotas DEF Caer, TypeOK
  <2>3. QED
    BY <1>5, <2>1, <2>2, TipoTerminar DEF Caer, TypeOK
<1>6. QED
  BY <1>1, <1>2, <1>3, <1>4, <1>5

LEMMA TipoOtras ==
    ASSUME TypeOK, NEW s \in Sesiones,
           \/ LeerLanzar(s) \/ LeerCancelar(s) \/ LeerValidar(s) \/ Otras(s)
    PROVE  TypeOK'
<1> USE DEF PasosProceso, PasosOtros, EstadosCampana, Tratando
<1>0. sesion[s] \in Peticion /\ EnOrden(sesion[s]) /\ dest \in [Destinos -> Fila]
  BY DEF TypeOK
<1>1. CASE LeerLanzar(s)
  BY <1>0, <1>1, TipoIr DEF LeerLanzar, En, EnOrden, TypeOK, Historia
<1>2. CASE LeerCancelar(s)
  BY <1>0, <1>2, TipoIr DEF LeerCancelar, En, EnOrden, TypeOK, Historia
<1>3. CASE LeerValidar(s)
  <2> DEFINE r == [sesion[s] EXCEPT !.paso = "validar", !.lote = Destinos]
  <2>1. r \in Peticion /\ EnOrden(r)
    BY <1>0, <1>3, CampanasAssumption DEF LeerValidar, En, Peticion, EnOrden
  <2>2. sesion' = [sesion EXCEPT ![s] = r]
    BY <1>3 DEF LeerValidar
  <2>3. validaciones' \in 0..MaxValidaciones
    BY <1>3, Cotas DEF LeerValidar, TypeOK
  <2>4. QED
    BY <1>3, <2>1, <2>2, <2>3, UnaSesion DEF LeerValidar, TypeOK
<1>4. CASE LanzarCola(s)
  <2>1. Ir(s, "lanzar_envio") /\ sesion[s].lote = {}
    BY <1>0, <1>4 DEF LanzarCola, En, EnOrden
  <2>2. dest' \in [Destinos -> Fila]
    BY <1>0, <1>4, PonerFilas DEF LanzarCola, EstadosDestino
  <2>3. pisados' \subseteq Destinos
    BY <1>4 DEF LanzarCola, Pisar, Con, TypeOK
  <2>4. aciegas' \in BOOLEAN
    BY <1>4, Zenon DEF LanzarCola, TypeOK
  <2>5. fallas' \in 0..MaxFallas
    BY <1>4, CotaFallas DEF LanzarCola
  <2>6. QED
    BY <1>4, <2>1, <2>2, <2>3, <2>4, <2>5, TipoIr DEF LanzarCola, TypeOK
<1>5. CASE LanzarEnvio(s)
  <2>1. fallas' \in 0..MaxFallas /\ campana' \in EstadosCampana
    BY <1>5, TipoCambiar DEF LanzarEnvio
  <2>2. QED
    BY <1>0, <1>5, <2>1, TipoIr DEF LanzarEnvio, En, EnOrden, TypeOK
<1>6. CASE Saltar(s)
  <2>1. Ir(s, "cancelar") /\ sesion[s].lote = {}
    BY <1>0, <1>6 DEF Saltar, En, EnOrden
  <2>2. dest' \in [Destinos -> Fila]
    BY <1>0, <1>6, PonerFilas DEF Saltar, EstadosDestino
  <2>3. pisados' \subseteq Destinos
    BY <1>6 DEF Saltar, Pisar, Con, TypeOK
  <2>4. fallas' \in 0..MaxFallas
    BY <1>6, CotaFallas DEF Saltar
  <2>5. QED
    BY <1>6, <2>1, <2>2, <2>3, <2>4, TipoIr DEF Saltar, TypeOK
<1>7. CASE Cancelar(s)
  <2>1. fallas' \in 0..MaxFallas /\ campana' \in EstadosCampana
    BY <1>7, TipoCambiar DEF Cancelar
  <2>2. QED
    BY <1>7, <2>1, TipoTerminar DEF Cancelar, TypeOK
<1>8. CASE ValidarFila(s)
  <2> DEFINE resto == sesion[s].lote \ {Actual(s)}
             r == [sesion[s] EXCEPT !.lote = resto,
                       !.paso = IF resto = {} THEN "lista" ELSE "validar"]
  <2>1. r \in Peticion /\ EnOrden(r)
    BY <1>0, <1>8 DEF ValidarFila, En, Peticion, EnOrden
  <2>2. sesion' = [sesion EXCEPT ![s] = r]
    BY <1>8 DEF ValidarFila
  <2>3. dest' \in [Destinos -> Fila]
    BY <1>0, <1>8, PonerFilas DEF ValidarFila, EstadosDestino
  <2>4. Actual(s) \in Destinos
    BY <1>0, <1>8, ActualEnLote DEF ValidarFila, En, EnOrden, Peticion
  <2>5. pisados' \subseteq Destinos
    BY <1>8, <2>4 DEF ValidarFila, Pisar, TypeOK
  <2>6. fallas' \in 0..MaxFallas
    BY <1>8, CotaFallas DEF ValidarFila
  <2>7. QED
    BY <1>8, <2>1, <2>2, <2>3, <2>5, <2>6, UnaSesion DEF ValidarFila, TypeOK
<1>9. CASE DejarLista(s)
  <2>1. fallas' \in 0..MaxFallas /\ campana' \in EstadosCampana
    BY <1>9, TipoCambiar DEF DejarLista
  <2>2. QED
    BY <1>9, <2>1, TipoTerminar DEF DejarLista, TypeOK
<1>10. QED
  BY <1>1, <1>2, <1>3, <1>4, <1>5, <1>6, <1>7, <1>8, <1>9 DEF Otras

LEMMA TipoEntorno ==
    ASSUME TypeOK, (\E d \in Destinos : Responder(d) \/ FallarEntrega(d)) \/ Desaprobar
    PROVE  TypeOK'
<1>1. dest \in [Destinos -> Fila]
  BY DEF TypeOK
<1>2. dest' \in [Destinos -> Fila]
  BY <1>1, PonerFilas DEF Responder, FallarEntrega, Desaprobar, EstadosDestino
<1>3. QED
  BY <1>2 DEF Responder, FallarEntrega, Desaprobar, TypeOK, Historia

LEMMA TipoPaso == TypeOK /\ [Next]_vars => TypeOK'
<1> SUFFICES ASSUME TypeOK, [Next]_vars PROVE TypeOK'
  OBVIOUS
<1>1. CASE UNCHANGED vars
  BY <1>1 DEF vars, TypeOK
<1>2. CASE Next
  BY <1>2, TipoProceso, TipoDestinatario, TipoOtras, TipoEntorno DEF Next, Empezar, Proceso
<1>3. QED
  BY <1>1, <1>2

(* Types of the campaign (TypeOK).                                         *)
THEOREM TipoCorrecto == Spec => []TypeOK
BY TipoInicial, TipoPaso, PTL DEF Spec

-----------------------------------------------------------------------------
(* Messages.  A recipient nobody else touched is in one batch at most, the *)
(* batch's copy says whether it has an id, and one that has none is still  *)
(* to be sent.                                                             *)
UnaMano ==
    \A d \in Destinos \ pisados : \A s, t \in Sesiones :
        d \in EnMano(s) /\ d \in EnMano(t) => s = t

CopiaFiel ==
    \A s \in Sesiones : \A d \in EnMano(s) \ pisados :
        /\ d \in sesion[s].conId <=> dest[d].id
        /\ dest[d].id \/ dest[d].st \in {"queued", "sending"}

SinId ==
    \A s \in Sesiones :
        sesion[s].paso \in {"enviar", "notar"} => Actual(s) \notin sesion[s].conId

EnVuelo(d) == \E s \in Sesiones : En(s, "notar") /\ sesion[s].resp = "ok" /\ Actual(s) = d

Mensajes ==
    \A d \in Destinos \ pisados :
        /\ enviados[d] <= 1 + huerfanos[d]
        /\ dest[d].id \/ EnVuelo(d) \/ enviados[d] <= huerfanos[d]

InvEnvio == UnaMano /\ CopiaFiel /\ SinId /\ Mensajes

LEMMA EnvioInicial == Init => InvEnvio
<1> SUFFICES ASSUME Init PROVE InvEnvio
  OBVIOUS
<1>1. \A s \in Sesiones : sesion[s].paso = "libre"
  BY DEF Init, Libre
<1>2. \A s \in Sesiones : EnMano(s) = {}
  BY <1>1 DEF EnMano, Tratando
<1>3. \A d \in Destinos : enviados[d] = 0 /\ huerfanos[d] = 0
  BY DEF Init
<1>4. QED
  BY <1>1, <1>2, <1>3 DEF InvEnvio, UnaMano, CopiaFiel, SinId, Mensajes

(* Batches that take nothing new keep what they know of untouched rows.    *)
LEMMA ManosQuietas ==
    ASSUME TypeOK, UnaMano, CopiaFiel, pisados \subseteq pisados',
           \A t \in Sesiones : \A d \in EnMano(t)' :
               d \in EnMano(t) /\ (d \in sesion'[t].conId <=> d \in sesion[t].conId),
           \A t \in Sesiones : \A d \in EnMano(t)' \ pisados' :
               /\ dest'[d].id = dest[d].id
               /\ \/ dest'[d].st = dest[d].st
                  \/ dest'[d].st \in {"queued", "sending"}
                  \/ dest[d].id
    PROVE  UnaMano' /\ CopiaFiel'
<1>1. UnaMano'
  BY DEF UnaMano
<1>2. CopiaFiel'
  <2> SUFFICES ASSUME NEW t \in Sesiones, NEW d \in EnMano(t)' \ pisados'
               PROVE  /\ d \in sesion'[t].conId <=> dest'[d].id
                      /\ dest'[d].id \/ dest'[d].st \in {"queued", "sending"}
    BY DEF CopiaFiel
  <2>1. d \in EnMano(t) \ pisados /\ (d \in sesion'[t].conId <=> d \in sesion[t].conId)
    OBVIOUS
  <2>2. /\ d \in sesion[t].conId <=> dest[d].id
        /\ dest[d].id \/ dest[d].st \in {"queued", "sending"}
    BY <2>1 DEF CopiaFiel
  <2>3. QED
    BY <2>1, <2>2
<1>3. QED
  BY <1>1, <1>2

(* Steps that send nothing and note nothing keep the messages.             *)
LEMMA MensajesQuietos ==
    ASSUME TypeOK, Mensajes, pisados \subseteq pisados',
           enviados' = enviados, huerfanos' = huerfanos,
           \A d \in Destinos : dest'[d].id = dest[d].id,
           \A t \in Sesiones :
               \/ sesion'[t] = sesion[t]
               \/ sesion[t].paso # "notar" /\ sesion'[t].paso # "notar"
    PROVE  Mensajes'
<1>1. ASSUME NEW d, EnVuelo(d) PROVE EnVuelo(d)'
  <2>1. PICK s \in Sesiones : En(s, "notar") /\ sesion[s].resp = "ok" /\ Actual(s) = d
    BY <1>1 DEF EnVuelo
  <2>2. sesion'[s] = sesion[s]
    BY <2>1 DEF En
  <2>3. QED
    BY <2>1, <2>2 DEF EnVuelo, En, Actual
<1>2. QED
  BY <1>1 DEF Mensajes

(* Requests other than the batches, and the provider.                      *)
LEMMA EnvioFuera ==
    ASSUME TypeOK, InvEnvio, pisados \subseteq pisados',
           enviados' = enviados, huerfanos' = huerfanos,
           \A d \in Destinos : dest'[d].id = dest[d].id,
           \A t \in Sesiones :
               \/ sesion'[t] = sesion[t]
               \/ sesion[t].paso \notin Tratando /\ sesion'[t].paso \notin Tratando,
           \A t \in Sesiones : \A d \in EnMano(t) \ pisados' :
               dest'[d].st = dest[d].st \/ dest[d].id
    PROVE  InvEnvio'
<1>1. \A t \in Sesiones : EnMano(t)' = EnMano(t)
  BY DEF EnMano
<1>2. \A t \in Sesiones : EnMano(t) \subseteq Destinos
  BY DEF EnMano, TypeOK, Peticion
<1>3. \A t \in Sesiones : \A d \in EnMano(t) : sesion'[t].conId = sesion[t].conId
  BY DEF EnMano
<1>4. UnaMano' /\ CopiaFiel'
  BY <1>1, <1>2, <1>3, ManosQuietas DEF InvEnvio
<1>5. SinId'
  BY DEF InvEnvio, SinId, Actual, Tratando
<1>6. Mensajes'
  BY MensajesQuietos DEF InvEnvio, Tratando
<1>7. QED
  BY <1>4, <1>5, <1>6 DEF InvEnvio

(* What a request takes out of a batch's hands is no longer untouched.     *)
LEMMA Quitados ==
    ASSUME TypeOK, NEW s \in Sesiones, sesion[s].paso \notin Tratando,
           NEW ds, Pisar(s, ds), NEW e \in EstadosDestino, Poner(ds, e)
    PROVE  /\ pisados \subseteq pisados'
           /\ \A d \in Destinos : dest'[d].id = dest[d].id
           /\ \A t \in Sesiones : \A d \in EnMano(t) \ pisados' : dest'[d].st = dest[d].st
<1>1. pisados \subseteq pisados'
  BY DEF Pisar
<1>2. dest \in [Destinos -> Fila]
  BY DEF TypeOK
<1>3. \A t \in Sesiones : \A d \in EnMano(t) \ pisados' : d \notin ds /\ d \in Destinos
  BY DEF Pisar, EnMano, TypeOK, Peticion
<1>4. QED
  BY <1>1, <1>2, <1>3, PonerFilas

LEMMA EnvioOtras ==
    ASSUME TypeOK, InvEnvio, NEW s \in Sesiones,
           \/ LanzarCola(s) \/ Saltar(s) \/ ValidarFila(s)
           \/ Reencolar(s)
    PROVE  InvEnvio'
<1>1. sesion[s].paso \notin Tratando
  BY DEF LanzarCola, Saltar, ValidarFila, Reencolar, En, Tratando
<1>2. \A t \in Sesiones : sesion'[t] = sesion[t] \/ t = s
  BY DEF LanzarCola, Saltar, ValidarFila, Reencolar, Ir, TypeOK
<1>3. sesion'[s].paso \notin Tratando
  <2>0. sesion \in [Sesiones -> Peticion] /\ sesion[s] \in Peticion
    BY DEF TypeOK
  <2>1. CASE ValidarFila(s)
    <3> DEFINE resto == sesion[s].lote \ {Actual(s)}
               r == [sesion[s] EXCEPT !.lote = resto,
                         !.paso = IF resto = {} THEN "lista" ELSE "validar"]
    <3>1. r.paso \in {"lista", "validar"}
      BY <2>0 DEF Peticion
    <3>2. sesion' = [sesion EXCEPT ![s] = r]
      BY <2>1 DEF ValidarFila
    <3>3. sesion'[s] = r
      BY <2>0, <3>2
    <3>4. QED
      BY <3>1, <3>3 DEF Tratando
  <2>2. CASE LanzarCola(s) \/ Saltar(s) \/ Reencolar(s)
    <3>1. PICK p \in {"lanzar_envio", "cancelar", "lote"} : Ir(s, p)
      BY <2>2 DEF LanzarCola, Saltar, Reencolar
    <3>2. QED
      BY <2>0, <3>1 DEF Ir, Peticion, Tratando
  <2>3. QED
    BY <2>1, <2>2
<1>4. enviados' = enviados /\ huerfanos' = huerfanos
  BY DEF LanzarCola, Saltar, ValidarFila, Reencolar
<1>5. /\ pisados \subseteq pisados'
      /\ \A d \in Destinos : dest'[d].id = dest[d].id
      /\ \A t \in Sesiones : \A d \in EnMano(t) \ pisados' : dest'[d].st = dest[d].st
  BY <1>1, Quitados DEF LanzarCola, Saltar, ValidarFila, Reencolar, EstadosDestino
<1>6. QED
  BY <1>1, <1>2, <1>3, <1>4, <1>5, EnvioFuera

LEMMA EnvioSinFilas ==
    ASSUME TypeOK, InvEnvio, NEW s \in Sesiones,
           \/ Empezar(s) \/ Leer(s) \/ NoLeerLote(s) \/ FallarCampana(s) \/ ContarCola(s)
           \/ ContarEnvio(s) \/ Completar(s) \/ LanzarEnvio(s) \/ Cancelar(s) \/ DejarLista(s)
    PROVE  InvEnvio'
<1> USE DEF Empezar, Sondear, LeerLanzar, LeerCancelar, LeerValidar, Leer, NoLeerLote,
            FallarCampana, ContarCola, ContarEnvio, Contar, Completar, LanzarEnvio, Cancelar, DejarLista
<1>1. sesion[s].paso \notin Tratando
  BY DEF En, Tratando
<1>a. \/ \E p \in {"reencolar", "contar_cola", "contar_envio", "completar", "lanzar_cola",
                   "leer", "saltar"} :
             Ir(s, p)
      \/ Terminar(s)
      \/ sesion' = [sesion EXCEPT ![s].paso = "validar", ![s].lote = Destinos]
  OBVIOUS
<1>2. \A t \in Sesiones : sesion'[t] = sesion[t] \/ t = s
  BY <1>a DEF Ir, Terminar, TypeOK
<1>3. sesion'[s].paso \notin Tratando
  BY <1>a DEF Ir, Terminar, Libre, Tratando, TypeOK, Peticion
<1>4. UNCHANGED <<enviados, huerfanos, dest, pisados>>
  BY DEF Historia
<1>5. QED
  BY <1>1, <1>2, <1>3, <1>4, EnvioFuera

LEMMA EnvioEntorno ==
    ASSUME TypeOK, InvEnvio,
           (\E d \in Destinos : Responder(d) \/ FallarEntrega(d)) \/ Desaprobar
    PROVE  InvEnvio'
<1>0. dest \in [Destinos -> Fila] /\ UNCHANGED <<sesion, enviados, huerfanos, pisados>>
  BY DEF TypeOK, Responder, FallarEntrega, Desaprobar, Historia
<1>1. CASE Desaprobar
  BY <1>0, <1>1, EnvioFuera DEF Desaprobar
<1>2. ASSUME NEW d \in Destinos, Responder(d) PROVE InvEnvio'
  <2>1. \A t \in Sesiones : d \in EnMano(t) \ pisados => dest[d].id
    BY <1>2 DEF Responder, InvEnvio, CopiaFiel
  <2>2. \A t \in Sesiones : EnMano(t) \subseteq Destinos
    BY DEF EnMano, TypeOK, Peticion
  <2>3. /\ \A e \in Destinos : dest'[e].id = dest[e].id
        /\ \A e \in Destinos \ {d} : dest'[e] = dest[e]
    BY <1>0, <1>2, PonerFilas DEF Responder, EstadosDestino
  <2>4. \A t \in Sesiones : \A e \in EnMano(t) \ pisados' :
            dest'[e].st = dest[e].st \/ dest[e].id
    BY <1>0, <2>1, <2>2, <2>3
  <2>5. QED
    BY <1>0, <2>3, <2>4, EnvioFuera
<1>3. ASSUME NEW d \in Destinos, FallarEntrega(d) PROVE InvEnvio'
  <2>1. \A t \in Sesiones : EnMano(t) \subseteq Destinos
    BY DEF EnMano, TypeOK, Peticion
  <2>2. /\ \A e \in Destinos : dest'[e].id = dest[e].id
        /\ \A e \in Destinos \ {d} : dest'[e] = dest[e]
    BY <1>0, <1>3, PonerFilas DEF FallarEntrega, EstadosDestino
  <2>3. \A t \in Sesiones : \A e \in EnMano(t) \ pisados' :
            dest'[e].st = dest[e].st \/ dest[e].id
    BY <1>3, <2>1, <2>2 DEF FallarEntrega
  <2>4. QED
    BY <1>0, <2>2, <2>3, EnvioFuera
<1>4. QED
  BY <1>1, <1>2, <1>3

(* A batch takes what it reads out of any other batch's hands.             *)
LEMMA EnvioLeerLote ==
    ASSUME TypeOK, InvEnvio, NEW s \in Sesiones, LeerLote(s)
    PROVE  InvEnvio'
<1>1. Lote \subseteq Destinos /\ \A d \in Lote : dest[d].st = "queued"
  BY DEF Lote, Con
<1>2. /\ \A t \in Sesiones \ {s} : sesion'[t] = sesion[t]
      /\ sesion'[s].lote = Lote /\ sesion'[s].conId = {d \in Lote : dest[d].id}
      /\ sesion[s].paso = "lote" /\ sesion'[s].paso \in {"contar_cola", "marcar"}
      /\ dest' = dest /\ enviados' = enviados /\ huerfanos' = huerfanos
  <2>1. sesion \in [Sesiones -> Peticion]
    BY DEF TypeOK
  <2>2. sesion' = [sesion EXCEPT ![s] =
             [sesion[s] EXCEPT !.lote = Lote, !.conId = {d \in Lote : dest[d].id},
                               !.paso = IF Lote = {} THEN "contar_cola" ELSE "marcar"]]
    BY DEF LeerLote
  <2>3. sesion[s].paso = "lote" /\ dest' = dest /\ enviados' = enviados /\ huerfanos' = huerfanos
    BY DEF LeerLote, En
  <2> HIDE DEF LeerLote, Lote
  <2>4. QED
    BY <2>1, <2>2, <2>3 DEF Peticion
<1>3. /\ \A t \in Sesiones \ {s} : EnMano(t)' = EnMano(t)
      /\ EnMano(s)' \subseteq Lote
  BY <1>2 DEF EnMano
<1>4. /\ pisados \subseteq pisados'
      /\ \A t \in Sesiones \ {s} : \A d \in EnMano(t) \ pisados' : d \notin Lote
  BY DEF LeerLote, Pisar
<1>5. UnaMano'
  BY <1>3, <1>4 DEF UnaMano, InvEnvio
<1>6. CopiaFiel'
  <2> SUFFICES ASSUME NEW t \in Sesiones, NEW d \in EnMano(t)' \ pisados'
               PROVE  /\ d \in sesion'[t].conId <=> dest'[d].id
                      /\ dest'[d].id \/ dest'[d].st \in {"queued", "sending"}
    BY DEF CopiaFiel
  <2>1. CASE t = s
    BY <1>1, <1>2, <1>3, <2>1
  <2>2. CASE t # s
    <3>1. d \in EnMano(t) \ pisados /\ sesion'[t] = sesion[t]
      BY <1>2, <1>3, <1>4, <2>2
    <3>2. QED
      BY <1>2, <3>1 DEF InvEnvio, CopiaFiel
  <2>3. QED
    BY <2>1, <2>2
<1>7. SinId'
  BY <1>2 DEF InvEnvio, SinId, Actual
<1>8. Mensajes'
  BY <1>2, <1>4, MensajesQuietos DEF InvEnvio
<1>9. QED
  BY <1>5, <1>6, <1>7, <1>8 DEF InvEnvio

(* A batch on its way: what Avanzar, Ir and Terminar leave it.             *)
LEMMA TrasAvanzar ==
    ASSUME TypeOK, NEW s \in Sesiones, Avanzar(s), sesion[s].paso \in Tratando
    PROVE  /\ \A t \in Sesiones \ {s} : sesion'[t] = sesion[t] /\ EnMano(t)' = EnMano(t)
           /\ sesion'[s].paso \in {"contar_cola", "marcar"}
           /\ sesion'[s].conId = sesion[s].conId
           /\ Actual(s) \in EnMano(s)
           /\ EnMano(s)' \subseteq EnMano(s) \ {Actual(s)}
<1> DEFINE resto == sesion[s].lote \ {Actual(s)}
           r == [sesion[s] EXCEPT !.lote = resto, !.resp = "nada",
                     !.paso = IF resto = {} THEN "contar_cola" ELSE "marcar"]
<1>1. sesion[s] \in Peticion /\ sesion \in [Sesiones -> Peticion]
  BY DEF TypeOK
<1>2. r.lote = resto /\ r.conId = sesion[s].conId /\ r.paso \in {"contar_cola", "marcar"}
  BY <1>1 DEF Peticion
<1>3. sesion' = [sesion EXCEPT ![s] = r]
  BY DEF Avanzar
<1>4. sesion'[s] = r /\ \A t \in Sesiones \ {s} : sesion'[t] = sesion[t]
  BY <1>1, <1>3
<1>5. Actual(s) \in sesion[s].lote
  BY <1>1, ActualEnLote DEF TypeOK, EnOrden, Peticion
<1>6. QED
  BY <1>2, <1>4, <1>5 DEF EnMano

LEMMA EnvioSaltear ==
    ASSUME TypeOK, InvEnvio, NEW s \in Sesiones, Saltear(s)
    PROVE  InvEnvio'
<1>1. /\ UNCHANGED <<dest, enviados, huerfanos, pisados>>
      /\ Avanzar(s) /\ sesion[s].paso = "marcar"
  BY DEF Saltear, Historia, En
<1>2. /\ \A t \in Sesiones \ {s} : sesion'[t] = sesion[t] /\ EnMano(t)' = EnMano(t)
      /\ sesion'[s].paso \in {"contar_cola", "marcar"}
      /\ sesion'[s].conId = sesion[s].conId
      /\ EnMano(s)' \subseteq EnMano(s)
  BY <1>1, TrasAvanzar DEF Tratando
<1>3. UnaMano' /\ CopiaFiel'
  BY <1>1, <1>2, ManosQuietas DEF InvEnvio
<1>4. SinId'
  BY <1>2 DEF InvEnvio, SinId, Actual
<1>5. Mensajes'
  BY <1>1, <1>2, MensajesQuietos DEF InvEnvio
<1>6. QED
  BY <1>3, <1>4, <1>5 DEF InvEnvio

LEMMA EnvioMarcar ==
    ASSUME TypeOK, InvEnvio, NEW s \in Sesiones, Marcar(s)
    PROVE  InvEnvio'
<1>0. sesion[s] \in Peticion /\ sesion \in [Sesiones -> Peticion] /\ dest \in [Destinos -> Fila]
  BY DEF TypeOK
<1>1. /\ UNCHANGED <<enviados, huerfanos, pisados>>
      /\ sesion[s].paso = "marcar" /\ Actual(s) \notin sesion[s].conId
  BY DEF Marcar, En
<1>2. /\ \A t \in Sesiones \ {s} : sesion'[t] = sesion[t]
      /\ sesion'[s].paso = "enviar" /\ sesion'[s].lote = sesion[s].lote
      /\ sesion'[s].conId = sesion[s].conId
  BY <1>0 DEF Marcar, Ir, Peticion
<1>3. \A t \in Sesiones : EnMano(t)' = EnMano(t) /\ EnMano(t) \subseteq Destinos
  BY <1>0, <1>1, <1>2 DEF EnMano, Tratando, Peticion
<1>4. \A d \in Destinos :
         /\ dest'[d].id = dest[d].id
         /\ dest'[d].st = dest[d].st \/ dest'[d].st = "sending"
  BY <1>0, PonerFilas DEF Marcar, EstadosDestino
<1>5. UnaMano' /\ CopiaFiel'
  <2>1. \A t \in Sesiones : sesion'[t].conId = sesion[t].conId
    BY <1>2
  <2>2. \A t \in Sesiones : \A d \in EnMano(t)' \ pisados' :
            /\ dest'[d].id = dest[d].id
            /\ dest'[d].st = dest[d].st \/ dest'[d].st \in {"queued", "sending"}
    BY <1>3, <1>4
  <2>3. QED
    BY <1>1, <1>3, <2>1, <2>2, ManosQuietas DEF InvEnvio
<1>6. SinId'
  BY <1>1, <1>2 DEF InvEnvio, SinId, Actual
<1>7. Mensajes'
  <2>1. \A t \in Sesiones :
            \/ sesion'[t] = sesion[t]
            \/ sesion[t].paso # "notar" /\ sesion'[t].paso # "notar"
    BY <1>1, <1>2
  <2>2. QED
    BY <1>1, <1>4, <2>1, MensajesQuietos DEF InvEnvio
<1>8. QED
  BY <1>5, <1>6, <1>7 DEF InvEnvio

LEMMA EnvioEnviar ==
    ASSUME TypeOK, InvEnvio, NEW s \in Sesiones, Enviar(s)
    PROVE  InvEnvio'
<1>0. sesion[s] \in Peticion /\ sesion \in [Sesiones -> Peticion] /\ EnOrden(sesion[s])
      /\ enviados \in [Destinos -> Nat] /\ huerfanos \in [Destinos -> Nat]
  BY DEF TypeOK
<1>1. UNCHANGED <<dest, huerfanos, pisados>> /\ sesion[s].paso = "enviar"
  BY DEF Enviar, En
<1>2. PICK x \in {"ok", "error"} :
         /\ sesion' = [sesion EXCEPT ![s] = [sesion[s] EXCEPT !.paso = "notar", !.resp = x]]
         /\ enviados' = IF x = "ok" THEN [enviados EXCEPT ![Actual(s)] = @ + 1] ELSE enviados
  BY DEF Enviar
<1>3. /\ \A t \in Sesiones \ {s} : sesion'[t] = sesion[t]
      /\ sesion'[s].paso = "notar" /\ sesion'[s].lote = sesion[s].lote
      /\ sesion'[s].conId = sesion[s].conId /\ sesion'[s].resp = x
  BY <1>0, <1>2 DEF Peticion
<1>4. \A t \in Sesiones : EnMano(t)' = EnMano(t) /\ Actual(t)' = Actual(t)
  BY <1>1, <1>3 DEF EnMano, Tratando, Actual
<1>5. UnaMano' /\ CopiaFiel'
  BY <1>1, <1>3, <1>4, ManosQuietas DEF InvEnvio
<1>6. SinId'
  BY <1>1, <1>3, <1>4 DEF InvEnvio, SinId
<1>7. Actual(s) \in EnMano(s) /\ Actual(s) \in Destinos
  BY <1>0, <1>1, ActualEnLote DEF EnMano, Tratando, EnOrden, Peticion
<1>8. Mensajes'
  <2> SUFFICES ASSUME NEW d \in Destinos \ pisados
               PROVE  /\ enviados'[d] <= 1 + huerfanos'[d]
                      /\ dest'[d].id \/ EnVuelo(d)' \/ enviados'[d] <= huerfanos'[d]
    BY <1>1 DEF Mensajes
  <2>1. /\ enviados[d] <= 1 + huerfanos[d]
        /\ dest[d].id \/ EnVuelo(d) \/ enviados[d] <= huerfanos[d]
    BY DEF InvEnvio, Mensajes
  <2>2. CASE d # Actual(s) \/ x # "ok"
    <3>1. enviados'[d] = enviados[d]
      BY <1>0, <1>2, <2>2
    <3>2. EnVuelo(d) => EnVuelo(d)'
      <4> SUFFICES ASSUME EnVuelo(d) PROVE EnVuelo(d)'
        OBVIOUS
      <4>1. PICK t \in Sesiones : En(t, "notar") /\ sesion[t].resp = "ok" /\ Actual(t) = d
        BY DEF EnVuelo
      <4>2. t # s
        BY <1>1, <4>1 DEF En
      <4>3. QED
        BY <1>3, <1>4, <4>1, <4>2 DEF EnVuelo, En
    <3>3. QED
      BY <1>1, <2>1, <3>1, <3>2
  <2>3. CASE d = Actual(s) /\ x = "ok"
    <3>1. ~ dest[d].id
      BY <1>1, <1>7, <2>3 DEF InvEnvio, SinId, CopiaFiel
    <3>2. ~ EnVuelo(d)
      <4> SUFFICES ASSUME EnVuelo(d) PROVE FALSE
        OBVIOUS
      <4>1. PICK t \in Sesiones : En(t, "notar") /\ Actual(t) = d
        BY DEF EnVuelo
      <4>2. d \in EnMano(t)
        BY <4>1, ActualEnLote DEF En, EnMano, Tratando, TypeOK, EnOrden, Peticion
      <4>3. t = s
        BY <1>7, <2>3, <4>2 DEF InvEnvio, UnaMano
      <4>4. QED
        BY <1>1, <4>1, <4>3 DEF En
    <3>3. enviados'[d] = enviados[d] + 1 /\ enviados[d] <= huerfanos[d]
      BY <1>0, <1>2, <2>1, <2>3, <3>1, <3>2
    <3>4. EnVuelo(d)'
      BY <1>3, <1>4, <2>3 DEF EnVuelo, En
    <3>5. QED
      BY <1>0, <1>1, <3>3, <3>4
  <2>4. QED
    BY <1>2, <2>2, <2>3
<1>9. QED
  BY <1>5, <1>6, <1>8 DEF InvEnvio

(* A batch that leaves its message, noted or lost.                         *)
LEMMA VueloTerminado ==
    ASSUME TypeOK, InvEnvio, NEW s \in Sesiones, pisados' = pisados, enviados' = enviados,
           \A t \in Sesiones \ {s} : sesion'[t] = sesion[t],
           huerfanos' \in [Destinos -> Nat],
           \A d \in Destinos : huerfanos[d] <= huerfanos'[d],
           \A d \in Destinos : dest[d].id => dest'[d].id,
           En(s, "notar") /\ sesion[s].resp = "ok" =>
               \/ dest'[Actual(s)].id
               \/ huerfanos'[Actual(s)] = huerfanos[Actual(s)] + 1
    PROVE  Mensajes'
<1> SUFFICES ASSUME NEW d \in Destinos \ pisados
             PROVE  /\ enviados[d] <= 1 + huerfanos'[d]
                    /\ dest'[d].id \/ EnVuelo(d)' \/ enviados[d] <= huerfanos'[d]
  BY DEF Mensajes
<1>0. /\ enviados[d] \in Nat /\ huerfanos[d] \in Nat /\ huerfanos'[d] \in Nat
      /\ huerfanos[d] <= huerfanos'[d]
  BY DEF TypeOK
<1>1. /\ enviados[d] <= 1 + huerfanos[d]
      /\ dest[d].id \/ EnVuelo(d) \/ enviados[d] <= huerfanos[d]
  BY DEF InvEnvio, Mensajes
<1>2. CASE En(s, "notar") /\ sesion[s].resp = "ok" /\ Actual(s) = d
  BY <1>0, <1>1, <1>2
<1>3. CASE ~ (En(s, "notar") /\ sesion[s].resp = "ok" /\ Actual(s) = d)
  <2>1. EnVuelo(d) => EnVuelo(d)'
    <3> SUFFICES ASSUME EnVuelo(d) PROVE EnVuelo(d)'
      OBVIOUS
    <3>1. PICK t \in Sesiones : En(t, "notar") /\ sesion[t].resp = "ok" /\ Actual(t) = d
      BY DEF EnVuelo
    <3>2. t # s
      BY <1>3, <3>1
    <3>3. QED
      BY <3>1, <3>2 DEF EnVuelo, En, Actual
  <2>2. QED
    BY <1>0, <1>1, <2>1
<1>4. QED
  BY <1>2, <1>3

LEMMA EnvioNotar ==
    ASSUME TypeOK, InvEnvio, NEW s \in Sesiones, Notar(s)
    PROVE  InvEnvio'
<1> DEFINE a == Actual(s)
<1>0. /\ dest \in [Destinos -> Fila] /\ enviados \in [Destinos -> Nat]
      /\ huerfanos \in [Destinos -> Nat]
  BY DEF TypeOK
<1>1. /\ UNCHANGED <<enviados, pisados>> /\ En(s, "notar") /\ sesion[s].paso = "notar"
      /\ Avanzar(s)
  BY DEF Notar, En
<1>2. /\ \A t \in Sesiones \ {s} : sesion'[t] = sesion[t] /\ EnMano(t)' = EnMano(t)
      /\ sesion'[s].paso \in {"contar_cola", "marcar"}
      /\ sesion'[s].conId = sesion[s].conId
      /\ a \in EnMano(s)
      /\ EnMano(s)' \subseteq EnMano(s) \ {a}
  BY <1>1, TrasAvanzar DEF Tratando
<1>3. \A t \in Sesiones : EnMano(t) \subseteq Destinos
  BY DEF EnMano, TypeOK, Peticion
<1>4. /\ \A d \in Destinos \ {a} : dest'[d] = dest[d]
      /\ dest[a].id => dest'[a].id
      /\ \/ dest'[a].id \/ sesion[s].resp # "ok"
         \/ huerfanos' = [huerfanos EXCEPT ![a] = @ + 1]
      /\ huerfanos' \in [Destinos -> Nat] /\ \A d \in Destinos : huerfanos[d] <= huerfanos'[d]
  <2>0. a \in Destinos
    BY <1>2, <1>3
  <2>1. CASE /\ dest' = [dest EXCEPT ![a] = IF sesion[s].resp = "ok"
                            THEN [st |-> "sent", id |-> TRUE] ELSE [@ EXCEPT !.st = "failed"]]
             /\ huerfanos' = huerfanos
    <3>1. dest'[a] = IF sesion[s].resp = "ok" THEN [st |-> "sent", id |-> TRUE]
                     ELSE [dest[a] EXCEPT !.st = "failed"]
      BY <1>0, <2>0, <2>1
    <3>2. \A d \in Destinos \ {a} : dest'[d] = dest[d]
      BY <1>0, <2>1
    <3>3. dest[a] \in Fila
      BY <1>0, <2>0
    <3>4. /\ dest[a].id => dest'[a].id
          /\ dest'[a].id \/ sesion[s].resp # "ok"
      BY <3>1, <3>3 DEF Fila
    <3>5. QED
      BY <1>0, <2>1, <3>2, <3>4
  <2>2. CASE dest' = dest /\ Perder(s)
    BY <1>0, <1>1, <2>0, <2>2 DEF Perder
  <2>3. QED
    BY <2>1, <2>2 DEF Notar
<1>5. \A t \in Sesiones : \A d \in EnMano(t)' \ pisados' : dest'[d] = dest[d]
  <2> SUFFICES ASSUME NEW t \in Sesiones, NEW d \in EnMano(t)' \ pisados'
               PROVE  dest'[d] = dest[d]
    OBVIOUS
  <2>1. d \in EnMano(t) /\ d \in Destinos
    BY <1>2, <1>3
  <2>2. d # a
    <3>1. CASE t = s
      BY <1>2, <3>1
    <3>2. CASE t # s
      BY <1>1, <1>2, <2>1, <3>2 DEF InvEnvio, UnaMano
    <3>3. QED
      BY <3>1, <3>2
  <2>3. QED
    BY <1>4, <2>1, <2>2
<1>6. UnaMano' /\ CopiaFiel'
  <2>1. \A t \in Sesiones : EnMano(t)' \subseteq EnMano(t) /\ sesion'[t].conId = sesion[t].conId
    BY <1>2
  <2>2. QED
    BY <1>1, <1>5, <2>1, ManosQuietas DEF InvEnvio
<1>7. SinId'
  BY <1>2 DEF InvEnvio, SinId, Actual
<1>8. Mensajes'
  <2>1. \A d \in Destinos : dest[d].id => dest'[d].id
    BY <1>4
  <2>2. sesion[s].resp = "ok" => dest'[a].id \/ huerfanos'[a] = huerfanos[a] + 1
    BY <1>0, <1>2, <1>3, <1>4
  <2>3. QED
    BY <1>1, <1>2, <1>4, <2>1, <2>2, VueloTerminado
<1>9. QED
  BY <1>6, <1>7, <1>8 DEF InvEnvio

LEMMA EnvioCaer ==
    ASSUME TypeOK, InvEnvio, NEW s \in Sesiones, Caer(s)
    PROVE  InvEnvio'
<1>0. huerfanos \in [Destinos -> Nat] /\ sesion \in [Sesiones -> Peticion]
  BY DEF TypeOK
<1>1. UNCHANGED <<dest, enviados, pisados>> /\ Perder(s)
  BY DEF Caer
<1>2. sesion'[s] = Libre /\ \A t \in Sesiones \ {s} : sesion'[t] = sesion[t]
  BY <1>0 DEF Caer, Terminar
<1>3. EnMano(s)' = {} /\ \A t \in Sesiones \ {s} : EnMano(t)' = EnMano(t)
  BY <1>2 DEF EnMano, Libre, Tratando
<1>4. UnaMano' /\ CopiaFiel'
  BY <1>1, <1>2, <1>3, ManosQuietas DEF InvEnvio
<1>5. SinId'
  BY <1>2 DEF InvEnvio, SinId, Actual, Libre
<1>6. Mensajes'
  <2>1. En(s, "notar") => Actual(s) \in Destinos
    BY ActualEnLote DEF En, Tratando, TypeOK, EnOrden, Peticion
  <2>2. /\ huerfanos' \in [Destinos -> Nat]
        /\ \A d \in Destinos : huerfanos[d] <= huerfanos'[d]
        /\ En(s, "notar") /\ sesion[s].resp = "ok" =>
               huerfanos'[Actual(s)] = huerfanos[Actual(s)] + 1
    BY <1>0, <1>1, <2>1 DEF Perder
  <2>3. QED
    BY <1>1, <1>2, <2>2, VueloTerminado
<1>7. QED
  BY <1>4, <1>5, <1>6 DEF InvEnvio

LEMMA EnvioPaso == TypeOK /\ InvEnvio /\ [Next]_vars => InvEnvio'
<1> SUFFICES ASSUME TypeOK, InvEnvio, [Next]_vars PROVE InvEnvio'
  OBVIOUS
<1>1. CASE UNCHANGED vars
  BY <1>1, EnvioFuera DEF vars
<1>2. ASSUME NEW s \in Sesiones, Empezar(s) \/ Proceso(s) \/ Otras(s) \/ Caer(s) PROVE InvEnvio'
  BY <1>2, EnvioOtras, EnvioSinFilas, EnvioLeerLote, EnvioSaltear, EnvioMarcar, EnvioEnviar,
     EnvioNotar, EnvioCaer DEF Proceso, Otras
<1>3. QED
  BY <1>1, <1>2, EnvioEntorno DEF Next

(* The inductive invariant of the messages.                                *)
THEOREM InvarianteDeEnvio == Spec => []InvEnvio
BY TipoInicial, TipoPaso, EnvioInicial, EnvioPaso, PTL DEF Spec

(* A recipient no other request took from a batch gets one message, and    *)
(* one more only for each that no row noted (EnvioUnico), however many     *)
(* batches, deaths, lost writes, validations and launches there were.      *)
THEOREM UnSoloEnvio == Spec => []EnvioUnico
<1>1. InvEnvio => EnvioUnico
  BY DEF InvEnvio, Mensajes, EnvioUnico
<1>2. QED
  BY <1>1, InvarianteDeEnvio, PTL

-----------------------------------------------------------------------------
(* The end of the campaign.  What a batch about to finish counted stays    *)
(* counted, unless something was queued behind it.                         *)
Contado ==
    \A s \in Sesiones :
        /\ sesion[s].paso = "contar_envio" /\ ~ aciegas => Con({"queued"}) \subseteq pisados
        /\ sesion[s].paso = "completar" /\ ~ aciegas =>
              Con({"queued", "sending"}) \subseteq pisados

InvFin == Contado /\ CompletaSinPendientes

LEMMA FinInicial == Init => InvFin
BY DEF Init, InvFin, Contado, CompletaSinPendientes, Libre

(* Rows that join neither the queue nor those in sending change nothing.   *)
LEMMA FinQuieto ==
    ASSUME InvFin, pisados \subseteq pisados', aciegas => aciegas',
           campana' = "completed" => campana = "completed",
           \A t \in Sesiones :
               \/ sesion'[t] = sesion[t]
               \/ sesion'[t].paso \notin {"contar_envio", "completar"},
           \A d \in Destinos \ pisados' :
               /\ dest'[d].st = "queued" => dest[d].st = "queued"
               /\ dest'[d].st = "sending" => dest[d].st \in {"queued", "sending"}
    PROVE  InvFin'
<1>1. /\ Con({"queued"}) \subseteq pisados => Con({"queued"})' \subseteq pisados'
      /\ Con({"queued", "sending"}) \subseteq pisados => Con({"queued", "sending"})' \subseteq pisados'
  BY DEF Con
<1>2. QED
  BY <1>1 DEF InvFin, Contado, CompletaSinPendientes

(* Steps that count nothing and queue nothing.                             *)
LEMMA FinOtras ==
    ASSUME TypeOK, InvFin, NEW s \in Sesiones,
           \/ Empezar(s) \/ Leer(s) \/ LeerLote(s) \/ NoLeerLote(s) \/ FallarCampana(s)
           \/ Saltear(s) \/ Enviar(s) \/ LanzarEnvio(s) \/ Cancelar(s) \/ DejarLista(s) \/ Caer(s)
    PROVE  InvFin'
<1>0. sesion \in [Sesiones -> Peticion] /\ sesion[s] \in Peticion
  BY DEF TypeOK
<1>1. UNCHANGED <<dest, aciegas>> /\ pisados \subseteq pisados'
  BY DEF Empezar, Sondear, LeerLanzar, LeerCancelar, LeerValidar, Leer, LeerLote, NoLeerLote,
         FallarCampana, Saltear, Enviar, LanzarEnvio, Cancelar, DejarLista, Caer, Historia, Pisar
<1>2. campana' = "completed" => campana = "completed"
  BY DEF Empezar, Sondear, LeerLanzar, LeerCancelar, LeerValidar, Leer, LeerLote, NoLeerLote,
         FallarCampana, Saltear, Enviar, LanzarEnvio, Cancelar, DejarLista, Caer, Historia,
         CambiarCampana
<1>3. /\ \A t \in Sesiones \ {s} : sesion'[t] = sesion[t]
      /\ sesion'[s].paso \notin {"contar_envio", "completar"}
  <2>1. CASE \/ Leer(s) \/ NoLeerLote(s) \/ FallarCampana(s) \/ LanzarEnvio(s) \/ Cancelar(s)
             \/ DejarLista(s) \/ Caer(s)
    BY <1>0, <2>1 DEF Leer, NoLeerLote, FallarCampana, LanzarEnvio, Cancelar, DejarLista, Caer, Ir, Terminar,
                      Libre, Peticion
  <2>2. CASE Empezar(s)
    BY <1>0, <2>2 DEF Empezar, Sondear, LeerLanzar, LeerCancelar, LeerValidar, Ir, Peticion
  <2>3. CASE LeerLote(s)
    <3> DEFINE r == [sesion[s] EXCEPT !.lote = Lote, !.conId = {d \in Lote : dest[d].id},
                         !.paso = IF Lote = {} THEN "contar_cola" ELSE "marcar"]
    <3>1. sesion' = [sesion EXCEPT ![s] = r]
      BY <2>3 DEF LeerLote
    <3>2. r.paso \in {"contar_cola", "marcar"}
      BY <1>0 DEF Peticion
    <3>3. QED
      BY <1>0, <3>1, <3>2
  <2>4. CASE Saltear(s)
    BY <2>4, TrasAvanzar DEF Saltear, En, Tratando
  <2>5. CASE Enviar(s)
    <3>1. PICK x : sesion' = [sesion EXCEPT ![s] = [sesion[s] EXCEPT !.paso = "notar", !.resp = x]]
      BY <2>5 DEF Enviar
    <3>2. QED
      BY <1>0, <3>1 DEF Peticion
  <2>6. QED
    BY <2>1, <2>2, <2>3, <2>4, <2>5
<1>4. QED
  BY <1>1, <1>2, <1>3, FinQuieto

LEMMA FinMarcar ==
    ASSUME TypeOK, InvEnvio, InvFin, NEW s \in Sesiones, Marcar(s)
    PROVE  InvFin'
<1> DEFINE a == Actual(s)
<1>0. /\ sesion \in [Sesiones -> Peticion] /\ sesion[s] \in Peticion
      /\ dest \in [Destinos -> Fila]
  BY DEF TypeOK
<1>1. a \in EnMano(s) /\ a \notin sesion[s].conId
  BY <1>0, ActualEnLote DEF Marcar, En, EnMano, Tratando, TypeOK, EnOrden, Peticion
<1>2. a \in pisados \/ dest[a].st \in {"queued", "sending"}
  BY <1>1 DEF InvEnvio, CopiaFiel
<1>3. \A d \in Destinos : dest'[d] = dest[d] \/ (d = a /\ dest'[d].st = "sending")
  BY <1>0, PonerFilas DEF Marcar, EstadosDestino
<1>4. /\ \A t \in Sesiones \ {s} : sesion'[t] = sesion[t]
      /\ sesion'[s].paso = "enviar"
  BY <1>0 DEF Marcar, Ir, Peticion
<1>5. UNCHANGED <<campana, pisados, aciegas>>
  BY DEF Marcar
<1>6. QED
  BY <1>2, <1>3, <1>4, <1>5, FinQuieto

LEMMA FinNotar ==
    ASSUME TypeOK, InvFin, NEW s \in Sesiones, Notar(s)
    PROVE  InvFin'
<1>0. dest \in [Destinos -> Fila]
  BY DEF TypeOK
<1>1. /\ \A t \in Sesiones \ {s} : sesion'[t] = sesion[t]
      /\ sesion'[s].paso \notin {"contar_envio", "completar"}
  BY TrasAvanzar DEF Notar, En, Tratando
<1>2. \A d \in Destinos : dest'[d] = dest[d] \/ dest'[d].st \in {"sent", "failed"}
  <2> SUFFICES ASSUME NEW d \in Destinos
               PROVE  dest'[d] = dest[d] \/ dest'[d].st \in {"sent", "failed"}
    OBVIOUS
  <2>1. dest[d] \in Fila
    BY <1>0
  <2>2. CASE dest' = dest
    BY <2>2
  <2>3. CASE dest' = [dest EXCEPT ![Actual(s)] = IF sesion[s].resp = "ok"
                         THEN [st |-> "sent", id |-> TRUE] ELSE [@ EXCEPT !.st = "failed"]]
    BY <1>0, <2>1, <2>3 DEF Fila
  <2>4. QED
    BY <2>2, <2>3 DEF Notar
<1>3. UNCHANGED <<campana, pisados, aciegas>>
  BY DEF Notar
<1>4. QED
  BY <1>1, <1>2, <1>3, FinQuieto

(* What goes back or joins the queue behind a batch that finishes is seen. *)
LEMMA FinReencolar ==
    ASSUME TypeOK, InvFin, NEW s \in Sesiones, Reencolar(s)
    PROVE  InvFin'
<1>0. /\ sesion \in [Sesiones -> Peticion] /\ sesion[s] \in Peticion
      /\ dest \in [Destinos -> Fila]
  BY DEF TypeOK
<1>1. /\ \A t \in Sesiones \ {s} : sesion'[t] = sesion[t]
      /\ sesion'[s].paso = "lote" /\ campana' = campana /\ pisados \subseteq pisados'
  BY <1>0 DEF Reencolar, Ir, Peticion, Pisar
<1>2. CASE dest' = dest /\ aciegas' = aciegas
  BY <1>1, <1>2, FinQuieto
<1>3. CASE /\ Poner(Colgados, "queued")
           /\ aciegas' = (aciegas \/ (Colgados # {} /\ OtroTermina(s)))
  <2>1. /\ \A d \in Colgados : dest[d].st = "sending" /\ dest'[d].st = "queued"
        /\ \A d \in Destinos \ Colgados : dest'[d] = dest[d]
    BY <1>0, <1>3, PonerFilas DEF Colgados, Con, EstadosDestino
  <2>2. Con({"queued", "sending"})' = Con({"queued", "sending"})
    BY <2>1 DEF Con, Colgados
  <2>3. CASE Colgados = {}
    <3>1. aciegas => aciegas'
      BY <1>3, Zenon
    <3>2. \A d \in Destinos : dest'[d] = dest[d]
      BY <2>1, <2>3
    <3>3. QED
      BY <1>1, <3>1, <3>2, FinQuieto
  <2>4. CASE Colgados # {}
    <3>1. ~ aciegas' => ~ aciegas /\ ~ OtroTermina(s)
      BY <1>3, <2>4, Zenon
    <3>2. ~ aciegas' => \A t \in Sesiones : sesion'[t].paso \notin {"contar_envio", "completar"}
      BY <1>1, <3>1 DEF OtroTermina
    <3>3. QED
      BY <1>1, <2>2, <3>1, <3>2 DEF InvFin, Contado, CompletaSinPendientes
  <2>5. QED
    BY <2>3, <2>4
<1>4. QED
  BY <1>2, <1>3 DEF Reencolar

LEMMA FinLanzarCola ==
    ASSUME TypeOK, InvFin, NEW s \in Sesiones, LanzarCola(s)
    PROVE  InvFin'
<1>0. /\ sesion \in [Sesiones -> Peticion] /\ sesion[s] \in Peticion
      /\ dest \in [Destinos -> Fila]
  BY DEF TypeOK
<1>1. /\ \A t \in Sesiones \ {s} : sesion'[t] = sesion[t]
      /\ sesion'[s].paso = "lanzar_envio" /\ campana' = campana /\ pisados \subseteq pisados'
  BY <1>0 DEF LanzarCola, Ir, Peticion, Pisar
<1>2. \A d \in Destinos \ Con({"pending"}) : dest'[d] = dest[d]
  BY <1>0, PonerFilas DEF LanzarCola, EstadosDestino
<1>3. CASE Con({"pending"}) = {}
  <2>1. aciegas => aciegas'
    BY Zenon DEF LanzarCola
  <2>2. QED
    BY <1>1, <1>2, <1>3, <2>1, FinQuieto
<1>4. CASE dest' = dest /\ aciegas' = aciegas
  BY <1>1, <1>4, FinQuieto
<1>5. CASE Con({"pending"}) # {} /\ ~ (dest' = dest /\ aciegas' = aciegas)
  <2>1. ~ aciegas' => campana \in {"draft", "ready"} /\ ~ OtroTermina(s)
    BY <1>5, Zenon DEF LanzarCola
  <2>2. ~ aciegas' => \A t \in Sesiones : sesion'[t].paso \notin {"contar_envio", "completar"}
    BY <1>1, <2>1 DEF OtroTermina
  <2>3. QED
    BY <1>1, <2>1, <2>2 DEF InvFin, Contado, CompletaSinPendientes
<1>6. QED
  BY <1>3, <1>4, <1>5

(* The two counts and the completion.                                      *)
LEMMA FinContar ==
    ASSUME TypeOK, InvFin, NEW s \in Sesiones,
           ContarCola(s) \/ ContarEnvio(s) \/ Completar(s)
    PROVE  InvFin'
<1>0. sesion \in [Sesiones -> Peticion] /\ sesion[s] \in Peticion
  BY DEF TypeOK
<1>1. UNCHANGED <<dest, pisados>>
  BY DEF ContarCola, ContarEnvio, Completar
<1>2. \A e : Con(e)' = Con(e)
  BY <1>1 DEF Con
<1>3. CASE Terminar(s) /\ UNCHANGED <<campana, aciegas>>
  BY <1>0, <1>1, <1>3, FinQuieto DEF Terminar, Libre
<1>4. CASE ContarCola(s) /\ ~ (Terminar(s) /\ UNCHANGED <<campana, aciegas>>)
  <2>1. campana' = campana /\ Ir(s, "contar_envio")
    BY <1>4 DEF ContarCola, Contar, Bien
  <2>2. aciegas => aciegas'
    BY <1>4, Zenon DEF ContarCola, Contar
  <2>3. ~ aciegas' => Con({"queued"}) = {}
    BY <1>4 DEF ContarCola, Contar, Ir, Terminar
  <2>4. /\ \A t \in Sesiones \ {s} : sesion'[t] = sesion[t]
        /\ sesion'[s].paso = "contar_envio"
    BY <1>0, <2>1 DEF Ir, Peticion
  <2>5. QED
    BY <1>1, <1>2, <2>1, <2>2, <2>3, <2>4 DEF InvFin, Contado, CompletaSinPendientes
<1>5. CASE ContarEnvio(s) /\ ~ (Terminar(s) /\ UNCHANGED <<campana, aciegas>>)
  <2>1. campana' = campana /\ Ir(s, "completar") /\ sesion[s].paso = "contar_envio"
    BY <1>5 DEF ContarEnvio, Contar, Bien, En
  <2>2. aciegas => aciegas'
    BY <1>5, Zenon DEF ContarEnvio, Contar
  <2>3. ~ aciegas' => Con({"sending"}) = {}
    BY <1>5 DEF ContarEnvio, Contar, Ir, Terminar
  <2>4. /\ \A t \in Sesiones \ {s} : sesion'[t] = sesion[t]
        /\ sesion'[s].paso = "completar"
    BY <1>0, <2>1 DEF Ir, Peticion
  <2>5. ~ aciegas' => Con({"queued", "sending"}) \subseteq pisados
    <3>1. ~ aciegas => Con({"queued"}) \subseteq pisados
      BY <2>1 DEF InvFin, Contado
    <3>2. QED
      BY <2>2, <2>3, <3>1 DEF Con
  <2>6. QED
    BY <1>1, <1>2, <2>1, <2>2, <2>4, <2>5 DEF InvFin, Contado, CompletaSinPendientes
<1>6. CASE Completar(s)
  <2>1. ~ aciegas => Con({"queued", "sending"}) \subseteq pisados
    BY <1>6 DEF Completar, En, InvFin, Contado
  <2>2. /\ \A t \in Sesiones \ {s} : sesion'[t] = sesion[t]
        /\ sesion'[s].paso = "libre" /\ aciegas' = aciegas
    BY <1>0, <1>6 DEF Completar, Terminar, Libre
  <2>3. QED
    BY <1>1, <1>2, <2>1, <2>2 DEF InvFin, Contado, CompletaSinPendientes
<1>7. QED
  BY <1>3, <1>4, <1>5, <1>6

LEMMA FinFilas ==
    ASSUME TypeOK, InvFin,
           \/ \E s \in Sesiones : Saltar(s) \/ ValidarFila(s)
           \/ \E d \in Destinos : Responder(d) \/ FallarEntrega(d)
           \/ Desaprobar
    PROVE  InvFin'
<1>0. /\ sesion \in [Sesiones -> Peticion] /\ dest \in [Destinos -> Fila]
      /\ \A s \in Sesiones : sesion[s] \in Peticion
  BY DEF TypeOK
<1>1. ASSUME NEW s \in Sesiones, Saltar(s) PROVE InvFin'
  <2>1. /\ \A t \in Sesiones \ {s} : sesion'[t] = sesion[t]
        /\ sesion'[s].paso = "cancelar"
    BY <1>0, <1>1 DEF Saltar, Ir, Peticion
  <2>2. \A d \in Destinos : dest'[d] = dest[d] \/ dest'[d].st = "skipped"
    BY <1>0, <1>1, PonerFilas DEF Saltar, EstadosDestino
  <2>3. UNCHANGED <<campana, aciegas>> /\ pisados \subseteq pisados'
    BY <1>1 DEF Saltar, Pisar
  <2>4. QED
    BY <2>1, <2>2, <2>3, FinQuieto
<1>2. ASSUME NEW s \in Sesiones, ValidarFila(s) PROVE InvFin'
  <2> DEFINE resto == sesion[s].lote \ {Actual(s)}
             r == [sesion[s] EXCEPT !.lote = resto,
                       !.paso = IF resto = {} THEN "lista" ELSE "validar"]
  <2>1. sesion' = [sesion EXCEPT ![s] = r]
    BY <1>2 DEF ValidarFila
  <2>2. r.paso \in {"lista", "validar"}
    BY <1>0 DEF Peticion
  <2>3. /\ \A t \in Sesiones \ {s} : sesion'[t] = sesion[t]
        /\ sesion'[s].paso \in {"lista", "validar"}
    BY <1>0, <2>1, <2>2
  <2>4. \A d \in Destinos : dest'[d] = dest[d] \/ dest'[d].st = "pending"
    <3>1. \/ Poner({Actual(s)}, "pending") /\ "pending" \in EstadosDestino
          \/ dest' = dest
      BY <1>2 DEF ValidarFila, EstadosDestino
    <3>2. QED
      BY <1>0, <3>1, PonerFilas
  <2>5. UNCHANGED <<campana, aciegas>> /\ pisados \subseteq pisados'
    BY <1>2 DEF ValidarFila, Pisar
  <2>6. QED
    BY <2>3, <2>4, <2>5, FinQuieto
<1>3. ASSUME NEW d \in Destinos, Responder(d) \/ FallarEntrega(d) PROVE InvFin'
  <2>1. \A e \in Destinos : dest'[e] = dest[e] \/ dest'[e].st \in {"replied", "failed"}
    BY <1>0, <1>3, PonerFilas DEF Responder, FallarEntrega, EstadosDestino
  <2>2. UNCHANGED <<campana, sesion, aciegas, pisados>>
    BY <1>3 DEF Responder, FallarEntrega, Historia
  <2>3. QED
    BY <2>1, <2>2, FinQuieto
<1>4. CASE Desaprobar
  BY <1>4, FinQuieto DEF Desaprobar, Historia
<1>5. QED
  BY <1>1, <1>2, <1>3, <1>4

LEMMA FinPaso == TypeOK /\ InvEnvio /\ InvFin /\ [Next]_vars => InvFin'
<1> SUFFICES ASSUME TypeOK, InvEnvio, InvFin, [Next]_vars PROVE InvFin'
  OBVIOUS
<1>1. CASE UNCHANGED vars
  BY <1>1, FinQuieto DEF vars
<1>2. ASSUME NEW s \in Sesiones, Empezar(s) \/ Proceso(s) \/ Otras(s) \/ Caer(s) PROVE InvFin'
  BY <1>2, FinOtras, FinMarcar, FinNotar, FinReencolar, FinLanzarCola, FinContar, FinFilas
     DEF Proceso, Otras
<1>3. QED
  BY <1>1, <1>2, FinFilas DEF Next

(* A campaign completed leaves nobody queued or half sent, save recipients *)
(* another request took, or a batch blind to what joined the queue         *)
(* (CompletaSinPendientes).                                                *)
THEOREM FinSinPendientes == Spec => []CompletaSinPendientes
<1>1. Spec => []InvFin
  BY TipoInicial, TipoPaso, EnvioInicial, EnvioPaso, FinInicial, FinPaso, PTL DEF Spec
<1>2. InvFin => CompletaSinPendientes
  BY DEF InvFin
<1>3. QED
  BY <1>1, <1>2, PTL

=============================================================================
