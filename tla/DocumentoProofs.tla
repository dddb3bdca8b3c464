--------------------------- MODULE DocumentoProofs ---------------------------
(***************************************************************************)
(* What TLAPS proves of DocumentoElectronico, for any number of sessions,  *)
(* rows, numbers and lots: the types; that an approved row is backed by a  *)
(* lot SET approved; that an approval is not taken back by a request that  *)
(* had seen it; that the invoice is void exactly when its document is      *)
(* cancelled; and when two documents of one invoice can be approved.       *)
(*                                                                         *)
(* The second and third rest on one invariant of the requests (Coherente). *)
(* The argument: a request knows the row until somebody else writes it,    *)
(* and a write makes every other request in course "vieja", so only what a     *)
(* request that is not vieja does has to be followed.                      *)
(***************************************************************************)
EXTENDS DocumentoElectronico, SequenceTheorems, TLAPS

LEMMA NadaEsCdc == Nada \in Cdcs
BY DEF Cdcs

(***************************************************************************)
(* Types.  TypeOK is not inductive: that SET's answer is one of Respuestas *)
(* needs the lot asked for to be one SET received, and that a CDC is drawn *)
(* from a row needs the row to have been created.                          *)
(***************************************************************************)
Lotes == 0..Len(lotes)

FilaReal == [estado : Estados, seq : 0..MaxSeq, cdc : Cdcs, prot : Lotes,
             xml : BOOLEAN, firmado : BOOLEAN, aprobada : BOOLEAN, cancelada : BOOLEAN,
             salto : BOOLEAN]

Peticion ==
    {r \in [paso : Pasos, leida : FilaReal, id : 0..MaxFilas, cdc : Cdcs, lote : Lotes,
            resp : Respuestas, vieja : BOOLEAN] :
        /\ r.paso = "consulta_soap" => r.leida.prot # 0
        /\ r.paso = "consulta_fila" => r.resp \in {"nada", "aprobado", "rechazado"}}

Siguientes == Pasos \ {"consulta_soap", "consulta_fila"}

TipoReal ==
    /\ fe \in FilaReal
    /\ filas \in 0..MaxFilas
    /\ fe.estado # "nada" => filas # 0
    /\ xml \in Cdcs /\ firma \in Cdcs
    /\ factura \in Comercial
    /\ lotes \in Seq([cdc : Cdcs, res : Resultados]) /\ Len(lotes) <= MaxLotes
    /\ sesion \in [Sesiones -> Peticion]
    /\ pisado \in BOOLEAN /\ corte \in BOOLEAN

LEMMA TipoBasta == TipoReal => TypeOK
<1> SUFFICES ASSUME TipoReal PROVE TypeOK
  OBVIOUS
<1>1. Len(lotes) \in Nat /\ Lotes \subseteq 0..MaxLotes
  BY DocumentoAssumption DEF TipoReal, Lotes
<1>2. FilaReal \subseteq Fila
  BY <1>1 DEF FilaReal, Fila
<1>3. Peticion \subseteq [paso : Pasos, leida : Fila, id : 0..MaxFilas, cdc : Cdcs,
                          lote : 0..MaxLotes, resp : Respuestas, vieja : BOOLEAN]
  BY <1>1, <1>2 DEF Peticion
<1> QED
  BY <1>2, <1>3 DEF TipoReal, TypeOK

LEMMA CeroEsLote ==
  ASSUME TipoReal
  PROVE  0 \in Lotes /\ Len(lotes) \in Nat
BY DEF TipoReal, Lotes

LEMMA FilaCero ==
  ASSUME TipoReal
  PROVE  SinFila \in FilaReal
<1>1. 0 \in 0..MaxSeq /\ 0 \in Lotes
  BY DocumentoAssumption, CeroEsLote
<1> QED
  BY <1>1, NadaEsCdc DEF SinFila, FilaReal, Estados

LEMMA LibreTipo ==
  ASSUME TipoReal
  PROVE  Libre \in Peticion
<1>1. 0 \in 0..MaxFilas
  BY DocumentoAssumption
<1> QED
  BY <1>1, CeroEsLote, NadaEsCdc, FilaCero DEF Libre, Peticion, Pasos, Respuestas

(* What a request holds.                                                   *)
LEMMA EnMano ==
  ASSUME TipoReal, NEW s \in Sesiones
  PROVE  /\ sesion[s] \in Peticion
         /\ sesion[s].leida \in FilaReal
         /\ sesion[s].cdc \in Cdcs
         /\ sesion[s].lote \in Lotes
         /\ sesion[s].vieja \in BOOLEAN
         /\ fe \in FilaReal
BY DEF TipoReal, Peticion

LEMMA PasarTipo ==
  ASSUME TipoReal, NEW s \in Sesiones, NEW p \in Siguientes
  PROVE  Pasar(s, p) \in Peticion
<1>1. [sesion[s] EXCEPT !.paso = p] \in Peticion
  BY EnMano DEF Peticion, Siguientes
<1> QED
  BY <1>1, LibreTipo DEF Pasar

(* A request that goes on.                                                 *)
LEMMA MoverTipo ==
  ASSUME TipoReal, NEW s \in Sesiones, NEW r \in Peticion,
         sesion' = [sesion EXCEPT ![s] = r]
  PROVE  sesion' \in [Sesiones -> Peticion]
BY DEF TipoReal

LEMMA IrTipo ==
  ASSUME TipoReal, NEW s \in Sesiones, NEW p \in Siguientes, Ir(s, p)
  PROVE  sesion' \in [Sesiones -> Peticion]
<1>1. Pasar(s, p) \in Peticion
  BY PasarTipo
<1> QED
  BY <1>1, MoverTipo DEF Ir

(* The types after a step that leaves the lots alone.                      *)
LEMMA TipoResto ==
  ASSUME TipoReal, UNCHANGED <<filas, factura, lotes>>,
         xml' \in Cdcs, firma' \in Cdcs, fe' \in FilaReal, fe' = fe \/ fe.estado # "nada",
         sesion' \in [Sesiones -> Peticion], pisado' \in BOOLEAN, corte' \in BOOLEAN
  PROVE  TipoReal'
<1>1. FilaReal' = FilaReal /\ Lotes' = Lotes
  BY DEF FilaReal, Lotes
<1>2. Peticion' = Peticion
  BY <1>1 DEF Peticion
<1> QED
  BY <1>1, <1>2 DEF TipoReal

(* A step that only moves the request and the files.                       *)
LEMMA MoverTipoResto ==
  ASSUME TipoReal, NEW s \in Sesiones, NEW r \in Peticion,
         sesion' = [sesion EXCEPT ![s] = r],
         UNCHANGED <<fe, filas, factura, lotes, pisado, corte>>,
         xml' \in Cdcs, firma' \in Cdcs
  PROVE  TipoReal'
<1>1. sesion' \in [Sesiones -> Peticion]
  BY MoverTipo
<1> QED
  BY <1>1, TipoResto DEF TipoReal

LEMMA IrTipoResto ==
  ASSUME TipoReal, NEW s \in Sesiones, NEW p \in Siguientes, Ir(s, p),
         UNCHANGED <<fe, filas, factura, lotes, pisado, corte>>,
         xml' \in Cdcs, firma' \in Cdcs
  PROVE  TipoReal'
<1>1. Pasar(s, p) \in Peticion
  BY PasarTipo
<1> QED
  BY <1>1, MoverTipoResto DEF Ir

(* A request that reads the row.                                           *)
LEMMA LeerTipo ==
  ASSUME TipoReal, NEW s \in Sesiones, NEW p \in Pasos, NEW fila \in FilaReal,
         p = "consulta_soap" => fila.prot # 0,
         Leer(s, p, fila)
  PROVE  TipoReal'
<1> DEFINE r == [Libre EXCEPT !.paso = p, !.leida = fila, !.id = filas]
<1>1. r \in Peticion
  <2>1. filas \in 0..MaxFilas
    BY DEF TipoReal
  <2> QED
    BY <2>1, LibreTipo DEF Peticion, Libre
<1>2. sesion' = [sesion EXCEPT ![s] = r]
  BY DEF Leer
<1>3. xml' \in Cdcs /\ firma' \in Cdcs
  BY DEF Leer, TipoReal
<1> HIDE DEF r
<1> QED
  BY <1>1, <1>2, <1>3, MoverTipoResto DEF Leer

(* A request that writes it.                                               *)
LEMMA EscribirTipo ==
  ASSUME TipoReal, NEW s \in Sesiones, NEW p \in Siguientes, NEW fila \in FilaReal,
         Escribir(s, fila, p)
  PROVE  /\ fe' \in FilaReal
         /\ pisado' \in BOOLEAN
         /\ sesion' \in [Sesiones -> Peticion]
<1>1. sesion \in [Sesiones -> Peticion]
  BY DEF TipoReal
<1>2. Pasar(s, p) \in Peticion
  BY PasarTipo
<1>3. [Pasar(s, p) EXCEPT !.cdc = Nada, !.lote = 0] \in Peticion
  BY <1>2, CeroEsLote, NadaEsCdc DEF Peticion
<1>4. ASSUME NEW t \in Sesiones
      PROVE  [sesion[t] EXCEPT !.vieja = TRUE] \in Peticion
  BY <1>1 DEF Peticion
<1>5. sesion' \in [Sesiones -> Peticion]
  BY <1>1, <1>3, <1>4 DEF Escribir
<1>6. sesion[s].vieja \in BOOLEAN /\ pisado \in BOOLEAN
  BY EnMano DEF TipoReal
<1>7. pisado' \in BOOLEAN
  BY <1>6 DEF Escribir
<1> QED
  BY <1>5, <1>7 DEF Escribir

LEMMA ReponerTipo ==
  ASSUME TipoReal, NEW s \in Sesiones, NEW p \in Siguientes, NEW fila \in FilaReal,
         Reponer(s, fila, p) \/ Guardar(s, fila, p) \/ (Ir(s, p) /\ UNCHANGED <<fe, pisado>>),
         UNCHANGED <<filas, xml, firma, factura, lotes, corte>>
  PROVE  TipoReal'
<1>0. /\ xml' \in Cdcs /\ firma' \in Cdcs
      /\ corte' \in BOOLEAN
  BY DEF TipoReal
<1>1. CASE fe.estado # "nada" /\ Escribir(s, fila, p)
  <2>1. /\ fe' \in FilaReal
        /\ pisado' \in BOOLEAN
        /\ sesion' \in [Sesiones -> Peticion]
    BY <1>1, EscribirTipo
  <2> QED
    BY <1>0, <1>1, <2>1, TipoResto
<1>2. CASE Ir(s, p) /\ UNCHANGED <<fe, pisado>>
  BY <1>0, <1>2, IrTipoResto
<1> QED
  BY <1>1, <1>2 DEF Reponer, Guardar, Suya

LEMMA TipoBorrador ==
  ASSUME TipoReal, NEW s \in Sesiones, Borrador(s)
  PROVE  TipoReal'
<1>1. CASE LeerBorrador(s)
  <2>1. fe \in FilaReal /\ "borrador_insertar" \in Pasos
    BY DEF TipoReal, Pasos
  <2> QED
    BY <1>1, <2>1, LeerTipo DEF LeerBorrador
<1>2. CASE InsertarBorrador(s)
  <2> DEFINE f == [SinFila EXCEPT !.estado = "borrador"]
  <2>1. f \in FilaReal /\ "borrador_evento" \in Siguientes
    BY FilaCero DEF FilaReal, Estados, Pasos, Siguientes
  <2>2. /\ fe' \in FilaReal
        /\ pisado' \in BOOLEAN
        /\ sesion' \in [Sesiones -> Peticion]
    BY <1>2, <2>1, EscribirTipo DEF InsertarBorrador
  <2>3. filas' \in 0..MaxFilas /\ filas' # 0
    BY <1>2, DocumentoAssumption DEF InsertarBorrador, TipoReal
  <2>4. FilaReal' = FilaReal /\ Lotes' = Lotes
    BY <1>2 DEF InsertarBorrador, FilaReal, Lotes
  <2>5. Peticion' = Peticion
    BY <2>4 DEF Peticion
  <2> QED
    BY <1>2, <2>2, <2>3, <2>4, <2>5 DEF InsertarBorrador, TipoReal
<1>3. CASE EventoBorrador(s)
  <2>1. "libre" \in Siguientes
    BY DEF Pasos, Siguientes
  <2>2. CASE Ir(s, "libre") /\ UNCHANGED <<fe, pisado>>
    BY <1>3, <2>1, <2>2, FilaCero, ReponerTipo DEF EventoBorrador
  <2>3. CASE Escribir(s, SinFila, "libre")
    <3>1. /\ fe' \in FilaReal /\ fe'.estado = "nada"
          /\ pisado' \in BOOLEAN
          /\ sesion' \in [Sesiones -> Peticion]
      BY <2>1, <2>3, FilaCero, EscribirTipo DEF Escribir, SinFila
    <3>2. FilaReal' = FilaReal /\ Lotes' = Lotes
      BY <1>3 DEF EventoBorrador, FilaReal, Lotes
    <3>3. Peticion' = Peticion
      BY <3>2 DEF Peticion
    <3> QED
      BY <1>3, <3>1, <3>2, <3>3 DEF EventoBorrador, TipoReal
  <2> QED
    BY <1>3, <2>2, <2>3 DEF EventoBorrador
<1> QED
  BY <1>1, <1>2, <1>3 DEF Borrador

LEMMA TipoXmlFichero ==
  ASSUME TipoReal, NEW s \in Sesiones,
         \/ LeerXml(s) \/ ArmarXml(s) \/ SubirXml(s) \/ FallarReservado(s) \/ FallarXml(s)
         \/ EventoXml(s) \/ BorrarXml(s) \/ QuitarFirma(s)
  PROVE  TipoReal'
<1>0. xml \in Cdcs /\ firma \in Cdcs /\ Nada \in Cdcs
  BY NadaEsCdc DEF TipoReal
<1>p. {"libre", "xml_fila", "xml_revertir"} \subseteq Siguientes
  BY DEF Siguientes, Pasos
<1>1. CASE LeerXml(s)
  <2> DEFINE f == [fe EXCEPT !.aprobada = FALSE, !.cancelada = FALSE]
             p == IF fe.estado = "rechazado" THEN "xml_reservar" ELSE "xml_payload"
  <2>1. f \in FilaReal
    BY EnMano DEF FilaReal
  <2>2. p \in Pasos /\ p # "consulta_soap"
    BY DEF Pasos
  <2>3. Leer(s, p, f)
    BY <1>1 DEF LeerXml
  <2> HIDE DEF f, p
  <2> QED
    BY <2>1, <2>2, <2>3, LeerTipo
<1>2. CASE ArmarXml(s)
  <2> DEFINE c == <<filas, fe.seq>>
             r == [sesion[s] EXCEPT !.paso = "xml_subir", !.cdc = c]
  <2>1. filas \in 1..MaxFilas /\ fe.seq \in 0..MaxSeq
    BY <1>2, DocumentoAssumption DEF ArmarXml, Suya, TipoReal, FilaReal
  <2>2. c \in Cdcs
    BY <2>1 DEF Cdcs
  <2> HIDE DEF c
  <2>3. r \in Peticion
    BY <2>2, EnMano DEF Peticion, Pasos
  <2>4. sesion' = [sesion EXCEPT ![s] = r]
    BY <1>2 DEF ArmarXml, c
  <2> HIDE DEF r
  <2> QED
    BY <1>0, <1>2, <2>3, <2>4, MoverTipoResto DEF ArmarXml
<1>3. CASE SubirXml(s)
  <2>1. sesion[s].cdc \in Cdcs
    BY EnMano
  <2> QED
    BY <1>0, <1>p, <1>3, <2>1, IrTipoResto DEF SubirXml
<1>4. CASE FallarReservado(s)
  BY <1>0, <1>p, <1>4, IrTipoResto DEF FallarReservado
<1>5. CASE FallarXml(s)
  <2> DEFINE p == IF Rechazada(s) THEN "xml_revertir" ELSE "libre"
  <2>1. p \in Siguientes /\ Ir(s, p)
    BY <1>p, <1>5 DEF FallarXml
  <2> HIDE DEF p
  <2> QED
    BY <1>0, <1>5, <2>1, IrTipoResto DEF FallarXml
<1>6. CASE EventoXml(s)
  <2>1. CASE sesion[s].leida.firmado
    <3> DEFINE r == [Libre EXCEPT !.paso = "xml_quitar"]
    <3>1. r \in Peticion
      BY LibreTipo DEF Peticion, Pasos
    <3>2. sesion' = [sesion EXCEPT ![s] = r]
      BY <1>6, <2>1 DEF EventoXml
    <3> HIDE DEF r
    <3> QED
      BY <1>0, <1>6, <3>1, <3>2, MoverTipoResto DEF EventoXml
  <2>2. CASE ~ sesion[s].leida.firmado
    BY <1>0, <1>p, <1>6, <2>2, IrTipoResto DEF EventoXml
  <2> QED
    BY <2>1, <2>2
<1>7. CASE BorrarXml(s)
  BY <1>0, <1>p, <1>7, IrTipoResto DEF BorrarXml
<1>8. CASE QuitarFirma(s)
  BY <1>0, <1>p, <1>8, IrTipoResto DEF QuitarFirma
<1> QED
  BY <1>1, <1>2, <1>3, <1>4, <1>5, <1>6, <1>7, <1>8

LEMMA TipoXmlFila ==
  ASSUME TipoReal, NEW s \in Sesiones,
         ReservarSeq(s) \/ GuardarXml(s) \/ RevertirSeq(s) \/ SinEventoXml(s)
  PROVE  TipoReal'
<1>p. {"libre", "xml_payload", "xml_evento", "xml_borrar"} \subseteq Siguientes
  BY DEF Siguientes, Pasos
<1>1. CASE ReservarSeq(s)
  <2> DEFINE f == [fe EXCEPT !.seq = @ + 1, !.salto = @ \/ ~ NumeroUsado]
  <2>1. fe.seq + 1 \in 0..MaxSeq
    BY <1>1, EnMano, DocumentoAssumption DEF ReservarSeq, FilaReal
  <2>2. f \in FilaReal
    BY <2>1, EnMano DEF FilaReal
  <2>3. Guardar(s, f, "xml_payload")
    BY <1>1 DEF ReservarSeq
  <2> HIDE DEF f
  <2> QED
    BY <1>p, <1>1, <2>2, <2>3, ReponerTipo DEF ReservarSeq
<1>2. CASE GuardarXml(s)
  <2> DEFINE f == [fe EXCEPT !.estado = "generado", !.xml = TRUE, !.firmado = FALSE,
                             !.cdc = sesion[s].cdc,
                             !.prot = IF Rechazada(s) THEN 0 ELSE @]
  <2>1. f \in FilaReal
    BY EnMano, CeroEsLote DEF FilaReal, Estados
  <2>2. Guardar(s, f, "xml_evento")
    BY <1>2 DEF GuardarXml
  <2> HIDE DEF f
  <2> QED
    BY <1>p, <1>2, <2>1, <2>2, ReponerTipo DEF GuardarXml
<1>3. CASE RevertirSeq(s)
  <2> DEFINE f == [fe EXCEPT !.seq = sesion[s].leida.seq]
  <2>1. f \in FilaReal
    BY EnMano DEF FilaReal
  <2>2. Reponer(s, f, "libre")
    BY <1>3 DEF RevertirSeq
  <2> HIDE DEF f
  <2> QED
    BY <1>p, <1>3, <2>1, <2>2, ReponerTipo DEF RevertirSeq
<1>4. CASE SinEventoXml(s)
  <2> DEFINE f == AntesDelXml(sesion[s].leida)
  <2>1. f \in FilaReal
    BY EnMano DEF FilaReal, AntesDelXml
  <2>2. Reponer(s, f, "xml_borrar")
    BY <1>4 DEF SinEventoXml
  <2> HIDE DEF f
  <2> QED
    BY <1>p, <1>4, <2>1, <2>2, ReponerTipo DEF SinEventoXml
<1> QED
  BY <1>1, <1>2, <1>3, <1>4

LEMMA TipoFirmar ==
  ASSUME TipoReal, NEW s \in Sesiones, Firmar(s)
  PROVE  TipoReal'
<1>0. xml \in Cdcs /\ firma \in Cdcs /\ Nada \in Cdcs
  BY NadaEsCdc DEF TipoReal
<1>p. {"libre", "firmar_fila", "firmar_evento", "firmar_borrar"} \subseteq Siguientes
  BY DEF Siguientes, Pasos
<1>1. CASE LeerFirmar(s)
  <2> DEFINE f == [SinFila EXCEPT !.estado = fe.estado, !.xml = TRUE, !.firmado = fe.firmado]
  <2>1. f \in FilaReal
    BY EnMano, FilaCero DEF FilaReal
  <2>2. Leer(s, "firmar_bajar", f) /\ "firmar_bajar" \in Pasos
    BY <1>1 DEF LeerFirmar, Pasos
  <2> HIDE DEF f
  <2> QED
    BY <2>1, <2>2, LeerTipo
<1>2. CASE BajarXml(s)
  <2> DEFINE r == [sesion[s] EXCEPT !.paso = "firmar_subir", !.cdc = xml]
  <2>1. r \in Peticion
    BY <1>0, EnMano DEF Peticion, Pasos
  <2>2. sesion' = [sesion EXCEPT ![s] = r]
    BY <1>2 DEF BajarXml
  <2> HIDE DEF r
  <2> QED
    BY <1>0, <1>2, <2>1, <2>2, MoverTipoResto DEF BajarXml
<1>3. CASE SubirFirma(s)
  <2>1. firma' \in Cdcs
    BY <1>0, <1>3, EnMano DEF SubirFirma
  <2> QED
    BY <1>0, <1>p, <1>3, <2>1, IrTipoResto DEF SubirFirma
<1>4. CASE GuardarFirma(s)
  <2> DEFINE f == [fe EXCEPT !.estado = "firmado", !.xml = TRUE, !.firmado = TRUE]
  <2>1. f \in FilaReal
    BY EnMano DEF FilaReal, Estados
  <2>2. Guardar(s, f, "firmar_evento")
    BY <1>4 DEF GuardarFirma
  <2> HIDE DEF f
  <2> QED
    BY <1>p, <1>4, <2>1, <2>2, ReponerTipo DEF GuardarFirma
<1>5. CASE EventoFirma(s)
  <2> DEFINE l == sesion[s].leida
             f == [fe EXCEPT !.estado = l.estado, !.xml = l.xml, !.firmado = l.firmado]
  <2>1. f \in FilaReal
    BY EnMano DEF FilaReal
  <2>2. (Ir(s, "libre") /\ UNCHANGED <<fe, pisado>>) \/ Reponer(s, f, "firmar_borrar")
    BY <1>5 DEF EventoFirma
  <2> HIDE DEF f
  <2> QED
    BY <1>p, <1>5, <2>1, <2>2, ReponerTipo DEF EventoFirma
<1>6. CASE FallarFirma(s) \/ BorrarFirma(s)
  <2>1. firma' \in Cdcs
    BY <1>0, <1>6 DEF FallarFirma, BorrarFirma, DejarFirma
  <2> QED
    BY <1>0, <1>p, <1>6, <2>1, IrTipoResto DEF FallarFirma, BorrarFirma, DejarFirma
<1> QED
  BY <1>1, <1>2, <1>3, <1>4, <1>5, <1>6 DEF Firmar

(* The lots only grow: what was typed with the old ones still is.          *)
LEMMA LotesCrecen ==
  ASSUME TipoReal, NEW n \in Nat, Len(lotes) <= n, Len(lotes') = n
  PROVE  FilaReal \subseteq FilaReal' /\ Peticion \subseteq Peticion' /\ Lotes \subseteq Lotes'
<1>1. Lotes \subseteq Lotes'
  BY CeroEsLote DEF Lotes
<1>2. FilaReal \subseteq FilaReal'
  BY <1>1 DEF FilaReal
<1> QED
  BY <1>1, <1>2 DEF Peticion

LEMMA TipoRecibir ==
  ASSUME TipoReal, NEW s \in Sesiones, Recibir(s)
  PROVE  TipoReal'
<1> DEFINE n == Len(lotes) + 1
           nuevo == [cdc |-> sesion[s].cdc, res |-> "pendiente"]
<1>1. nuevo \in [cdc : Cdcs, res : Resultados]
  BY EnMano DEF Resultados
<1>2. lotes' = Append(lotes, nuevo)
  BY DEF Recibir
<1> HIDE DEF nuevo
<1>3. /\ lotes' \in Seq([cdc : Cdcs, res : Resultados])
      /\ Len(lotes') = n
      /\ n <= MaxLotes /\ n \in Nat /\ Len(lotes) <= n
  BY <1>1, <1>2, DocumentoAssumption DEF Recibir, TipoReal
<1>4. FilaReal \subseteq FilaReal' /\ Peticion \subseteq Peticion' /\ Lotes \subseteq Lotes'
  BY <1>3, LotesCrecen
<1>5. n \in Lotes'
  BY <1>3 DEF Lotes
<1>6. sesion' \in [Sesiones -> Peticion']
  <2>1. CASE Ir(s, "libre")
    <3>1. "libre" \in Siguientes
      BY DEF Siguientes, Pasos
    <3> QED
      BY <1>4, <2>1, <3>1, IrTipo
  <2>2. CASE sesion' = [sesion EXCEPT ![s].paso = "enviar_fila", ![s].resp = "encolado",
                                      ![s].cdc = Nada, ![s].lote = Len(lotes) + 1]
    <3> DEFINE r == [sesion[s] EXCEPT !.paso = "enviar_fila", !.resp = "encolado",
                                      !.cdc = Nada, !.lote = n]
    <3>1. sesion[s] \in Peticion'
      BY <1>4, EnMano
    <3>2. r \in Peticion'
      BY <1>5, <3>1, NadaEsCdc DEF Peticion, Pasos, Respuestas
    <3>3. sesion' = [sesion EXCEPT ![s] = r]
      BY <2>2
    <3> HIDE DEF r
    <3> QED
      BY <1>4, <3>2, <3>3 DEF TipoReal
  <2> QED
    BY <2>1, <2>2 DEF Recibir
<1>7. fe' \in FilaReal' /\ fe' = fe /\ filas' = filas
  BY <1>4 DEF Recibir, TipoReal
<1> QED
  BY <1>3, <1>6, <1>7 DEF Recibir, TipoReal

LEMMA TipoNoRecibir ==
  ASSUME TipoReal, NEW s \in Sesiones, NoRecibir(s)
  PROVE  TipoReal'
<1> DEFINE r == [sesion[s] EXCEPT !.paso = "enviar_fila", !.resp = "no_encolado",
                                  !.cdc = Nada]
           nuevo == [cdc |-> sesion[s].cdc, res |-> "pendiente"]
<1>0. xml' \in Cdcs /\ firma' \in Cdcs
  BY DEF NoRecibir, TipoReal
<1>1. r \in Peticion
  BY NadaEsCdc, EnMano DEF Peticion, Pasos, Respuestas
<1>2. nuevo \in [cdc : Cdcs, res : Resultados]
  BY EnMano DEF Resultados
<1>3. \/ Ir(s, "libre") /\ lotes' = lotes
      \/ sesion' = [sesion EXCEPT ![s] = r] /\ lotes' = lotes
      \/ /\ sesion' = [sesion EXCEPT ![s] = r]
         /\ Len(lotes) < MaxLotes
         /\ lotes' = Append(lotes, nuevo)
  BY DEF NoRecibir
<1> HIDE DEF r, nuevo
<1>4. CASE Ir(s, "libre") /\ lotes' = lotes
  <2>1. "libre" \in Siguientes
    BY DEF Siguientes, Pasos
  <2> QED
    BY <1>0, <1>4, <2>1, IrTipoResto DEF NoRecibir
<1>5. CASE sesion' = [sesion EXCEPT ![s] = r] /\ lotes' = lotes
  BY <1>0, <1>1, <1>5, MoverTipoResto DEF NoRecibir
<1>6. CASE /\ sesion' = [sesion EXCEPT ![s] = r]
           /\ Len(lotes) < MaxLotes
           /\ lotes' = Append(lotes, nuevo)
  <2>1. /\ lotes' \in Seq([cdc : Cdcs, res : Resultados])
        /\ Len(lotes') = Len(lotes) + 1
        /\ Len(lotes') <= MaxLotes
        /\ Len(lotes) + 1 \in Nat /\ Len(lotes) <= Len(lotes) + 1
    BY <1>2, <1>6, DocumentoAssumption DEF TipoReal
  <2>2. FilaReal \subseteq FilaReal' /\ Peticion \subseteq Peticion' /\ Lotes \subseteq Lotes'
    BY <2>1, LotesCrecen
  <2>3. sesion' \in [Sesiones -> Peticion']
    BY <1>1, <1>6, <2>2 DEF TipoReal
  <2>4. fe' \in FilaReal' /\ fe' = fe /\ filas' = filas
    BY <2>2 DEF NoRecibir, TipoReal
  <2> QED
    BY <2>1, <2>3, <2>4 DEF NoRecibir, TipoReal
<1> QED
  BY <1>3, <1>4, <1>5, <1>6

LEMMA TipoEnviar ==
  ASSUME TipoReal, NEW s \in Sesiones, Enviar(s)
  PROVE  TipoReal'
<1>0. xml \in Cdcs /\ firma \in Cdcs /\ Nada \in Cdcs
  BY NadaEsCdc DEF TipoReal
<1>p. {"libre", "enviar_evento"} \subseteq Siguientes
  BY DEF Siguientes, Pasos
<1>1. CASE LeerEnviar(s)
  <2> DEFINE f == [SinFila EXCEPT !.estado = "firmado", !.firmado = TRUE, !.prot = fe.prot]
  <2>1. f \in FilaReal
    BY EnMano, FilaCero DEF FilaReal, Estados
  <2>2. Leer(s, "enviar_bajar", f) /\ "enviar_bajar" \in Pasos
    BY <1>1 DEF LeerEnviar, Pasos
  <2> HIDE DEF f
  <2> QED
    BY <2>1, <2>2, LeerTipo
<1>2. CASE BajarFirma(s)
  <2> DEFINE r == [sesion[s] EXCEPT !.paso = "enviar_soap", !.cdc = firma]
  <2>1. r \in Peticion
    BY <1>0, EnMano DEF Peticion, Pasos
  <2>2. sesion' = [sesion EXCEPT ![s] = r]
    BY <1>2 DEF BajarFirma
  <2> HIDE DEF r
  <2> QED
    BY <1>0, <1>2, <2>1, <2>2, MoverTipoResto DEF BajarFirma
<1>3. CASE Recibir(s)
  BY <1>3, TipoRecibir
<1>4. CASE NoRecibir(s)
  BY <1>4, TipoNoRecibir
<1>5. CASE GuardarEnvio(s)
  <2> DEFINE f == [fe EXCEPT !.estado = IF sesion[s].resp = "encolado"
                                        THEN "enviado" ELSE "error_envio",
                             !.prot = sesion[s].lote]
  <2>1. f \in FilaReal
    BY EnMano DEF FilaReal, Estados
  <2>2. Guardar(s, f, "enviar_evento")
    BY <1>5 DEF GuardarEnvio
  <2> HIDE DEF f
  <2> QED
    BY <1>p, <1>5, <2>1, <2>2, ReponerTipo DEF GuardarEnvio
<1>6. CASE EventoEnvio(s)
  <2> DEFINE f == [fe EXCEPT !.estado = sesion[s].leida.estado,
                             !.prot = sesion[s].leida.prot]
  <2>1. f \in FilaReal
    BY EnMano DEF FilaReal
  <2>2. (Ir(s, "libre") /\ UNCHANGED <<fe, pisado>>) \/ Reponer(s, f, "libre")
    BY <1>6 DEF EventoEnvio
  <2> HIDE DEF f
  <2> QED
    BY <1>p, <1>6, <2>1, <2>2, ReponerTipo DEF EventoEnvio
<1> QED
  BY <1>1, <1>2, <1>3, <1>4, <1>5, <1>6 DEF Enviar

(* What a consultation takes from SET's answer.                            *)
LEMMA InferirTipo ==
  ASSUME TipoReal, NEW s \in Sesiones, En(s, "consulta_soap"),
         NEW r, r \in {"nada", Inferir(sesion[s].leida, lotes[sesion[s].leida.prot].res)}
  PROVE  /\ r \in {"nada", "aprobado", "rechazado"}
         /\ r # "nada" => /\ sesion[s].leida.estado = "enviado"
                          /\ r = lotes[sesion[s].leida.prot].res
         /\ sesion[s].leida.prot \in 1..Len(lotes)
<1>1. sesion[s].leida.prot \in 1..Len(lotes)
  BY EnMano, CeroEsLote DEF En, Peticion, FilaReal, Lotes
<1>2. lotes \in Seq([cdc : Cdcs, res : Resultados])
  BY DEF TipoReal
<1>3. lotes[sesion[s].leida.prot] \in [cdc : Cdcs, res : Resultados]
  BY <1>1, <1>2, ElementOfSeq
<1>4. lotes[sesion[s].leida.prot].res \in Resultados
  BY <1>3
<1> QED
  BY <1>1, <1>4 DEF Inferir, Resultados

LEMMA TipoConsulta ==
  ASSUME TipoReal, NEW s \in Sesiones, Consulta(s)
  PROVE  TipoReal'
<1>0. xml \in Cdcs /\ firma \in Cdcs /\ Nada \in Cdcs
  BY NadaEsCdc DEF TipoReal
<1>p. {"libre", "consulta_evento"} \subseteq Siguientes
  BY DEF Siguientes, Pasos
<1>1. CASE LeerConsulta(s)
  <2> DEFINE f == [SinFila EXCEPT !.estado = fe.estado, !.prot = fe.prot,
                                  !.aprobada = fe.aprobada]
  <2>1. f \in FilaReal /\ f.prot = fe.prot
    BY EnMano, FilaCero DEF FilaReal
  <2>2. Leer(s, "consulta_soap", f) /\ fe.prot # 0 /\ "consulta_soap" \in Pasos
    BY <1>1 DEF LeerConsulta, Pasos
  <2> HIDE DEF f
  <2> QED
    BY <2>1, <2>2, LeerTipo
<1>2. CASE Consultar(s)
  <2>1. CASE Ir(s, "libre")
    BY <1>0, <1>p, <1>2, <2>1, IrTipoResto DEF Consultar
  <2>2. CASE ~ Ir(s, "libre")
    <3>1. PICK q \in {"nada", Inferir(sesion[s].leida, lotes[sesion[s].leida.prot].res)} :
             sesion' = [sesion EXCEPT ![s].paso = "consulta_fila", ![s].resp = q]
      BY <1>2, <2>2 DEF Consultar
    <3> DEFINE r == [sesion[s] EXCEPT !.paso = "consulta_fila", !.resp = q]
    <3>2. q \in Respuestas /\ q \in {"nada", "aprobado", "rechazado"}
      BY <1>2, InferirTipo DEF Consultar, Respuestas
    <3>3. r \in Peticion
      BY <3>2, EnMano DEF Peticion, Pasos
    <3>4. sesion' = [sesion EXCEPT ![s] = r]
      BY <3>1
    <3> HIDE DEF r
    <3> QED
      BY <1>0, <1>2, <3>3, <3>4, MoverTipoResto DEF Consultar
  <2> QED
    BY <2>1, <2>2
<1>3. CASE GuardarConsulta(s)
  <2> DEFINE q == sesion[s].resp
             f == [fe EXCEPT !.estado = IF q = "nada" THEN sesion[s].leida.estado ELSE q,
                             !.aprobada = @ \/ q = "aprobado"]
  <2>1. q \in {"nada", "aprobado", "rechazado"}
    BY <1>3, EnMano DEF GuardarConsulta, En, Peticion
  <2>2. f \in FilaReal
    BY <2>1, EnMano DEF FilaReal, Estados
  <2>3. Guardar(s, f, "consulta_evento")
    BY <1>3 DEF GuardarConsulta
  <2> HIDE DEF f
  <2> QED
    BY <1>p, <1>3, <2>2, <2>3, ReponerTipo DEF GuardarConsulta
<1>4. CASE EventoConsulta(s)
  <2> DEFINE l == sesion[s].leida
             f == [fe EXCEPT !.estado = l.estado,
                             !.aprobada = IF sesion[s].resp = "aprobado"
                                          THEN l.aprobada ELSE @]
  <2>1. f \in FilaReal
    BY EnMano DEF FilaReal
  <2>2. (Ir(s, "libre") /\ UNCHANGED <<fe, pisado>>) \/ Reponer(s, f, "libre")
    BY <1>4 DEF EventoConsulta
  <2> HIDE DEF f
  <2> QED
    BY <1>p, <1>4, <2>1, <2>2, ReponerTipo DEF EventoConsulta
<1> QED
  BY <1>1, <1>2, <1>3, <1>4 DEF Consulta

LEMMA TipoDictaminar ==
  ASSUME TipoReal, NEW i \in 1..Len(lotes), Dictaminar(i)
  PROVE  TipoReal'
<1>1. PICK r \in {"aprobado", "rechazado"} : lotes' = [lotes EXCEPT ![i].res = r]
  BY DEF Dictaminar
<1>2. /\ lotes' \in Seq([cdc : Cdcs, res : Resultados])
      /\ Len(lotes') = Len(lotes)
  <2> DEFINE L == [cdc : Cdcs, res : Resultados]
             e == [lotes[i] EXCEPT !.res = r]
  <2>1. lotes \in Seq(L)
    BY DEF TipoReal
  <2>2. lotes[i] \in L
    BY <2>1, ElementOfSeq
  <2>3. e \in L
    BY <2>2 DEF Resultados
  <2>4. lotes' = [lotes EXCEPT ![i] = e]
    BY <1>1
  <2> HIDE DEF L, e
  <2>5. lotes' \in Seq(L) /\ Len(lotes') = Len(lotes)
    BY <2>1, <2>3, <2>4, ExceptSeq
  <2> QED
    BY <2>5 DEF L
<1>3. FilaReal \subseteq FilaReal' /\ Peticion \subseteq Peticion'
  BY <1>2, CeroEsLote, LotesCrecen
<1> QED
  BY <1>2, <1>3 DEF Dictaminar, TipoReal

LEMMA TipoCancelar ==
  ASSUME TipoReal, NEW s \in Sesiones, Cancelar(s)
  PROVE  TipoReal'
<1>0. xml \in Cdcs /\ firma \in Cdcs
  BY DEF TipoReal
<1>p. {"libre", "cancelar_evento", "cancelar_factura", "cancelar_deshacer"} \subseteq Siguientes
  BY DEF Siguientes, Pasos
<1>1. CASE LeerCancelar(s)
  <2>1. fe \in FilaReal /\ "cancelar_fila" \in Pasos
    BY EnMano DEF Pasos
  <2> QED
    BY <1>1, <2>1, LeerTipo DEF LeerCancelar
<1>2. CASE CancelarFila(s)
  <2> DEFINE f == [fe EXCEPT !.estado = "cancelado", !.cancelada = TRUE]
  <2>1. f \in FilaReal
    BY EnMano DEF FilaReal, Estados
  <2>2. Guardar(s, f, "cancelar_evento")
    BY <1>2 DEF CancelarFila
  <2> HIDE DEF f
  <2> QED
    BY <1>p, <1>2, <2>1, <2>2, ReponerTipo DEF CancelarFila
<1>3. CASE EventoCancelar(s)
  BY <1>0, <1>p, <1>3, IrTipoResto DEF EventoCancelar
<1>4. CASE AnularFactura(s)
  <2>1. PICK p \in {"libre", "cancelar_deshacer"} : Ir(s, p)
    BY <1>4 DEF AnularFactura
  <2>2. sesion' \in [Sesiones -> Peticion]
    BY <1>p, <2>1, IrTipo
  <2>3. FilaReal' = FilaReal /\ Lotes' = Lotes
    BY <1>4 DEF AnularFactura, FilaReal, Lotes
  <2>4. Peticion' = Peticion
    BY <2>3 DEF Peticion
  <2>5. factura' \in Comercial
    BY <1>4 DEF AnularFactura, TipoReal, Anulada, Vigente, Comercial
  <2> QED
    BY <1>4, <2>2, <2>3, <2>4, <2>5 DEF AnularFactura, TipoReal
<1>5. CASE DeshacerCancelar(s)
  <2> DEFINE f == [fe EXCEPT !.estado = sesion[s].leida.estado,
                             !.cancelada = sesion[s].leida.cancelada]
  <2>1. f \in FilaReal
    BY EnMano DEF FilaReal
  <2>2. Reponer(s, f, "libre")
    BY <1>5 DEF DeshacerCancelar
  <2> HIDE DEF f
  <2> QED
    BY <1>p, <1>5, <2>1, <2>2, ReponerTipo DEF DeshacerCancelar
<1> QED
  BY <1>1, <1>2, <1>3, <1>4, <1>5 DEF Cancelar

LEMMA TipoParar ==
  ASSUME TipoReal, NEW s \in Sesiones, Fallar(s) \/ Caer(s)
  PROVE  TipoReal'
<1>0. xml \in Cdcs /\ firma \in Cdcs
  BY DEF TipoReal
<1>p. "libre" \in Siguientes
  BY DEF Siguientes, Pasos
<1>1. CASE Fallar(s)
  BY <1>0, <1>p, <1>1, IrTipoResto DEF Fallar
<1>2. CASE Caer(s)
  <2>1. sesion' \in [Sesiones -> Peticion]
    BY <1>p, <1>2, IrTipo DEF Caer
  <2>2. corte' \in BOOLEAN
    BY <1>2 DEF Caer, TipoReal
  <2>3. /\ fe' = fe /\ fe' \in FilaReal
        /\ pisado' \in BOOLEAN
        /\ xml' \in Cdcs /\ firma' \in Cdcs
        /\ UNCHANGED <<filas, factura, lotes>>
    BY <1>0, <1>2 DEF Caer, TipoReal
  <2> QED
    BY <2>1, <2>2, <2>3, TipoResto
<1> QED
  BY <1>1, <1>2

LEMMA TipoInicial == Init => TipoReal
<1> SUFFICES ASSUME Init PROVE TipoReal
  OBVIOUS
<1>1. lotes \in Seq([cdc : Cdcs, res : Resultados]) /\ Len(lotes) = 0
  BY DEF Init
<1>2. 0 \in 0..MaxSeq /\ 0 \in Lotes /\ 0 \in 0..MaxFilas /\ 0 <= MaxLotes
  BY <1>1, DocumentoAssumption DEF Lotes
<1>3. SinFila \in FilaReal
  BY <1>2, NadaEsCdc DEF SinFila, FilaReal, Estados
<1>4. Libre \in Peticion
  BY <1>2, <1>3, NadaEsCdc DEF Libre, Peticion, Pasos, Respuestas
<1>5. factura \in Comercial
  BY DEF Init, Vigente, Comercial
<1> QED
  BY <1>1, <1>2, <1>3, <1>4, <1>5, NadaEsCdc DEF Init, TipoReal, SinFila

LEMMA TipoFactura ==
  ASSUME TipoReal, AnularPorBaja \/ PagarAnulada
  PROVE  TipoReal'
<1>1. factura' \in Comercial
  BY DEF AnularPorBaja, PagarAnulada, TipoReal, Vigente, Comercial
<1>2. UNCHANGED <<fe, filas, xml, firma, lotes, sesion, pisado, corte>>
  BY DEF AnularPorBaja, PagarAnulada
<1>3. FilaReal' = FilaReal /\ Lotes' = Lotes
  BY <1>2 DEF FilaReal, Lotes
<1>4. Peticion' = Peticion
  BY <1>3 DEF Peticion
<1> QED
  BY <1>1, <1>2, <1>3, <1>4 DEF TipoReal

(* Only the invoice changes, or nothing does.                              *)
LEMMA SoloFactura ==
  ASSUME AnularPorBaja \/ PagarAnulada \/ UNCHANGED vars
  PROVE  UNCHANGED <<fe, filas, xml, firma, lotes, sesion, pisado, corte>>
BY DEF AnularPorBaja, PagarAnulada, vars

LEMMA TipoPaso == TipoReal /\ [Next]_vars => TipoReal'
<1> SUFFICES ASSUME TipoReal, [Next]_vars PROVE TipoReal'
  OBVIOUS
<1>1. CASE UNCHANGED vars
  BY <1>1, TipoResto DEF vars, TipoReal
<1>2. ASSUME NEW s \in Sesiones, Xml(s)
      PROVE  TipoReal'
  BY <1>2, TipoXmlFichero, TipoXmlFila DEF Xml
<1> QED
  BY <1>1, <1>2, TipoBorrador, TipoFirmar, TipoEnviar, TipoConsulta, TipoCancelar,
     TipoParar, TipoDictaminar, TipoFactura DEF Next

(* The state keeps its types, and a row points at no lot SET did not       *)
(* receive.                                                                *)
THEOREM TipoDocumento == Spec => []TipoReal
<1>1. Init => TipoReal
  BY TipoInicial
<1>2. TipoReal /\ [Next]_vars => TipoReal'
  BY TipoPaso
<1> QED
  BY <1>1, <1>2, PTL DEF Spec

(* The type invariant the run checks.                                      *)
THEOREM TipoCorrecto == Spec => []TypeOK
BY TipoDocumento, TipoBasta, PTL

(***************************************************************************)
(* What a request knows.  f is the row, ap the lots approved and pis       *)
(* whether a request has written over a change it had not seen.            *)
(***************************************************************************)
Consultando == {"consulta_soap", "consulta_fila", "consulta_evento"}
Cancelando == {"cancelar_fila", "cancelar_evento", "cancelar_factura", "cancelar_deshacer"}
Mirada == Consultando \cup Cancelando

\* Requests that work on a document with no approval; xml_quitar writes no row.
Ajenos == Pasos \ ({"libre", "xml_quitar"} \cup Mirada)

Coherente(z, f, ap, pis) ==
    /\ z.leida.estado \in Bloqueados => ap # {} /\ z.paso \in Mirada
    /\ z.resp = "aprobado" => z.leida.prot \in ap
    /\ z.resp \in {"aprobado", "rechazado"} => z.leida.estado = "enviado"
    /\ z.paso \in Mirada /\ ~ z.vieja => f.prot = z.leida.prot
    /\ z.paso \in {"consulta_soap", "consulta_fila"} /\ ~ z.vieja =>
           f.estado = z.leida.estado
    /\ z.paso \in Mirada /\ z.leida.estado \in Bloqueados /\ ~ pis => z.leida.prot \in ap
    /\ z.paso \in Cancelando => z.leida.estado = "aprobado"
    /\ z.paso \in Ajenos /\ ~ z.vieja => f.estado \notin Bloqueados

Respaldo(f, ap, pis) ==
    f.estado \in Bloqueados => ap # {} /\ (pis \/ f.prot \in ap)

InvAprobado ==
    /\ TipoReal
    /\ Respaldo(fe, Aprobados, pisado)
    /\ \A s \in Sesiones : Coherente(sesion[s], fe, Aprobados, pisado)

LEMMA AprobadoSegunRespaldo == AprobadoPorSet <=> Respaldo(fe, Aprobados, pisado)
BY DEF AprobadoPorSet, Respaldo, Bloqueados

LEMMA LibreCoherente ==
  ASSUME NEW f, NEW ap, NEW pis
  PROVE  Coherente(Libre, f, ap, pis)
BY DEF Coherente, Libre, SinFila, Bloqueados, Mirada, Consultando, Cancelando, Ajenos

(* More approvals, or a row written over, take nothing from what a request *)
(* knows.                                                                  *)
LEMMA CoherenteCrece ==
  ASSUME NEW z, NEW f, NEW ap, NEW pis, NEW ap2, NEW pis2,
         Coherente(z, f, ap, pis), ap \subseteq ap2, pis => pis2
  PROVE  Coherente(z, f, ap2, pis2)
BY DEF Coherente

(* Somebody else writes the row.                                           *)
LEMMA CoherenteVieja ==
  ASSUME TipoReal, NEW z \in Peticion, NEW f, NEW ap, NEW pis, NEW f2, NEW pis2,
         Coherente(z, f, ap, pis), pis => pis2
  PROVE  Coherente([z EXCEPT !.vieja = TRUE], f2, ap, pis2)
<1> DEFINE r == [z EXCEPT !.vieja = TRUE]
<1>1. r.vieja = TRUE /\ r.paso = z.paso /\ r.leida = z.leida /\ r.resp = z.resp
  BY DEF Peticion
<1> HIDE DEF r
<1> QED
  BY <1>1 DEF Coherente

LEMMA CoherenteLibre ==
  ASSUME NEW z, NEW f, NEW ap, NEW pis, NEW f2, NEW pis2,
         Coherente(z, f, ap, pis), z.paso = "libre", pis => pis2
  PROVE  Coherente(z, f2, ap, pis2)
BY DEF Coherente, Mirada, Consultando, Cancelando, Ajenos

(* A request of the first steps goes on to another of them.                *)
LEMMA CoherenteAjena ==
  ASSUME NEW z, NEW r, NEW f, NEW ap, NEW pis,
         Coherente(z, f, ap, pis), z.paso \in Ajenos, r.paso \in Ajenos,
         r.leida = z.leida, r.vieja = z.vieja,
         r.resp = z.resp \/ r.resp \notin {"aprobado", "rechazado"}
  PROVE  Coherente(r, f, ap, pis)
BY DEF Coherente, Ajenos, Mirada, Consultando, Cancelando

(* Nobody writes the row, and the approvals stay.                          *)
LEMMA SinEscribir ==
  ASSUME InvAprobado, UNCHANGED <<fe, pisado>>, Aprobados \subseteq Aprobados', TipoReal',
         \A t \in Sesiones : Coherente(sesion'[t], fe, Aprobados, pisado)
  PROVE  InvAprobado'
<1>1. Respaldo(fe, Aprobados, pisado)'
  BY DEF InvAprobado, Respaldo
<1>2. \A t \in Sesiones : Coherente(sesion[t], fe, Aprobados, pisado)'
  BY DEF Coherente
<1> QED
  BY <1>1, <1>2 DEF InvAprobado

(* A request moves and writes nothing.                                     *)
LEMMA Mueve ==
  ASSUME InvAprobado, NEW s \in Sesiones, NEW r,
         sesion' = [sesion EXCEPT ![s] = r], UNCHANGED <<fe, lotes, pisado>>,
         Coherente(r, fe, Aprobados, pisado), TipoReal'
  PROVE  InvAprobado'
<1>1. Aprobados' = Aprobados
  BY DEF Aprobados
<1>2. ASSUME NEW t \in Sesiones
      PROVE  Coherente(sesion'[t], fe, Aprobados, pisado)
  <2>1. sesion'[t] = IF t = s THEN r ELSE sesion[t]
    BY DEF InvAprobado, TipoReal
  <2> QED
    BY <2>1 DEF InvAprobado
<1> QED
  BY <1>1, <1>2, SinEscribir

LEMMA IrCoherente ==
  ASSUME InvAprobado, NEW s \in Sesiones, NEW p, Ir(s, p), UNCHANGED <<fe, lotes, pisado>>,
         Coherente(Pasar(s, p), fe, Aprobados, pisado), TipoReal'
  PROVE  InvAprobado'
BY Mueve DEF Ir

(* A request that ends.                                                    *)
LEMMA IrLibre ==
  ASSUME InvAprobado, NEW s \in Sesiones, Ir(s, "libre"), UNCHANGED <<fe, lotes, pisado>>,
         TipoReal'
  PROVE  InvAprobado'
BY IrCoherente, LibreCoherente DEF Pasar

(* A request of the first steps that goes on.                              *)
LEMMA MueveAjena ==
  ASSUME InvAprobado, NEW s \in Sesiones, NEW r, sesion[s].paso \in Ajenos,
         sesion' = [sesion EXCEPT ![s] = r], UNCHANGED <<fe, lotes, pisado>>, TipoReal',
         r.paso \in Ajenos, r.leida = sesion[s].leida, r.vieja = sesion[s].vieja,
         r.resp = sesion[s].resp \/ r.resp \notin {"aprobado", "rechazado"}
  PROVE  InvAprobado'
<1>1. Coherente(r, fe, Aprobados, pisado)
  BY CoherenteAjena DEF InvAprobado
<1> QED
  BY <1>1, Mueve

LEMMA IrAjena ==
  ASSUME InvAprobado, NEW s \in Sesiones, NEW p \in Ajenos, sesion[s].paso \in Ajenos,
         Ir(s, p), UNCHANGED <<fe, lotes, pisado>>, TipoReal'
  PROVE  InvAprobado'
<1> DEFINE r == [sesion[s] EXCEPT !.paso = p]
<1>1. sesion[s] \in Peticion
  BY EnMano DEF InvAprobado
<1>2. r.paso = p /\ r.leida = sesion[s].leida /\ r.vieja = sesion[s].vieja
      /\ r.resp = sesion[s].resp
  BY <1>1 DEF Peticion
<1>3. sesion' = [sesion EXCEPT ![s] = r]
  BY DEF Ir, Pasar, Ajenos
<1> HIDE DEF r
<1> QED
  BY <1>2, <1>3, MueveAjena

(* A request of the first steps that begins.                               *)
LEMMA LeeAjena ==
  ASSUME InvAprobado, NEW s \in Sesiones, NEW p \in Ajenos, NEW fila, Leer(s, p, fila),
         fe.estado \notin Bloqueados, fila.estado \notin Bloqueados, TipoReal'
  PROVE  InvAprobado'
<1> DEFINE r == [Libre EXCEPT !.paso = p, !.leida = fila, !.id = filas]
<1>1. r.paso = p /\ r.leida = fila /\ r.resp = "nada"
  BY DEF Libre
<1>2. sesion' = [sesion EXCEPT ![s] = r]
  BY DEF Leer
<1> HIDE DEF r
<1>3. Coherente(r, fe, Aprobados, pisado)
  BY <1>1 DEF Coherente, Ajenos, Mirada, Consultando, Cancelando
<1> QED
  BY <1>2, <1>3, Mueve DEF Leer

(* What is left in the hands of a request that writes.                     *)
Tras(s, p) == [Pasar(s, p) EXCEPT !.cdc = Nada, !.lote = 0]

LEMMA TrasLibre ==
  ASSUME TipoReal, NEW s
  PROVE  Tras(s, "libre") = Libre
<1>1. Pasar(s, "libre") = Libre
  BY DEF Pasar
<1>2. ASSUME NEW z \in Peticion
      PROVE  [z EXCEPT !.cdc = z.cdc, !.lote = z.lote] = z
  BY DEF Peticion
<1>3. Libre \in Peticion /\ Libre.cdc = Nada /\ Libre.lote = 0
  BY LibreTipo DEF Libre
<1>4. [Libre EXCEPT !.cdc = Libre.cdc, !.lote = Libre.lote] = Libre
  BY <1>2, <1>3
<1> QED
  BY <1>1, <1>3, <1>4, Zenon DEF Tras

LEMMA TrasEscribir ==
  ASSUME TipoReal, NEW s \in Sesiones, NEW p, p # "libre"
  PROVE  /\ Tras(s, p).paso = p
         /\ Tras(s, p).leida = sesion[s].leida
         /\ Tras(s, p).resp = sesion[s].resp
         /\ Tras(s, p).vieja = sesion[s].vieja
<1>1. sesion[s] \in Peticion
  BY EnMano
<1> DEFINE R == [paso : {p}, leida : {sesion[s].leida}, id : 0..MaxFilas, cdc : Cdcs,
                  lote : Lotes, resp : {sesion[s].resp}, vieja : {sesion[s].vieja}]
<1>2. [sesion[s] EXCEPT !.paso = p] \in R
  BY <1>1 DEF Peticion
<1>3. Pasar(s, p) \in R
  BY <1>2 DEF Pasar
<1>4. ASSUME NEW z \in R, NEW c \in Cdcs, NEW l \in Lotes
      PROVE  [z EXCEPT !.cdc = c, !.lote = l] \in R
  OBVIOUS
<1>5. Tras(s, p) \in R
  BY <1>3, <1>4, NadaEsCdc, CeroEsLote DEF Tras
<1> QED
  BY <1>5

(* A request writes the row.                                               *)
LEMMA Escribe ==
  ASSUME InvAprobado, NEW s \in Sesiones, NEW p, NEW fila, Escribir(s, fila, p),
         NEW b \in BOOLEAN, b = (pisado \/ sesion[s].vieja),
         ~ En(s, "libre"), lotes' = lotes, TipoReal',
         Coherente(Tras(s, p), fila, Aprobados, b), Respaldo(fila, Aprobados, b)
  PROVE  InvAprobado'
<1>1. Aprobados' = Aprobados
  BY DEF Aprobados
<1>2. fe' = fila /\ pisado' = (pisado \/ sesion[s].vieja)
  BY DEF Escribir
<1>p. pisado => pisado'
  BY <1>2
<1>3. Respaldo(fe, Aprobados, pisado)'
  BY <1>1, <1>2 DEF Respaldo
<1>4. ASSUME NEW t \in Sesiones
      PROVE  Coherente(sesion'[t], fe', Aprobados, pisado')
  <2>0. sesion[t] \in Peticion /\ Coherente(sesion[t], fe, Aprobados, pisado)
    BY EnMano DEF InvAprobado
  <2>1. CASE t = s
    <3>1. sesion'[t] = Tras(s, p)
      BY <2>1 DEF Escribir, Tras
    <3>2. b => pisado'
      BY <1>2
    <3>4. Coherente(Tras(s, p), fila, Aprobados, pisado')
      BY <3>2, CoherenteCrece
    <3>3. fe' = fila
      BY <1>2
    <3> QED
      BY <3>1, <3>3, <3>4, Zenon
  <2>2. CASE t # s /\ En(t, "libre")
    <3>1. sesion'[t] = sesion[t] /\ sesion[t].paso = "libre"
      BY <2>2 DEF Escribir, En
    <3> QED
      BY <1>p, <2>0, <3>1, CoherenteLibre
  <2>3. CASE t # s /\ ~ En(t, "libre")
    <3>1. sesion'[t] = [sesion[t] EXCEPT !.vieja = TRUE]
      BY <2>3 DEF Escribir
    <3> QED
      BY <1>p, <2>0, <3>1, CoherenteVieja DEF InvAprobado
  <2> QED
    BY <2>1, <2>2, <2>3
<1>5. \A t \in Sesiones : Coherente(sesion[t], fe, Aprobados, pisado)'
  BY <1>1, <1>4 DEF Coherente
<1> QED
  BY <1>3, <1>5 DEF InvAprobado

(* A request that writes the row and ends.                                 *)
LEMMA EscribeLibre ==
  ASSUME InvAprobado, NEW s \in Sesiones, NEW fila, Escribir(s, fila, "libre"),
         NEW b \in BOOLEAN, b = (pisado \/ sesion[s].vieja),
         ~ En(s, "libre"), lotes' = lotes, TipoReal', Respaldo(fila, Aprobados, b)
  PROVE  InvAprobado'
<1>1. Coherente(Tras(s, "libre"), fila, Aprobados, b)
  BY TrasLibre, LibreCoherente DEF InvAprobado
<1> QED
  BY <1>1, Escribe

(* A request of the first steps that writes no approval.                   *)
LEMMA EscribeAjena ==
  ASSUME InvAprobado, NEW s \in Sesiones, NEW p \in Ajenos \cup {"libre"}, NEW fila,
         Escribir(s, fila, p), sesion[s].paso \in Ajenos, fila.estado \notin Bloqueados,
         lotes' = lotes, TipoReal'
  PROVE  InvAprobado'
<1>0. ~ En(s, "libre")
  BY DEF En, Ajenos
<1> DEFINE b == pisado \/ sesion[s].vieja
<1>b. b \in BOOLEAN /\ b = (pisado \/ sesion[s].vieja)
  OBVIOUS
<1> HIDE DEF b
<1>1. Respaldo(fila, Aprobados, b)
  BY DEF Respaldo
<1>2. CASE p = "libre"
  BY <1>0, <1>b, <1>1, <1>2, EscribeLibre
<1>3. CASE p # "libre"
  <2> DEFINE r == Tras(s, p)
  <2>2. /\ r.paso = p
        /\ r.leida = sesion[s].leida
        /\ r.resp = sesion[s].resp
        /\ r.vieja = sesion[s].vieja
    BY <1>3, TrasEscribir DEF InvAprobado
  <2>3. Coherente(sesion[s], fe, Aprobados, pisado) /\ p \in Ajenos
    BY <1>3 DEF InvAprobado
  <2>4. Coherente(r, fila, Aprobados, b)
    BY <2>2, <2>3 DEF Coherente, Ajenos, Mirada, Consultando, Cancelando
  <2> QED
    BY <1>0, <1>b, <1>1, <2>4, Escribe
<1> QED
  BY <1>2, <1>3

(* Same, with the ways a request has of writing.                           *)
LEMMA GuardaAjena ==
  ASSUME InvAprobado, NEW s \in Sesiones, NEW p \in Ajenos \cup {"libre"}, NEW fila,
         Reponer(s, fila, p) \/ Guardar(s, fila, p),
         sesion[s].paso \in Ajenos, fila.estado \notin Bloqueados,
         lotes' = lotes, TipoReal'
  PROVE  InvAprobado'
<1>1. CASE Escribir(s, fila, p)
  BY <1>1, EscribeAjena
<1>2. CASE Ir(s, p) /\ UNCHANGED <<fe, pisado>>
  <2>1. CASE p = "libre"
    BY <1>2, <2>1, IrLibre
  <2>2. CASE p # "libre"
    BY <1>2, <2>2, IrAjena
  <2> QED
    BY <2>1, <2>2
<1> QED
  BY <1>1, <1>2 DEF Reponer, Guardar

(* What a request of the first steps read was no approval.                 *)
LEMMA LeidaAjena ==
  ASSUME InvAprobado, NEW s \in Sesiones, sesion[s].paso \in Ajenos
  PROVE  sesion[s].leida.estado \notin Bloqueados
BY DEF InvAprobado, Coherente, Ajenos

(***************************************************************************)
(* InvAprobado, action by action.                                          *)
(***************************************************************************)
LEMMA AprobadoBorrador ==
  ASSUME InvAprobado, TipoReal', NEW s \in Sesiones, Borrador(s)
  PROVE  InvAprobado'
<1>p. "borrador_insertar" \in Ajenos /\ "borrador_evento" \in Ajenos
  BY DEF Ajenos, Pasos, Mirada, Consultando, Cancelando
<1>1. CASE LeerBorrador(s)
  <2>1. fe.estado \notin Bloqueados
    BY <1>1 DEF LeerBorrador, Bloqueados
  <2> QED
    BY <1>p, <1>1, <2>1, LeeAjena DEF LeerBorrador
<1>2. CASE InsertarBorrador(s)
  <2> DEFINE f == [SinFila EXCEPT !.estado = "borrador"]
  <2>1. f.estado \notin Bloqueados
    BY DEF SinFila, Bloqueados
  <2>2. Escribir(s, f, "borrador_evento") /\ sesion[s].paso \in Ajenos /\ lotes' = lotes
    BY <1>p, <1>2 DEF InsertarBorrador, En
  <2> HIDE DEF f
  <2> QED
    BY <1>p, <2>1, <2>2, EscribeAjena
<1>3. CASE EventoBorrador(s)
  <2>1. SinFila.estado \notin Bloqueados
    BY DEF SinFila, Bloqueados
  <2>2. sesion[s].paso \in Ajenos /\ lotes' = lotes
    BY <1>p, <1>3 DEF EventoBorrador, En
  <2> QED
    BY <1>3, <2>1, <2>2, EscribeAjena, IrLibre DEF EventoBorrador
<1> QED
  BY <1>1, <1>2, <1>3 DEF Borrador

LEMMA AprobadoXml ==
  ASSUME InvAprobado, TipoReal', NEW s \in Sesiones, Xml(s)
  PROVE  InvAprobado'
<1>p. {"xml_reservar", "xml_payload", "xml_subir", "xml_fila", "xml_evento", "xml_borrar",
       "xml_revertir"} \subseteq Ajenos
  BY DEF Ajenos, Pasos, Mirada, Consultando, Cancelando
<1>1. CASE LeerXml(s)
  <2> DEFINE f == [fe EXCEPT !.aprobada = FALSE, !.cancelada = FALSE]
             p == IF fe.estado = "rechazado" THEN "xml_reservar" ELSE "xml_payload"
  <2>1. f.estado = fe.estado
    BY EnMano DEF InvAprobado, FilaReal
  <2>2. p \in Ajenos
    BY <1>p
  <2>3. Leer(s, p, f) /\ fe.estado \notin Bloqueados
    BY <1>1 DEF LeerXml
  <2> HIDE DEF f, p
  <2> QED
    BY <2>1, <2>2, <2>3, LeeAjena
<1>2. CASE ReservarSeq(s)
  <2> DEFINE f == [fe EXCEPT !.seq = @ + 1, !.salto = @ \/ ~ NumeroUsado]
  <2>1. f.estado \notin Bloqueados
    BY <1>2, EnMano DEF InvAprobado, FilaReal, ReservarSeq, Reservable, Bloqueados
  <2>2. Guardar(s, f, "xml_payload") /\ sesion[s].paso \in Ajenos /\ lotes' = lotes
    BY <1>p, <1>2 DEF ReservarSeq, En
  <2> HIDE DEF f
  <2> QED
    BY <1>p, <2>1, <2>2, GuardaAjena
<1>3. CASE ArmarXml(s)
  <2> DEFINE r == [sesion[s] EXCEPT !.paso = "xml_subir", !.cdc = <<filas, fe.seq>>]
  <2>1. sesion[s] \in Peticion
    BY EnMano DEF InvAprobado
  <2>2. r.paso = "xml_subir" /\ r.leida = sesion[s].leida /\ r.vieja = sesion[s].vieja
        /\ r.resp = sesion[s].resp
    BY <2>1 DEF Peticion
  <2>3. /\ sesion' = [sesion EXCEPT ![s] = r]
        /\ sesion[s].paso \in Ajenos /\ UNCHANGED <<fe, lotes, pisado>>
    BY <1>p, <1>3 DEF ArmarXml, En
  <2> HIDE DEF r
  <2> QED
    BY <1>p, <2>2, <2>3, MueveAjena
<1>4. CASE SubirXml(s)
  BY <1>p, <1>4, IrAjena DEF SubirXml, En
<1>5. CASE FallarReservado(s)
  BY <1>p, <1>5, IrAjena DEF FallarReservado
<1>6. CASE GuardarXml(s)
  <2> DEFINE f == [fe EXCEPT !.estado = "generado", !.xml = TRUE, !.firmado = FALSE,
                             !.cdc = sesion[s].cdc,
                             !.prot = IF Rechazada(s) THEN 0 ELSE @]
  <2>1. f.estado \notin Bloqueados
    BY EnMano DEF InvAprobado, FilaReal, Bloqueados
  <2>2. Guardar(s, f, "xml_evento") /\ sesion[s].paso \in Ajenos /\ lotes' = lotes
    BY <1>p, <1>6 DEF GuardarXml, En
  <2> HIDE DEF f
  <2> QED
    BY <1>p, <2>1, <2>2, GuardaAjena
<1>7. CASE FallarXml(s)
  BY <1>p, <1>7, IrAjena, IrLibre DEF FallarXml, En
<1>8. CASE RevertirSeq(s)
  <2> DEFINE f == [fe EXCEPT !.seq = sesion[s].leida.seq]
             b == pisado \/ sesion[s].vieja
  <2>1. f.estado = fe.estado /\ f.prot = fe.prot
    BY EnMano DEF InvAprobado, FilaReal
  <2>2. Reponer(s, f, "libre") /\ ~ En(s, "libre") /\ lotes' = lotes
    BY <1>8 DEF RevertirSeq, En
  <2>3. b \in BOOLEAN /\ b = (pisado \/ sesion[s].vieja)
    OBVIOUS
  <2>4. Respaldo(f, Aprobados, b)
    BY <2>1 DEF InvAprobado, Respaldo
  <2> HIDE DEF f, b
  <2>5. CASE Escribir(s, f, "libre")
    BY <2>2, <2>3, <2>4, <2>5, EscribeLibre
  <2>6. CASE Ir(s, "libre") /\ UNCHANGED <<fe, pisado>>
    BY <2>2, <2>6, IrLibre
  <2> QED
    BY <2>2, <2>5, <2>6 DEF Reponer
<1>9. CASE EventoXml(s)
  <2>1. CASE sesion[s].leida.firmado
    <3> DEFINE r == [Libre EXCEPT !.paso = "xml_quitar"]
    <3>1. r.paso = "xml_quitar" /\ r.leida = SinFila /\ r.resp = "nada"
      BY DEF Libre
    <3>2. sesion' = [sesion EXCEPT ![s] = r]
      BY <1>9, <2>1 DEF EventoXml
    <3> HIDE DEF r
    <3>3. Coherente(r, fe, Aprobados, pisado)
      BY <3>1 DEF Coherente, SinFila, Bloqueados, Ajenos, Mirada, Consultando, Cancelando
    <3> QED
      BY <1>9, <3>2, <3>3, Mueve DEF EventoXml
  <2>2. CASE ~ sesion[s].leida.firmado
    BY <1>9, <2>2, IrLibre DEF EventoXml
  <2> QED
    BY <2>1, <2>2
<1>10. CASE SinEventoXml(s)
  <2> DEFINE f == AntesDelXml(sesion[s].leida)
  <2>1. f.estado = sesion[s].leida.estado
    BY EnMano DEF InvAprobado, FilaReal, AntesDelXml
  <2>2. Reponer(s, f, "xml_borrar") /\ sesion[s].paso \in Ajenos /\ lotes' = lotes
    BY <1>p, <1>10 DEF SinEventoXml, En
  <2>3. sesion[s].leida.estado \notin Bloqueados
    BY <2>2, LeidaAjena
  <2> HIDE DEF f
  <2> QED
    BY <1>p, <2>1, <2>2, <2>3, GuardaAjena
<1>11. CASE BorrarXml(s)
  BY <1>11, IrLibre DEF BorrarXml
<1>12. CASE QuitarFirma(s)
  BY <1>12, IrLibre DEF QuitarFirma
<1> QED
  BY <1>1, <1>2, <1>3, <1>4, <1>5, <1>6, <1>7, <1>8, <1>9, <1>10, <1>11, <1>12 DEF Xml

LEMMA AprobadoFirmar ==
  ASSUME InvAprobado, TipoReal', NEW s \in Sesiones, Firmar(s)
  PROVE  InvAprobado'
<1>p. {"firmar_bajar", "firmar_subir", "firmar_fila", "firmar_evento",
       "firmar_borrar"} \subseteq Ajenos
  BY DEF Ajenos, Pasos, Mirada, Consultando, Cancelando
<1>1. CASE LeerFirmar(s)
  <2> DEFINE f == [SinFila EXCEPT !.estado = fe.estado, !.xml = TRUE, !.firmado = fe.firmado]
  <2>1. f.estado = fe.estado
    BY DEF SinFila
  <2>2. Leer(s, "firmar_bajar", f) /\ fe.estado \notin Bloqueados
    BY <1>1 DEF LeerFirmar
  <2> HIDE DEF f
  <2> QED
    BY <1>p, <2>1, <2>2, LeeAjena
<1>2. CASE BajarXml(s)
  <2> DEFINE r == [sesion[s] EXCEPT !.paso = "firmar_subir", !.cdc = xml]
  <2>1. sesion[s] \in Peticion
    BY EnMano DEF InvAprobado
  <2>2. r.paso = "firmar_subir" /\ r.leida = sesion[s].leida /\ r.vieja = sesion[s].vieja
        /\ r.resp = sesion[s].resp
    BY <2>1 DEF Peticion
  <2>3. /\ sesion' = [sesion EXCEPT ![s] = r]
        /\ sesion[s].paso \in Ajenos /\ UNCHANGED <<fe, lotes, pisado>>
    BY <1>p, <1>2 DEF BajarXml, En
  <2> HIDE DEF r
  <2> QED
    BY <1>p, <2>2, <2>3, MueveAjena
<1>3. CASE SubirFirma(s)
  BY <1>p, <1>3, IrAjena, IrLibre DEF SubirFirma, En
<1>4. CASE GuardarFirma(s)
  <2> DEFINE f == [fe EXCEPT !.estado = "firmado", !.xml = TRUE, !.firmado = TRUE]
  <2>1. f.estado \notin Bloqueados
    BY EnMano DEF InvAprobado, FilaReal, Bloqueados
  <2>2. Guardar(s, f, "firmar_evento") /\ sesion[s].paso \in Ajenos /\ lotes' = lotes
    BY <1>p, <1>4 DEF GuardarFirma, En
  <2> HIDE DEF f
  <2> QED
    BY <1>p, <2>1, <2>2, GuardaAjena
<1>5. CASE EventoFirma(s)
  <2> DEFINE l == sesion[s].leida
             f == [fe EXCEPT !.estado = l.estado, !.xml = l.xml, !.firmado = l.firmado]
  <2>1. f.estado = l.estado
    BY EnMano DEF InvAprobado, FilaReal
  <2>2. sesion[s].paso \in Ajenos /\ lotes' = lotes
    BY <1>p, <1>5 DEF EventoFirma, En
  <2>3. l.estado \notin Bloqueados
    BY <2>2, LeidaAjena
  <2>4. (Ir(s, "libre") /\ UNCHANGED <<fe, pisado>>) \/ Reponer(s, f, "firmar_borrar")
    BY <1>5 DEF EventoFirma
  <2> HIDE DEF f, l
  <2> QED
    BY <1>p, <2>1, <2>2, <2>3, <2>4, GuardaAjena, IrLibre
<1>6. CASE FallarFirma(s) \/ BorrarFirma(s)
  BY <1>6, IrLibre DEF FallarFirma, BorrarFirma, DejarFirma
<1> QED
  BY <1>1, <1>2, <1>3, <1>4, <1>5, <1>6 DEF Firmar

(* SET takes a lot: it is not approved yet.                                *)
LEMMA RecibirCrece ==
  ASSUME InvAprobado, NEW nuevo, lotes' = Append(lotes, nuevo)
  PROVE  Aprobados \subseteq Aprobados'
<1>2. /\ Len(lotes) \in Nat /\ Len(lotes') = Len(lotes) + 1
      /\ \A i \in 1..Len(lotes) : lotes'[i] = lotes[i]
  BY DEF InvAprobado, TipoReal
<1> QED
  BY <1>2 DEF Aprobados

LEMMA AprobadoEnviar ==
  ASSUME InvAprobado, TipoReal', NEW s \in Sesiones, Enviar(s)
  PROVE  InvAprobado'
<1>p. {"enviar_bajar", "enviar_soap", "enviar_fila", "enviar_evento"} \subseteq Ajenos
  BY DEF Ajenos, Pasos, Mirada, Consultando, Cancelando
<1>z. sesion[s] \in Peticion
  BY EnMano DEF InvAprobado
<1>1. CASE LeerEnviar(s)
  <2> DEFINE f == [SinFila EXCEPT !.estado = "firmado", !.firmado = TRUE, !.prot = fe.prot]
  <2>1. f.estado \notin Bloqueados /\ fe.estado \notin Bloqueados
    BY <1>1 DEF SinFila, Bloqueados, LeerEnviar
  <2>2. Leer(s, "enviar_bajar", f)
    BY <1>1 DEF LeerEnviar
  <2> HIDE DEF f
  <2> QED
    BY <1>p, <2>1, <2>2, LeeAjena
<1>2. CASE BajarFirma(s)
  <2> DEFINE r == [sesion[s] EXCEPT !.paso = "enviar_soap", !.cdc = firma]
  <2>1. r.paso = "enviar_soap" /\ r.leida = sesion[s].leida /\ r.vieja = sesion[s].vieja
        /\ r.resp = sesion[s].resp
    BY <1>z DEF Peticion
  <2>2. /\ sesion' = [sesion EXCEPT ![s] = r]
        /\ sesion[s].paso \in Ajenos /\ UNCHANGED <<fe, lotes, pisado>>
    BY <1>p, <1>2 DEF BajarFirma, En
  <2> HIDE DEF r
  <2> QED
    BY <1>p, <2>1, <2>2, MueveAjena
<1>3. CASE Recibir(s)
  <2>1. Aprobados \subseteq Aprobados' /\ UNCHANGED <<fe, pisado>>
    BY <1>3, RecibirCrece DEF Recibir
  <2> DEFINE r == [sesion[s] EXCEPT !.paso = "enviar_fila", !.resp = "encolado",
                                    !.cdc = Nada, !.lote = Len(lotes) + 1]
  <2>2. Coherente(r, fe, Aprobados, pisado)
    <3>1. r.paso = "enviar_fila" /\ r.leida = sesion[s].leida /\ r.vieja = sesion[s].vieja
          /\ r.resp = "encolado"
      BY <1>z DEF Peticion
    <3>2. sesion[s].paso \in Ajenos /\ Coherente(sesion[s], fe, Aprobados, pisado)
      BY <1>p, <1>3 DEF Recibir, En, InvAprobado
    <3> HIDE DEF r
    <3> QED
      BY <1>p, <3>1, <3>2, CoherenteAjena
  <2>3. Coherente(Libre, fe, Aprobados, pisado)
    BY LibreCoherente
  <2>4. sesion' = [sesion EXCEPT ![s] = r] \/ sesion' = [sesion EXCEPT ![s] = Libre]
    BY <1>3 DEF Recibir, Ir, Pasar
  <2> HIDE DEF r
  <2>5. ASSUME NEW t \in Sesiones
        PROVE  Coherente(sesion'[t], fe, Aprobados, pisado)
    <3>1. Coherente(sesion[t], fe, Aprobados, pisado)
      BY DEF InvAprobado
    <3>2. sesion'[t] \in {r, Libre, sesion[t]}
      BY <2>4 DEF InvAprobado, TipoReal
    <3> QED
      BY <2>2, <2>3, <3>1, <3>2
  <2> QED
    BY <2>1, <2>5, SinEscribir
<1>4. CASE NoRecibir(s)
  <2> DEFINE r == [sesion[s] EXCEPT !.paso = "enviar_fila", !.resp = "no_encolado",
                                    !.cdc = Nada]
  <2>1. UNCHANGED <<fe, pisado>> /\ Aprobados \subseteq Aprobados'
    <3>1. lotes' = lotes => Aprobados' = Aprobados
      BY DEF Aprobados
    <3> QED
      BY <1>4, <3>1, RecibirCrece DEF NoRecibir
  <2>2. Coherente(r, fe, Aprobados, pisado)
    <3>1. r.paso = "enviar_fila" /\ r.leida = sesion[s].leida /\ r.vieja = sesion[s].vieja
          /\ r.resp = "no_encolado"
      BY <1>z DEF Peticion
    <3>2. sesion[s].paso \in Ajenos /\ Coherente(sesion[s], fe, Aprobados, pisado)
      BY <1>p, <1>4 DEF NoRecibir, En, InvAprobado
    <3> HIDE DEF r
    <3> QED
      BY <1>p, <3>1, <3>2, CoherenteAjena
  <2>3. Coherente(Libre, fe, Aprobados, pisado)
    BY LibreCoherente
  <2>4. sesion' = [sesion EXCEPT ![s] = r] \/ sesion' = [sesion EXCEPT ![s] = Libre]
    BY <1>4 DEF NoRecibir, Ir, Pasar
  <2> HIDE DEF r
  <2>5. ASSUME NEW t \in Sesiones
        PROVE  Coherente(sesion'[t], fe, Aprobados, pisado)
    <3>1. Coherente(sesion[t], fe, Aprobados, pisado)
      BY DEF InvAprobado
    <3>2. sesion'[t] \in {r, Libre, sesion[t]}
      BY <2>4 DEF InvAprobado, TipoReal
    <3> QED
      BY <2>2, <2>3, <3>1, <3>2
  <2> QED
    BY <2>1, <2>5, SinEscribir
<1>5. CASE GuardarEnvio(s)
  <2> DEFINE f == [fe EXCEPT !.estado = IF sesion[s].resp = "encolado"
                                        THEN "enviado" ELSE "error_envio",
                             !.prot = sesion[s].lote]
  <2>1. f.estado \notin Bloqueados
    BY EnMano DEF InvAprobado, FilaReal, Bloqueados
  <2>2. Guardar(s, f, "enviar_evento") /\ sesion[s].paso \in Ajenos /\ lotes' = lotes
    BY <1>p, <1>5 DEF GuardarEnvio, En
  <2> HIDE DEF f
  <2> QED
    BY <1>p, <2>1, <2>2, GuardaAjena
<1>6. CASE EventoEnvio(s)
  <2> DEFINE f == [fe EXCEPT !.estado = sesion[s].leida.estado,
                             !.prot = sesion[s].leida.prot]
  <2>1. f.estado = sesion[s].leida.estado
    BY EnMano DEF InvAprobado, FilaReal
  <2>2. sesion[s].paso \in Ajenos /\ lotes' = lotes
    BY <1>p, <1>6 DEF EventoEnvio, En
  <2>3. sesion[s].leida.estado \notin Bloqueados
    BY <2>2, LeidaAjena
  <2>4. (Ir(s, "libre") /\ UNCHANGED <<fe, pisado>>) \/ Reponer(s, f, "libre")
    BY <1>6 DEF EventoEnvio
  <2> HIDE DEF f
  <2> QED
    BY <2>1, <2>2, <2>3, <2>4, GuardaAjena, IrLibre
<1> QED
  BY <1>1, <1>2, <1>3, <1>4, <1>5, <1>6 DEF Enviar

(* A request of a document that may be approved puts back what it read, or *)
(* writes what it knows, and ends.                                         *)
LEMMA ReponeMirada ==
  ASSUME InvAprobado, TipoReal', NEW s \in Sesiones, sesion[s].paso \in Mirada, NEW fila,
         Reponer(s, fila, "libre"), lotes' = lotes,
         fila.estado = sesion[s].leida.estado, fila.prot = fe.prot
  PROVE  InvAprobado'
<1> DEFINE b == pisado \/ sesion[s].vieja
<1>1. b \in BOOLEAN /\ b = (pisado \/ sesion[s].vieja)
  OBVIOUS
<1>2. Coherente(sesion[s], fe, Aprobados, pisado)
  BY DEF InvAprobado
<1>3. Respaldo(fila, Aprobados, b)
  BY <1>2 DEF Respaldo, Coherente
<1>4. ~ En(s, "libre")
  BY DEF En, Mirada, Consultando, Cancelando
<1> HIDE DEF b
<1>5. CASE Escribir(s, fila, "libre")
  BY <1>1, <1>3, <1>4, <1>5, EscribeLibre
<1>6. CASE Ir(s, "libre") /\ UNCHANGED <<fe, pisado>>
  BY <1>6, IrLibre
<1> QED
  BY <1>5, <1>6 DEF Reponer

LEMMA AprobadoConsulta ==
  ASSUME InvAprobado, TipoReal', NEW s \in Sesiones, Consulta(s)
  PROVE  InvAprobado'
<1>z. sesion[s] \in Peticion /\ Coherente(sesion[s], fe, Aprobados, pisado)
  BY EnMano DEF InvAprobado
<1>1. CASE LeerConsulta(s)
  <2> DEFINE f == [SinFila EXCEPT !.estado = fe.estado, !.prot = fe.prot,
                                  !.aprobada = fe.aprobada]
             r == [Libre EXCEPT !.paso = "consulta_soap", !.leida = f, !.id = filas]
  <2>1. f.estado = fe.estado /\ f.prot = fe.prot
    BY DEF SinFila
  <2>2. sesion' = [sesion EXCEPT ![s] = r]
    BY <1>1 DEF LeerConsulta, Leer
  <2> HIDE DEF f
  <2>3. r.paso = "consulta_soap" /\ r.leida = f /\ r.resp = "nada"
    BY DEF Libre
  <2> HIDE DEF r
  <2>4. Coherente(r, fe, Aprobados, pisado)
    BY <2>1, <2>3 DEF Coherente, InvAprobado, Respaldo, Ajenos, Mirada, Consultando, Cancelando
  <2> QED
    BY <1>1, <2>2, <2>4, Mueve DEF LeerConsulta, Leer
<1>2. CASE Consultar(s)
  <2>1. CASE Ir(s, "libre")
    BY <1>2, <2>1, IrLibre DEF Consultar
  <2>2. CASE ~ Ir(s, "libre")
    <3>1. PICK q \in {"nada", Inferir(sesion[s].leida, lotes[sesion[s].leida.prot].res)} :
             sesion' = [sesion EXCEPT ![s].paso = "consulta_fila", ![s].resp = q]
      BY <1>2, <2>2 DEF Consultar
    <3> DEFINE r == [sesion[s] EXCEPT !.paso = "consulta_fila", !.resp = q]
    <3>2. sesion' = [sesion EXCEPT ![s] = r]
      BY <3>1
    <3>3. r.paso = "consulta_fila" /\ r.leida = sesion[s].leida /\ r.vieja = sesion[s].vieja
          /\ r.resp = q
      BY <1>z DEF Peticion
    <3>4. /\ q \in {"nada", "aprobado", "rechazado"}
          /\ q # "nada" => /\ sesion[s].leida.estado = "enviado"
                           /\ q = lotes[sesion[s].leida.prot].res
          /\ sesion[s].leida.prot \in 1..Len(lotes)
      BY <1>2, InferirTipo DEF Consultar, InvAprobado
    <3>5. q = "aprobado" => sesion[s].leida.prot \in Aprobados
      BY <3>4 DEF Aprobados
    <3>6. sesion[s].paso = "consulta_soap"
      BY <1>2 DEF Consultar, En
    <3> HIDE DEF r
    <3>7. Coherente(r, fe, Aprobados, pisado)
      BY <1>z, <3>3, <3>4, <3>5, <3>6
         DEF Coherente, Ajenos, Mirada, Consultando, Cancelando
    <3> QED
      BY <1>2, <3>2, <3>7, Mueve DEF Consultar
  <2> QED
    BY <2>1, <2>2
<1>3. CASE GuardarConsulta(s)
  <2> DEFINE q == sesion[s].resp
             f == [fe EXCEPT !.estado = IF q = "nada" THEN sesion[s].leida.estado ELSE q,
                             !.aprobada = @ \/ q = "aprobado"]
             b == pisado \/ sesion[s].vieja
             r == Tras(s, "consulta_evento")
  <2>1. /\ f.estado = IF q = "nada" THEN sesion[s].leida.estado ELSE q
        /\ f.prot = fe.prot
    BY EnMano DEF InvAprobado, FilaReal
  <2>2. sesion[s].paso = "consulta_fila" /\ q \in {"nada", "aprobado", "rechazado"}
    BY <1>3, <1>z DEF GuardarConsulta, En, Peticion
  <2>3. Escribir(s, f, "consulta_evento") /\ lotes' = lotes
    BY <1>3 DEF GuardarConsulta, Guardar
  <2>4. r.paso = "consulta_evento" /\ r.leida = sesion[s].leida /\ r.vieja = sesion[s].vieja
        /\ r.resp = q
    BY TrasEscribir DEF InvAprobado
  <2>5. b \in BOOLEAN /\ b = (pisado \/ sesion[s].vieja)
    OBVIOUS
  <2> HIDE DEF f, r
  <2>6. Respaldo(f, Aprobados, b)
    BY <1>z, <2>1, <2>2 DEF Respaldo, Coherente, Bloqueados, Mirada, Consultando
  <2>7. Coherente(r, f, Aprobados, b)
    BY <1>z, <2>1, <2>2, <2>4 DEF Coherente, Ajenos, Mirada, Consultando, Cancelando
  <2>8. ~ En(s, "libre")
    BY <2>2 DEF En
  <2> HIDE DEF b
  <2> QED
    BY <2>3, <2>5, <2>6, <2>7, <2>8, Escribe DEF r
<1>4. CASE EventoConsulta(s)
  <2> DEFINE l == sesion[s].leida
             f == [fe EXCEPT !.estado = l.estado,
                             !.aprobada = IF sesion[s].resp = "aprobado"
                                          THEN l.aprobada ELSE @]
  <2>1. f.estado = l.estado /\ f.prot = fe.prot
    BY EnMano DEF InvAprobado, FilaReal
  <2>2. sesion[s].paso \in Mirada /\ lotes' = lotes
    BY <1>4 DEF EventoConsulta, En, Mirada, Consultando
  <2>3. (Ir(s, "libre") /\ UNCHANGED <<fe, pisado>>) \/ Reponer(s, f, "libre")
    BY <1>4 DEF EventoConsulta
  <2> HIDE DEF f
  <2> QED
    BY <2>1, <2>2, <2>3, ReponeMirada, IrLibre
<1> QED
  BY <1>1, <1>2, <1>3, <1>4 DEF Consulta

LEMMA AprobadoDictaminar ==
  ASSUME InvAprobado, TipoReal', NEW i \in 1..Len(lotes), Dictaminar(i)
  PROVE  InvAprobado'
<1>1. PICK r \in {"aprobado", "rechazado"} : lotes' = [lotes EXCEPT ![i].res = r]
  BY DEF Dictaminar
<1>2. /\ Len(lotes') = Len(lotes)
      /\ \A j \in 1..Len(lotes) : j # i => lotes'[j] = lotes[j]
  <2>1. lotes \in Seq([cdc : Cdcs, res : Resultados])
    BY DEF InvAprobado, TipoReal
  <2> QED
    BY <1>1, <2>1
<1>3. Aprobados \subseteq Aprobados'
  BY <1>2 DEF Aprobados, Dictaminar
<1>4. \A t \in Sesiones : Coherente(sesion'[t], fe, Aprobados, pisado)
  BY DEF Dictaminar, InvAprobado
<1> QED
  BY <1>3, <1>4, SinEscribir DEF Dictaminar

LEMMA AprobadoCancelar ==
  ASSUME InvAprobado, TipoReal', NEW s \in Sesiones, Cancelar(s)
  PROVE  InvAprobado'
<1>z. sesion[s] \in Peticion /\ Coherente(sesion[s], fe, Aprobados, pisado)
  BY EnMano DEF InvAprobado
<1>1. CASE LeerCancelar(s)
  <2> DEFINE r == [Libre EXCEPT !.paso = "cancelar_fila", !.leida = fe, !.id = filas]
  <2>1. r.paso = "cancelar_fila" /\ r.leida = fe /\ r.resp = "nada"
    BY DEF Libre
  <2>2. sesion' = [sesion EXCEPT ![s] = r]
    BY <1>1 DEF LeerCancelar, Leer
  <2>3. fe.estado = "aprobado"
    BY <1>1 DEF LeerCancelar
  <2> HIDE DEF r
  <2>4. Coherente(r, fe, Aprobados, pisado)
    BY <2>1, <2>3 DEF Coherente, InvAprobado, Respaldo, Bloqueados, Ajenos, Mirada,
                      Consultando, Cancelando
  <2> QED
    BY <1>1, <2>2, <2>4, Mueve DEF LeerCancelar, Leer
<1>2. CASE CancelarFila(s)
  <2> DEFINE f == [fe EXCEPT !.estado = "cancelado", !.cancelada = TRUE]
             b == pisado \/ sesion[s].vieja
             r == Tras(s, "cancelar_evento")
  <2>1. f.estado = "cancelado" /\ f.prot = fe.prot
    BY EnMano DEF InvAprobado, FilaReal
  <2>2. Escribir(s, f, "cancelar_evento") /\ lotes' = lotes /\ sesion[s].paso = "cancelar_fila"
    BY <1>2 DEF CancelarFila, Guardar, En
  <2>3. r.paso = "cancelar_evento" /\ r.leida = sesion[s].leida /\ r.vieja = sesion[s].vieja
        /\ r.resp = sesion[s].resp
    BY TrasEscribir DEF InvAprobado
  <2>4. b \in BOOLEAN /\ b = (pisado \/ sesion[s].vieja)
    OBVIOUS
  <2> HIDE DEF f, r
  <2>5. Respaldo(f, Aprobados, b)
    BY <1>z, <2>1, <2>2 DEF Respaldo, Coherente, Bloqueados, Mirada, Cancelando
  <2>6. Coherente(r, f, Aprobados, b)
    BY <1>z, <2>1, <2>2, <2>3 DEF Coherente, Ajenos, Mirada, Consultando, Cancelando
  <2>7. ~ En(s, "libre")
    BY <2>2 DEF En
  <2> HIDE DEF b
  <2> QED
    BY <2>2, <2>4, <2>5, <2>6, <2>7, Escribe DEF r
<1>3. CASE EventoCancelar(s) \/ AnularFactura(s)
  <2>1. PICK p \in {"libre", "cancelar_factura", "cancelar_deshacer"} : Ir(s, p)
    BY <1>3 DEF EventoCancelar, AnularFactura
  <2>2. sesion[s].paso \in Cancelando /\ UNCHANGED <<fe, lotes, pisado>>
    BY <1>3 DEF EventoCancelar, AnularFactura, En, Cancelando
  <2>3. CASE p = "libre"
    BY <2>1, <2>2, <2>3, IrLibre
  <2>4. CASE p # "libre"
    <3> DEFINE r == [sesion[s] EXCEPT !.paso = p]
    <3>1. r.paso = p /\ r.leida = sesion[s].leida /\ r.vieja = sesion[s].vieja
          /\ r.resp = sesion[s].resp
      BY <1>z DEF Peticion
    <3>2. sesion' = [sesion EXCEPT ![s] = r]
      BY <2>1, <2>4 DEF Ir, Pasar
    <3>3. p \in Cancelando
      BY <2>4 DEF Cancelando
    <3> HIDE DEF r
    <3>4. Coherente(r, fe, Aprobados, pisado)
      BY <1>z, <2>2, <3>1, <3>3 DEF Coherente, Ajenos, Mirada, Consultando, Cancelando
    <3> QED
      BY <2>2, <3>2, <3>4, Mueve
  <2> QED
    BY <2>3, <2>4
<1>4. CASE DeshacerCancelar(s)
  <2> DEFINE f == [fe EXCEPT !.estado = sesion[s].leida.estado,
                             !.cancelada = sesion[s].leida.cancelada]
  <2>1. f.estado = sesion[s].leida.estado /\ f.prot = fe.prot
    BY EnMano DEF InvAprobado, FilaReal
  <2>2. /\ Reponer(s, f, "libre") /\ lotes' = lotes
        /\ sesion[s].paso \in Mirada
    BY <1>4 DEF DeshacerCancelar, En, Mirada, Cancelando
  <2> HIDE DEF f
  <2> QED
    BY <2>1, <2>2, ReponeMirada
<1> QED
  BY <1>1, <1>2, <1>3, <1>4 DEF Cancelar

LEMMA AprobadoInicial == Init => InvAprobado
<1> SUFFICES ASSUME Init PROVE InvAprobado
  OBVIOUS
<1>1. TipoReal
  BY TipoInicial
<1>2. Respaldo(fe, Aprobados, pisado)
  BY DEF Init, SinFila, Respaldo, Bloqueados
<1>3. \A s \in Sesiones : Coherente(sesion[s], fe, Aprobados, pisado)
  BY LibreCoherente DEF Init
<1> QED
  BY <1>1, <1>2, <1>3 DEF InvAprobado

LEMMA AprobadoPaso == InvAprobado /\ [Next]_vars => InvAprobado'
<1> SUFFICES ASSUME InvAprobado, [Next]_vars PROVE InvAprobado'
  OBVIOUS
<1>0. TipoReal'
  BY TipoPaso DEF InvAprobado
<1>1. CASE AnularPorBaja \/ PagarAnulada \/ UNCHANGED vars
  BY <1>0, <1>1, SoloFactura, SinEscribir DEF InvAprobado, Aprobados
<1>2. ASSUME NEW s \in Sesiones, Fallar(s) \/ Caer(s)
      PROVE  InvAprobado'
  BY <1>0, <1>2, IrLibre DEF Fallar, Caer
<1> QED
  BY <1>0, <1>1, <1>2, AprobadoBorrador, AprobadoXml, AprobadoFirmar, AprobadoEnviar,
     AprobadoConsulta, AprobadoDictaminar, AprobadoCancelar DEF Next

(* Every request knows what it should of the document it works on.         *)
THEOREM InvarianteDelDocumento == Spec => []InvAprobado
<1>1. Init => InvAprobado
  BY AprobadoInicial
<1>2. InvAprobado /\ [Next]_vars => InvAprobado'
  BY AprobadoPaso
<1> QED
  BY <1>1, <1>2, PTL DEF Spec

(* The ERP never shows an approval SET did not give, whatever the requests *)
(* that cross: not even when one writes over what it had not seen.         *)
THEOREM AprobadoLoDiceSet == Spec => []AprobadoPorSet
<1>1. InvAprobado => AprobadoPorSet
  BY AprobadoSegunRespaldo DEF InvAprobado
<1> QED
  BY <1>1, InvarianteDelDocumento, PTL

(***************************************************************************)
(* Who takes an approval back.                                             *)
(***************************************************************************)
Retira == fe.estado = "aprobado" /\ fe'.estado \notin {"aprobado", "cancelado"}

Justificada ==
    \/ pisado'
    \/ \E s \in Sesiones : En(s, "consulta_evento") /\ sesion'[s] = Libre

(* A request of the first steps can only do it over a change it had not    *)
(* seen: had it seen the approval it would have stopped.                   *)
LEMMA RetiraAjena ==
  ASSUME InvAprobado, NEW s \in Sesiones, sesion[s].paso \in Ajenos, Retira,
         NEW p, NEW fila,
         Reponer(s, fila, p) \/ Guardar(s, fila, p) \/ Escribir(s, fila, p)
  PROVE  pisado'
<1>1. Escribir(s, fila, p)
  BY DEF Reponer, Guardar, Retira
<1>2. Coherente(sesion[s], fe, Aprobados, pisado)
  BY DEF InvAprobado
<1>3. sesion[s].vieja
  BY <1>2 DEF Coherente, Retira, Bloqueados
<1> QED
  BY <1>1, <1>3 DEF Escribir

LEMMA RetiraConsulta ==
  ASSUME InvAprobado, NEW s \in Sesiones, Consulta(s), Retira
  PROVE  Justificada
<1>z. sesion[s] \in Peticion /\ Coherente(sesion[s], fe, Aprobados, pisado)
  BY EnMano DEF InvAprobado
<1>1. CASE LeerConsulta(s) \/ Consultar(s)
  BY <1>1 DEF LeerConsulta, Leer, Consultar, Retira
<1>2. CASE GuardarConsulta(s)
  <2> DEFINE q == sesion[s].resp
             f == [fe EXCEPT !.estado = IF q = "nada" THEN sesion[s].leida.estado ELSE q,
                             !.aprobada = @ \/ q = "aprobado"]
  <2>1. f.estado = IF q = "nada" THEN sesion[s].leida.estado ELSE q
    BY EnMano DEF InvAprobado, FilaReal
  <2>2. sesion[s].paso = "consulta_fila" /\ q \in {"nada", "aprobado", "rechazado"}
    BY <1>2, <1>z DEF GuardarConsulta, En, Peticion
  <2>3. Escribir(s, f, "consulta_evento")
    BY <1>2 DEF GuardarConsulta, Guardar
  <2> HIDE DEF f
  <2>4. fe' = f
    BY <2>3 DEF Escribir
  <2>5. sesion[s].vieja
    BY <1>z, <2>1, <2>2, <2>4 DEF Coherente, Retira
  <2> QED
    BY <2>3, <2>5 DEF Escribir, Justificada
<1>3. CASE EventoConsulta(s)
  <2>1. PICK f : Reponer(s, f, "libre") /\ En(s, "consulta_evento")
    BY <1>3 DEF EventoConsulta, Retira
  <2>2. Escribir(s, f, "libre")
    BY <2>1 DEF Reponer, Retira
  <2>3. ~ En(s, "libre")
    BY <2>1 DEF En
  <2>4. sesion'[s] = Tras(s, "libre")
    BY <2>2, <2>3 DEF Escribir, Tras
  <2>5. sesion'[s] = Libre
    BY <2>4, TrasLibre DEF InvAprobado
  <2> QED
    BY <2>1, <2>5 DEF Justificada
<1> QED
  BY <1>1, <1>2, <1>3 DEF Consulta

LEMMA RetiraCancelar ==
  ASSUME InvAprobado, NEW s \in Sesiones, Cancelar(s)
  PROVE  ~ Retira
<1>1. CASE LeerCancelar(s) \/ EventoCancelar(s) \/ AnularFactura(s)
  BY <1>1 DEF LeerCancelar, Leer, EventoCancelar, AnularFactura, Retira
<1>2. CASE CancelarFila(s)
  <2>1. fe'.estado = "cancelado"
    BY <1>2, EnMano DEF CancelarFila, Guardar, Escribir, InvAprobado, FilaReal
  <2> QED
    BY <2>1 DEF Retira
<1>3. CASE DeshacerCancelar(s)
  <2> DEFINE f == [fe EXCEPT !.estado = sesion[s].leida.estado,
                             !.cancelada = sesion[s].leida.cancelada]
  <2>1. sesion[s].leida.estado = "aprobado"
    BY <1>3 DEF InvAprobado, Coherente, DeshacerCancelar, En, Cancelando
  <2>2. f.estado = "aprobado"
    BY <2>1, EnMano DEF InvAprobado, FilaReal
  <2>3. fe' \in {f, fe}
    BY <1>3 DEF DeshacerCancelar, Reponer, Escribir
  <2> QED
    BY <2>2, <2>3 DEF Retira
<1> QED
  BY <1>1, <1>2, <1>3 DEF Cancelar

LEMMA RetiraPrimeros ==
  ASSUME InvAprobado, NEW s \in Sesiones, Retira,
         Borrador(s) \/ Xml(s) \/ Firmar(s) \/ Enviar(s)
  PROVE  pisado'
<1>p. /\ {"borrador_insertar", "borrador_evento"} \subseteq Ajenos
      /\ {"xml_reservar", "xml_fila", "xml_evento"} \subseteq Ajenos
      /\ {"firmar_fila", "firmar_evento", "enviar_fila", "enviar_evento"} \subseteq Ajenos
  BY DEF Ajenos, Pasos, Mirada, Consultando, Cancelando
<1>1. fe' # fe /\ fe'.estado # fe.estado
  BY DEF Retira
<1>2. CASE Borrador(s)
  <2>1. CASE LeerBorrador(s)
    BY <1>1, <2>1 DEF LeerBorrador, Leer
  <2>2. CASE InsertarBorrador(s)
    BY <2>2 DEF InsertarBorrador, Retira
  <2>3. CASE EventoBorrador(s)
    BY <1>p, <1>1, <2>3, RetiraAjena DEF EventoBorrador, En
  <2> QED
    BY <1>2, <2>1, <2>2, <2>3 DEF Borrador
<1>3. CASE Xml(s)
  <2>1. CASE \/ LeerXml(s) \/ ArmarXml(s) \/ SubirXml(s) \/ FallarReservado(s) \/ FallarXml(s)
             \/ EventoXml(s) \/ BorrarXml(s) \/ QuitarFirma(s)
    BY <1>1, <2>1 DEF LeerXml, Leer, ArmarXml, SubirXml, FallarReservado, FallarXml,
                      EventoXml, BorrarXml, QuitarFirma
  <2>2. CASE ReservarSeq(s)
    BY <2>2 DEF ReservarSeq, Reservable, Retira
  <2>3. CASE GuardarXml(s)
    BY <1>p, <2>3, RetiraAjena DEF GuardarXml, En
  <2>4. CASE RevertirSeq(s)
    <3>1. fe'.estado = fe.estado
      BY <2>4, EnMano DEF RevertirSeq, Reponer, Escribir, InvAprobado, FilaReal
    <3> QED
      BY <1>1, <3>1
  <2>5. CASE SinEventoXml(s)
    BY <1>p, <2>5, RetiraAjena DEF SinEventoXml, En
  <2> QED
    BY <1>3, <2>1, <2>2, <2>3, <2>4, <2>5 DEF Xml
<1>4. CASE Firmar(s)
  <2>1. CASE \/ LeerFirmar(s) \/ BajarXml(s) \/ SubirFirma(s) \/ FallarFirma(s)
             \/ BorrarFirma(s)
    BY <1>1, <2>1 DEF LeerFirmar, Leer, BajarXml, SubirFirma, FallarFirma, BorrarFirma,
                      DejarFirma
  <2>2. CASE GuardarFirma(s)
    BY <1>p, <2>2, RetiraAjena DEF GuardarFirma, En
  <2>3. CASE EventoFirma(s)
    BY <1>p, <1>1, <2>3, RetiraAjena DEF EventoFirma, En
  <2> QED
    BY <1>4, <2>1, <2>2, <2>3 DEF Firmar
<1>5. CASE Enviar(s)
  <2>1. CASE LeerEnviar(s) \/ BajarFirma(s) \/ Recibir(s) \/ NoRecibir(s)
    BY <1>1, <2>1 DEF LeerEnviar, Leer, BajarFirma, Recibir, NoRecibir
  <2>2. CASE GuardarEnvio(s)
    BY <1>p, <2>2, RetiraAjena DEF GuardarEnvio, En
  <2>3. CASE EventoEnvio(s)
    BY <1>p, <1>1, <2>3, RetiraAjena DEF EventoEnvio, En
  <2> QED
    BY <1>5, <2>1, <2>2, <2>3 DEF Enviar
<1> QED
  BY <1>2, <1>3, <1>4, <1>5

LEMMA RetiraPaso ==
  ASSUME InvAprobado, [Next]_vars, Retira
  PROVE  Justificada
<1>1. fe' # fe
  BY DEF Retira
<1>2. ASSUME NEW s \in Sesiones, Fallar(s) \/ Caer(s)
      PROVE  FALSE
  BY <1>1, <1>2 DEF Fallar, Caer
<1>3. ASSUME NEW s \in Sesiones, Borrador(s) \/ Xml(s) \/ Firmar(s) \/ Enviar(s)
      PROVE  Justificada
  BY <1>3, RetiraPrimeros DEF Justificada
<1>4. ASSUME NEW i \in 1..Len(lotes), Dictaminar(i)
      PROVE  FALSE
  BY <1>1, <1>4 DEF Dictaminar
<1>5. ASSUME AnularPorBaja \/ PagarAnulada \/ UNCHANGED vars
      PROVE  FALSE
  BY <1>1, <1>5, SoloFactura
<1> QED
  BY <1>1, <1>2, <1>3, <1>4, <1>5, RetiraConsulta, RetiraCancelar DEF Next

(* An approval is only taken back by the consultation that recorded it, or *)
(* by a request that had not seen it.                                      *)
THEOREM AprobacionSeQueda == Spec => AprobacionEstable
<1>1. InvAprobado /\ [Next]_vars =>
          [fe.estado = "aprobado" /\ fe'.estado \notin {"aprobado", "cancelado"} =>
              \/ pisado'
              \/ \E s \in Sesiones : En(s, "consulta_evento") /\ sesion'[s] = Libre]_vars
  BY RetiraPaso DEF Retira, Justificada
<1> QED
  BY <1>1, InvarianteDelDocumento, PTL DEF Spec, AprobacionEstable

-----------------------------------------------------------------------------
(***************************************************************************)
(* The invoice is void exactly when its document is cancelled              *)
(* (FacturaSigueAlDocumento of DocumentoElectronico), for any number of    *)
(* sessions, rows, numbers and lots.                                       *)
(*                                                                         *)
(* The argument: but for who leaves and for payments, which say so in the  *)
(* invoice, only between the two writes of a cancellation is the document  *)
(* cancelled and the invoice is not.  One request at most  *)
(* is there, since a second would have to write the row over the first;    *)
(* and nobody who knows the row takes a document out of cancelled, but for *)
(* the request that put it there.                                          *)
(***************************************************************************)
EnCancelacion == {"cancelar_evento", "cancelar_factura", "cancelar_deshacer"}

Cancelantes == {s \in Sesiones : sesion[s].paso \in EnCancelacion}

Escrito(z) == IF z.resp = "nada" THEN z.leida.estado ELSE z.resp

\* What a request that looked at the verdict knows of the row f.
Sabido(z, f) ==
    /\ z.paso = "cancelar_fila" /\ ~ z.vieja => f.estado = "aprobado"
    /\ z.paso = "consulta_evento" /\ ~ z.vieja => f.estado = Escrito(z)

Anulacion ==
    /\ factura.anulada => fe.estado = "cancelado" \/ factura.baja
    /\ fe.estado = "cancelado" =>
          factura.anulada \/ factura.reabierta \/ Cancelantes # {}
    /\ \A s \in Cancelantes :
          /\ fe.estado = "cancelado" /\ sesion[s].id = filas
          /\ factura.anulada => factura.baja
    /\ \A s, t \in Cancelantes : s = t

InvCancelacion ==
    /\ InvAprobado
    /\ \A s \in Sesiones : Sabido(sesion[s], fe)
    /\ ~ pisado /\ ~ corte => Anulacion

LEMMA CancelacionBasta == InvCancelacion => FacturaSigueAlDocumento
<1> SUFFICES ASSUME InvCancelacion, \A s \in Sesiones : En(s, "libre"), ~ pisado, ~ corte
             PROVE  /\ factura.anulada => fe.estado = "cancelado" \/ factura.baja
                    /\ fe.estado = "cancelado" => factura.anulada \/ factura.reabierta
  BY DEF FacturaSigueAlDocumento
<1>1. Cancelantes = {}
  BY DEF Cancelantes, En, EnCancelacion
<1> QED
  BY <1>1 DEF InvCancelacion, Anulacion

LEMMA CancelacionInicial == Init => InvCancelacion
<1> SUFFICES ASSUME Init PROVE InvCancelacion
  OBVIOUS
<1>1. InvAprobado
  BY AprobadoInicial
<1>2. \A s \in Sesiones : sesion[s].paso = "libre"
  BY DEF Init, Libre
<1>3. Cancelantes = {}
  BY <1>2 DEF Cancelantes, EnCancelacion
<1>4. ~ factura.anulada /\ fe.estado = "nada"
  BY DEF Init, SinFila, Vigente
<1>5. Anulacion
  BY <1>3, <1>4 DEF Anulacion
<1> QED
  BY <1>1, <1>2, <1>5 DEF InvCancelacion, Sabido

-----------------------------------------------------------------------------
(* A step that moves no cancellation.                                      *)
LEMMA AnulacionQuieta ==
  ASSUME Anulacion, factura' = factura, Cancelantes' = Cancelantes,
         \A s \in Cancelantes : sesion'[s].id = sesion[s].id,
         filas' = filas \/ fe.estado = "nada",
         fe'.estado = "cancelado" <=> fe.estado = "cancelado"
  PROVE  Anulacion'
BY DEF Anulacion

\* Who is half way, after a request moved and after one wrote the row.
MismosCancelantes ==
    Cancelantes' = Cancelantes /\ \A s \in Cancelantes : sesion'[s].id = sesion[s].id

LEMMA CancelanMueve ==
  ASSUME TipoReal, NEW s \in Sesiones, NEW r, sesion' = [sesion EXCEPT ![s] = r],
         r.paso \in EnCancelacion <=> sesion[s].paso \in EnCancelacion,
         r.paso \in EnCancelacion => r.id = sesion[s].id
  PROVE  MismosCancelantes
<1>1. \A t \in Sesiones : sesion'[t] = IF t = s THEN r ELSE sesion[t]
  BY DEF TipoReal
<1>2. Cancelantes' = {t \in Sesiones : sesion'[t].paso \in EnCancelacion}
  BY DEF Cancelantes
<1>3. Cancelantes' = Cancelantes
  BY <1>1, <1>2 DEF Cancelantes
<1> QED
  BY <1>1, <1>3 DEF MismosCancelantes, Cancelantes

LEMMA PasoDeTras ==
  ASSUME TipoReal, NEW s \in Sesiones, NEW p
  PROVE  Tras(s, p).paso = p
<1>1. CASE p = "libre"
  BY <1>1, TrasLibre DEF Libre
<1>2. CASE p # "libre"
  BY <1>2, TrasEscribir
<1> QED
  BY <1>1, <1>2

(* A request that writes leaves the others with an old copy.               *)
LEMMA QuedanViejas ==
  ASSUME TipoReal, NEW s \in Sesiones, NEW fila, NEW p, Escribir(s, fila, p)
  PROVE  /\ sesion'[s] = Tras(s, p)
         /\ \A t \in Sesiones \ {s} : /\ sesion'[t].paso = sesion[t].paso
                                      /\ sesion'[t].id = sesion[t].id
                                      /\ sesion[t].paso # "libre" => sesion'[t].vieja
<1>1. sesion'[s] = Tras(s, p)
  BY DEF Escribir, Tras
<1>2. ASSUME NEW t \in Sesiones \ {s}
      PROVE  /\ sesion'[t].paso = sesion[t].paso
             /\ sesion'[t].id = sesion[t].id
             /\ sesion[t].paso # "libre" => sesion'[t].vieja
  <2>1. CASE En(t, "libre")
    <3>1. sesion'[t] = sesion[t]
      BY <2>1 DEF Escribir
    <3> QED
      BY <2>1, <3>1 DEF En
  <2>2. CASE ~ En(t, "libre")
    <3>1. PICK r : r = [sesion[t] EXCEPT !.vieja = TRUE]
      OBVIOUS
    <3>2. sesion'[t] = r
      BY <2>2, <3>1 DEF Escribir
    <3>3. r.paso = sesion[t].paso /\ r.id = sesion[t].id /\ r.vieja = TRUE
      BY <3>1, EnMano DEF Peticion
    <3> QED
      BY <3>2, <3>3
  <2> QED
    BY <2>1, <2>2
<1> QED
  BY <1>1, <1>2

LEMMA CancelanEscribe ==
  ASSUME TipoReal, NEW s \in Sesiones, NEW fila, NEW p, Escribir(s, fila, p),
         sesion[s].paso \notin EnCancelacion, p \notin EnCancelacion
  PROVE  MismosCancelantes
<1>1. sesion'[s].paso = p
  BY QuedanViejas, PasoDeTras
<1>2. Cancelantes' = {t \in Sesiones : sesion'[t].paso \in EnCancelacion}
  BY DEF Cancelantes
<1>3. Cancelantes' = Cancelantes
  BY <1>1, <1>2, QuedanViejas DEF Cancelantes
<1> QED
  BY <1>3, QuedanViejas DEF MismosCancelantes, Cancelantes

LEMMA SabidoEscribe ==
  ASSUME TipoReal, NEW s \in Sesiones, NEW fila, NEW p, Escribir(s, fila, p),
         Sabido(Tras(s, p), fila)
  PROVE  \A t \in Sesiones : Sabido(sesion[t], fe)'
<1> SUFFICES ASSUME NEW t \in Sesiones PROVE Sabido(sesion'[t], fe')
  BY DEF Sabido, Escrito
<1>1. fe' = fila
  BY DEF Escribir
<1>2. CASE t = s
  BY <1>1, <1>2, QuedanViejas
<1>3. CASE t # s
  BY <1>3, QuedanViejas DEF Sabido
<1> QED
  BY <1>2, <1>3

-----------------------------------------------------------------------------
(* InvCancelacion after a request moves, and after it writes the row.      *)
LEMMA PasoMueve ==
  ASSUME InvCancelacion, InvAprobado', NEW s \in Sesiones, NEW r,
         sesion' = [sesion EXCEPT ![s] = r], Sabido(r, fe),
         r.paso \in EnCancelacion <=> sesion[s].paso \in EnCancelacion,
         r.paso \in EnCancelacion => r.id = sesion[s].id,
         UNCHANGED <<fe, filas, factura, pisado>>, corte => corte'
  PROVE  InvCancelacion'
<1>0. TipoReal
  BY DEF InvCancelacion, InvAprobado
<1>1. ASSUME NEW t \in Sesiones PROVE Sabido(sesion'[t], fe)
  <2>1. sesion'[t] = IF t = s THEN r ELSE sesion[t]
    BY <1>0 DEF TipoReal
  <2> QED
    BY <2>1 DEF InvCancelacion
<1>2. \A t \in Sesiones : Sabido(sesion[t], fe)'
  BY <1>1 DEF Sabido, Escrito
<1>3. MismosCancelantes
  BY <1>0, CancelanMueve
<1>4. ~ pisado' /\ ~ corte' => Anulacion'
  BY <1>3, AnulacionQuieta DEF InvCancelacion, MismosCancelantes
<1> QED
  BY <1>2, <1>4 DEF InvCancelacion

LEMMA PasoIr ==
  ASSUME InvCancelacion, InvAprobado', NEW s \in Sesiones, NEW p, Ir(s, p),
         sesion[s].paso \notin EnCancelacion,
         p \notin EnCancelacion \cup {"cancelar_fila", "consulta_evento"},
         UNCHANGED <<fe, filas, factura, pisado>>, corte => corte'
  PROVE  InvCancelacion'
<1>1. Pasar(s, p).paso = p
  BY EnMano DEF Pasar, Libre, Peticion, InvCancelacion, InvAprobado
<1>2. PICK r : r = Pasar(s, p)
  OBVIOUS
<1>3. Sabido(r, fe)
  BY <1>1, <1>2 DEF Sabido
<1>4. sesion' = [sesion EXCEPT ![s] = r]
  BY <1>2 DEF Ir
<1>5. r.paso \notin EnCancelacion
  BY <1>1, <1>2
<1> QED
  BY <1>3, <1>4, <1>5, PasoMueve

LEMMA PasoEscribe ==
  ASSUME InvCancelacion, InvAprobado', NEW s \in Sesiones, NEW fila, NEW p,
         Escribir(s, fila, p), Sabido(Tras(s, p), fila),
         sesion[s].paso \notin EnCancelacion, p \notin EnCancelacion,
         ~ pisado' => (fila.estado = "cancelado" <=> fe.estado = "cancelado"),
         filas' = filas \/ fe.estado = "nada", UNCHANGED <<factura, corte>>
  PROVE  InvCancelacion'
<1>0. TipoReal
  BY DEF InvCancelacion, InvAprobado
<1>1. \A t \in Sesiones : Sabido(sesion[t], fe)'
  BY <1>0, SabidoEscribe
<1>2. MismosCancelantes
  BY <1>0, CancelanEscribe
<1>3. fe' = fila /\ (pisado => pisado')
  BY DEF Escribir
<1>4. ~ pisado' /\ ~ corte' => Anulacion'
  BY <1>2, <1>3, AnulacionQuieta DEF InvCancelacion, MismosCancelantes
<1> QED
  BY <1>1, <1>4 DEF InvCancelacion

(* A request of the first steps: had it seen the cancellation it would     *)
(* have stopped, and it writes none.                                       *)
LEMMA PasoAjena ==
  ASSUME InvCancelacion, InvAprobado', NEW s \in Sesiones, NEW fila,
         NEW p \in Ajenos \cup {"libre"}, sesion[s].paso \in Ajenos,
         Escribir(s, fila, p) \/ Guardar(s, fila, p) \/ Reponer(s, fila, p),
         fila.estado = fe.estado \/ fila.estado # "cancelado",
         filas' = filas \/ (fe.estado = "nada" /\ Escribir(s, fila, p)),
         UNCHANGED <<factura, corte>>
  PROVE  InvCancelacion'
<1>1. /\ sesion[s].paso \notin EnCancelacion
      /\ p \notin EnCancelacion \cup {"cancelar_fila", "consulta_evento"}
  BY DEF Ajenos, EnCancelacion, Mirada, Consultando, Cancelando
<1>2. CASE Escribir(s, fila, p)
  <2>1. Tras(s, p).paso = p
    BY PasoDeTras DEF InvCancelacion, InvAprobado
  <2>2. Sabido(Tras(s, p), fila)
    BY <1>1, <2>1 DEF Sabido
  <2>3. ASSUME ~ pisado' PROVE fila.estado = "cancelado" <=> fe.estado = "cancelado"
    <3>1. ~ sesion[s].vieja
      BY <1>2, <2>3 DEF Escribir
    <3>2. fe.estado # "cancelado"
      BY <3>1 DEF InvCancelacion, InvAprobado, Coherente, Bloqueados
    <3> QED
      BY <3>2
  <2> QED
    BY <1>1, <1>2, <2>2, <2>3, PasoEscribe
<1>3. CASE Ir(s, p) /\ UNCHANGED <<fe, pisado>> /\ filas' = filas
  BY <1>1, <1>3, PasoIr
<1> QED
  BY <1>2, <1>3 DEF Guardar, Reponer

LEMMA PasoLeer ==
  ASSUME InvCancelacion, InvAprobado', NEW s \in Sesiones, NEW p, NEW fila, Leer(s, p, fila),
         p \notin EnCancelacion \cup {"consulta_evento"},
         p = "cancelar_fila" => fe.estado = "aprobado"
  PROVE  InvCancelacion'
<1> DEFINE r == [Libre EXCEPT !.paso = p, !.leida = fila, !.id = filas]
<1>1. r.paso = p
  BY DEF Libre
<1>2. sesion' = [sesion EXCEPT ![s] = r] /\ sesion[s].paso = "libre"
  BY DEF Leer, En
<1> HIDE DEF r
<1>3. Sabido(r, fe)
  BY <1>1 DEF Sabido
<1>4. sesion[s].paso \notin EnCancelacion
  BY <1>2 DEF EnCancelacion
<1> QED
  BY <1>1, <1>2, <1>3, <1>4, PasoMueve DEF Leer

(* A request that keeps what it read and goes on to the step p.            *)
LEMMA PasoConserva ==
  ASSUME InvCancelacion, InvAprobado', NEW s \in Sesiones, NEW r,
         sesion' = [sesion EXCEPT ![s] = r], sesion[s].paso \notin EnCancelacion,
         r.paso \notin EnCancelacion \cup {"cancelar_fila", "consulta_evento"},
         UNCHANGED <<fe, filas, factura, pisado>>, corte => corte'
  PROVE  InvCancelacion'
<1>1. Sabido(r, fe)
  BY DEF Sabido
<1> QED
  BY <1>1, PasoMueve

-----------------------------------------------------------------------------
(* Action by action.                                                       *)
LEMMA CancelacionBorrador ==
  ASSUME InvCancelacion, InvAprobado', NEW s \in Sesiones, Borrador(s)
  PROVE  InvCancelacion'
<1>p. {"borrador_insertar", "borrador_evento"} \subseteq Ajenos
  BY DEF Ajenos, Pasos, Mirada, Consultando, Cancelando
<1>1. CASE LeerBorrador(s)
  BY <1>1, PasoLeer DEF LeerBorrador, EnCancelacion
<1>2. CASE InsertarBorrador(s)
  <2> DEFINE f == [SinFila EXCEPT !.estado = "borrador"]
  <2>1. f.estado = "borrador"
    BY DEF SinFila
  <2>2. /\ Escribir(s, f, "borrador_evento") /\ sesion[s].paso \in Ajenos
        /\ fe.estado = "nada" /\ UNCHANGED <<factura, corte>>
    BY <1>p, <1>2 DEF InsertarBorrador, En
  <2> HIDE DEF f
  <2> QED
    BY <1>p, <2>1, <2>2, PasoAjena
<1>3. CASE EventoBorrador(s)
  <2>1. SinFila.estado = "nada"
    BY DEF SinFila
  <2>2. sesion[s].paso \in Ajenos /\ UNCHANGED <<factura, corte>> /\ filas' = filas
    BY <1>p, <1>3 DEF EventoBorrador, En
  <2>3. CASE Ir(s, "libre") /\ UNCHANGED <<fe, pisado>>
    BY <1>3, <2>2, <2>3, PasoIr DEF EventoBorrador, En, EnCancelacion
  <2>4. CASE Escribir(s, SinFila, "libre")
    BY <2>1, <2>2, <2>4, PasoAjena
  <2> QED
    BY <1>3, <2>3, <2>4 DEF EventoBorrador
<1> QED
  BY <1>1, <1>2, <1>3 DEF Borrador

LEMMA CancelacionXml ==
  ASSUME InvCancelacion, InvAprobado', NEW s \in Sesiones, Xml(s)
  PROVE  InvCancelacion'
<1>p. {"xml_reservar", "xml_payload", "xml_subir", "xml_fila", "xml_evento", "xml_borrar",
       "xml_revertir"} \subseteq Ajenos
  BY DEF Ajenos, Pasos, Mirada, Consultando, Cancelando
<1>c. \A a \in {"xml_reservar", "xml_payload", "xml_subir", "xml_fila", "xml_evento",
                "xml_borrar", "xml_quitar", "xml_revertir", "libre"} :
        a \notin EnCancelacion \cup {"cancelar_fila", "consulta_evento"}
  BY DEF EnCancelacion
<1>1. CASE LeerXml(s)
  <2>1. PICK p \in {"xml_reservar", "xml_payload"} : \E f : Leer(s, p, f)
    BY <1>1 DEF LeerXml
  <2>2. PICK f : Leer(s, p, f)
    BY <2>1
  <2> QED
    BY <1>c, <2>2, PasoLeer
<1>2. CASE ReservarSeq(s)
  <2> DEFINE f == [fe EXCEPT !.seq = @ + 1, !.salto = @ \/ ~ NumeroUsado]
  <2>1. f.estado = fe.estado
    BY EnMano DEF InvCancelacion, InvAprobado, FilaReal
  <2>2. /\ Guardar(s, f, "xml_payload") /\ sesion[s].paso \in Ajenos
        /\ UNCHANGED <<filas, factura, corte>>
    BY <1>p, <1>2 DEF ReservarSeq, En
  <2> HIDE DEF f
  <2> QED
    BY <1>p, <2>1, <2>2, PasoAjena
<1>3. CASE ArmarXml(s)
  <2> DEFINE r == [sesion[s] EXCEPT !.paso = "xml_subir", !.cdc = <<filas, fe.seq>>]
  <2>1. sesion[s] \in Peticion
    BY EnMano DEF InvCancelacion, InvAprobado
  <2>2. r.paso = "xml_subir"
    BY <2>1 DEF Peticion
  <2>3. sesion' = [sesion EXCEPT ![s] = r] /\ sesion[s].paso = "xml_payload"
    BY <1>3 DEF ArmarXml, En
  <2> HIDE DEF r
  <2> QED
    BY <1>c, <1>3, <2>2, <2>3, PasoConserva DEF ArmarXml
<1>4. CASE SubirXml(s) \/ FallarReservado(s) \/ FallarXml(s) \/ BorrarXml(s) \/ QuitarFirma(s)
  <2>1. PICK p \in {"xml_fila", "xml_revertir", "libre"} : Ir(s, p)
    BY <1>4 DEF SubirXml, FallarReservado, FallarXml, BorrarXml, QuitarFirma
  <2>2. /\ sesion[s].paso \notin EnCancelacion
        /\ UNCHANGED <<fe, filas, factura, pisado, corte>>
    BY <1>c, <1>4 DEF SubirXml, FallarReservado, FallarXml, BorrarXml, QuitarFirma, En
  <2> QED
    BY <1>c, <2>1, <2>2, PasoIr
<1>5. CASE GuardarXml(s)
  <2> DEFINE f == [fe EXCEPT !.estado = "generado", !.xml = TRUE, !.firmado = FALSE,
                             !.cdc = sesion[s].cdc,
                             !.prot = IF Rechazada(s) THEN 0 ELSE @]
  <2>1. f.estado = "generado"
    BY EnMano DEF InvCancelacion, InvAprobado, FilaReal
  <2>2. /\ Guardar(s, f, "xml_evento") /\ sesion[s].paso \in Ajenos
        /\ UNCHANGED <<filas, factura, corte>>
    BY <1>p, <1>5 DEF GuardarXml, En
  <2> HIDE DEF f
  <2> QED
    BY <1>p, <2>1, <2>2, PasoAjena
<1>6. CASE RevertirSeq(s)
  <2> DEFINE f == [fe EXCEPT !.seq = sesion[s].leida.seq]
  <2>1. f.estado = fe.estado
    BY EnMano DEF InvCancelacion, InvAprobado, FilaReal
  <2>2. /\ Reponer(s, f, "libre") /\ sesion[s].paso \in Ajenos
        /\ UNCHANGED <<filas, factura, corte>>
    BY <1>p, <1>6 DEF RevertirSeq, En
  <2> HIDE DEF f
  <2> QED
    BY <2>1, <2>2, PasoAjena
<1>7. CASE EventoXml(s)
  <2>1. CASE sesion[s].leida.firmado
    <3> DEFINE r == [Libre EXCEPT !.paso = "xml_quitar"]
    <3>1. r.paso = "xml_quitar"
      BY DEF Libre
    <3>2. sesion' = [sesion EXCEPT ![s] = r] /\ sesion[s].paso = "xml_evento"
      BY <1>7, <2>1 DEF EventoXml, En
    <3> HIDE DEF r
    <3> QED
      BY <1>c, <1>7, <3>1, <3>2, PasoConserva DEF EventoXml
  <2>2. CASE ~ sesion[s].leida.firmado
    BY <1>c, <1>7, <2>2, PasoIr DEF EventoXml, En
  <2> QED
    BY <2>1, <2>2
<1>8. CASE SinEventoXml(s)
  <2> DEFINE f == AntesDelXml(sesion[s].leida)
  <2>1. f.estado = sesion[s].leida.estado
    BY EnMano DEF InvCancelacion, InvAprobado, FilaReal, AntesDelXml
  <2>2. /\ Reponer(s, f, "xml_borrar") /\ sesion[s].paso \in Ajenos
        /\ UNCHANGED <<filas, factura, corte>>
    BY <1>p, <1>8 DEF SinEventoXml, En
  <2>3. sesion[s].leida.estado # "cancelado"
    BY <2>2, LeidaAjena DEF InvCancelacion, Bloqueados
  <2> HIDE DEF f
  <2> QED
    BY <1>p, <2>1, <2>2, <2>3, PasoAjena
<1> QED
  BY <1>1, <1>2, <1>3, <1>4, <1>5, <1>6, <1>7, <1>8 DEF Xml

LEMMA CancelacionFirmar ==
  ASSUME InvCancelacion, InvAprobado', NEW s \in Sesiones, Firmar(s)
  PROVE  InvCancelacion'
<1>p. {"firmar_bajar", "firmar_subir", "firmar_fila", "firmar_evento",
       "firmar_borrar"} \subseteq Ajenos
  BY DEF Ajenos, Pasos, Mirada, Consultando, Cancelando
<1>c. \A a \in {"firmar_bajar", "firmar_subir", "firmar_fila", "firmar_evento",
                "firmar_borrar", "libre"} :
        a \notin EnCancelacion \cup {"cancelar_fila", "consulta_evento"}
  BY DEF EnCancelacion
<1>1. CASE LeerFirmar(s)
  BY <1>c, <1>1, PasoLeer DEF LeerFirmar
<1>2. CASE BajarXml(s)
  <2> DEFINE r == [sesion[s] EXCEPT !.paso = "firmar_subir", !.cdc = xml]
  <2>1. sesion[s] \in Peticion
    BY EnMano DEF InvCancelacion, InvAprobado
  <2>2. r.paso = "firmar_subir"
    BY <2>1 DEF Peticion
  <2>3. sesion' = [sesion EXCEPT ![s] = r] /\ sesion[s].paso = "firmar_bajar"
    BY <1>2 DEF BajarXml, En
  <2> HIDE DEF r
  <2> QED
    BY <1>c, <1>2, <2>2, <2>3, PasoConserva DEF BajarXml
<1>3. CASE SubirFirma(s) \/ FallarFirma(s) \/ BorrarFirma(s)
  <2>1. PICK p \in {"firmar_fila", "libre"} : Ir(s, p)
    BY <1>3 DEF SubirFirma, FallarFirma, BorrarFirma, DejarFirma
  <2>2. /\ sesion[s].paso \notin EnCancelacion
        /\ UNCHANGED <<fe, filas, factura, pisado, corte>>
    BY <1>c, <1>3 DEF SubirFirma, FallarFirma, BorrarFirma, DejarFirma, En
  <2> QED
    BY <1>c, <2>1, <2>2, PasoIr
<1>4. CASE GuardarFirma(s)
  <2> DEFINE f == [fe EXCEPT !.estado = "firmado", !.xml = TRUE, !.firmado = TRUE]
  <2>1. f.estado = "firmado"
    BY EnMano DEF InvCancelacion, InvAprobado, FilaReal
  <2>2. /\ Guardar(s, f, "firmar_evento") /\ sesion[s].paso \in Ajenos
        /\ UNCHANGED <<filas, factura, corte>>
    BY <1>p, <1>4 DEF GuardarFirma, En
  <2> HIDE DEF f
  <2> QED
    BY <1>p, <2>1, <2>2, PasoAjena
<1>5. CASE EventoFirma(s)
  <2> DEFINE l == sesion[s].leida
             f == [fe EXCEPT !.estado = l.estado, !.xml = l.xml, !.firmado = l.firmado]
  <2>1. f.estado = l.estado
    BY EnMano DEF InvCancelacion, InvAprobado, FilaReal
  <2>2. /\ sesion[s].paso \in Ajenos /\ sesion[s].paso = "firmar_evento"
        /\ UNCHANGED <<filas, factura, corte>>
    BY <1>p, <1>5 DEF EventoFirma, En
  <2>3. l.estado # "cancelado"
    BY <2>2, LeidaAjena DEF InvCancelacion, Bloqueados
  <2>4. (Ir(s, "libre") /\ UNCHANGED <<fe, pisado>>) \/ Reponer(s, f, "firmar_borrar")
    BY <1>5 DEF EventoFirma
  <2> HIDE DEF f, l
  <2>5. CASE Ir(s, "libre") /\ UNCHANGED <<fe, pisado>>
    BY <1>c, <2>2, <2>5, PasoIr
  <2>6. CASE Reponer(s, f, "firmar_borrar")
    BY <1>p, <2>1, <2>2, <2>3, <2>6, PasoAjena
  <2> QED
    BY <2>4, <2>5, <2>6
<1> QED
  BY <1>1, <1>2, <1>3, <1>4, <1>5 DEF Firmar

LEMMA CancelacionEnviar ==
  ASSUME InvCancelacion, InvAprobado', NEW s \in Sesiones, Enviar(s)
  PROVE  InvCancelacion'
<1>p. {"enviar_bajar", "enviar_soap", "enviar_fila", "enviar_evento"} \subseteq Ajenos
  BY DEF Ajenos, Pasos, Mirada, Consultando, Cancelando
<1>c. \A a \in {"enviar_bajar", "enviar_soap", "enviar_fila", "enviar_evento", "libre"} :
        a \notin EnCancelacion \cup {"cancelar_fila", "consulta_evento"}
  BY DEF EnCancelacion
<1>z. sesion[s] \in Peticion
  BY EnMano DEF InvCancelacion, InvAprobado
<1>1. CASE LeerEnviar(s)
  BY <1>c, <1>1, PasoLeer DEF LeerEnviar
<1>2. CASE (BajarFirma(s) \/ Recibir(s) \/ NoRecibir(s)) /\ ~ Ir(s, "libre")
  <2>1. PICK r : /\ sesion' = [sesion EXCEPT ![s] = r]
                 /\ r.paso \in {"enviar_soap", "enviar_fila"}
    <3>1. CASE BajarFirma(s)
      <4>1. [sesion[s] EXCEPT !.paso = "enviar_soap", !.cdc = firma].paso = "enviar_soap"
        BY <1>z DEF Peticion
      <4> QED
        BY <3>1, <4>1 DEF BajarFirma
    <3>2. CASE Recibir(s)
      <4> DEFINE q == [sesion[s] EXCEPT !.paso = "enviar_fila", !.resp = "encolado",
                                        !.cdc = Nada, !.lote = Len(lotes) + 1]
      <4>1. q.paso = "enviar_fila"
        BY <1>z DEF Peticion
      <4>2. sesion' = [sesion EXCEPT ![s] = q]
        BY <1>2, <3>2 DEF Recibir
      <4> HIDE DEF q
      <4> QED
        BY <4>1, <4>2
    <3>3. CASE NoRecibir(s)
      <4> DEFINE q == [sesion[s] EXCEPT !.paso = "enviar_fila", !.resp = "no_encolado",
                                        !.cdc = Nada]
      <4>1. q.paso = "enviar_fila"
        BY <1>z DEF Peticion
      <4>2. sesion' = [sesion EXCEPT ![s] = q]
        BY <1>2, <3>3 DEF NoRecibir
      <4> HIDE DEF q
      <4> QED
        BY <4>1, <4>2
    <3> QED
      BY <1>2, <3>1, <3>2, <3>3
  <2>2. sesion[s].paso \notin EnCancelacion
        /\ UNCHANGED <<fe, filas, factura, pisado, corte>>
    BY <1>c, <1>2 DEF BajarFirma, Recibir, NoRecibir, En
  <2> QED
    BY <1>c, <2>1, <2>2, PasoConserva
<1>3. CASE (BajarFirma(s) \/ Recibir(s) \/ NoRecibir(s)) /\ Ir(s, "libre")
  <2>1. sesion[s].paso \notin EnCancelacion
        /\ UNCHANGED <<fe, filas, factura, pisado, corte>>
    BY <1>c, <1>3 DEF BajarFirma, Recibir, NoRecibir, En
  <2> QED
    BY <1>c, <1>3, <2>1, PasoIr
<1>4. CASE GuardarEnvio(s)
  <2> DEFINE e == IF sesion[s].resp = "encolado" THEN "enviado" ELSE "error_envio"
             f == [fe EXCEPT !.estado = e, !.prot = sesion[s].lote]
  <2>1. f.estado = e
    BY EnMano DEF InvCancelacion, InvAprobado, FilaReal
  <2>2. /\ Guardar(s, f, "enviar_evento") /\ sesion[s].paso \in Ajenos
        /\ UNCHANGED <<filas, factura, corte>>
    BY <1>p, <1>4 DEF GuardarEnvio, En
  <2> HIDE DEF f
  <2> QED
    BY <1>p, <2>1, <2>2, PasoAjena
<1>5. CASE EventoEnvio(s)
  <2> DEFINE l == sesion[s].leida
             f == [fe EXCEPT !.estado = l.estado, !.prot = l.prot]
  <2>1. f.estado = l.estado
    BY EnMano DEF InvCancelacion, InvAprobado, FilaReal
  <2>2. /\ sesion[s].paso \in Ajenos /\ sesion[s].paso = "enviar_evento"
        /\ UNCHANGED <<filas, factura, corte>>
    BY <1>p, <1>5 DEF EventoEnvio, En
  <2>3. l.estado # "cancelado"
    BY <2>2, LeidaAjena DEF InvCancelacion, Bloqueados
  <2>4. (Ir(s, "libre") /\ UNCHANGED <<fe, pisado>>) \/ Reponer(s, f, "libre")
    BY <1>5 DEF EventoEnvio
  <2> HIDE DEF f, l
  <2>5. CASE Ir(s, "libre") /\ UNCHANGED <<fe, pisado>>
    BY <1>c, <2>2, <2>5, PasoIr
  <2>6. CASE Reponer(s, f, "libre")
    BY <2>1, <2>2, <2>3, <2>6, PasoAjena
  <2> QED
    BY <2>4, <2>5, <2>6
<1> QED
  BY <1>1, <1>2, <1>3, <1>4, <1>5 DEF Enviar

LEMMA CancelacionConsulta ==
  ASSUME InvCancelacion, InvAprobado', NEW s \in Sesiones, Consulta(s)
  PROVE  InvCancelacion'
<1>z. /\ sesion[s] \in Peticion /\ Coherente(sesion[s], fe, Aprobados, pisado)
      /\ Sabido(sesion[s], fe) /\ fe.estado \in Estados
  BY EnMano DEF InvCancelacion, InvAprobado, FilaReal
<1>c. \A a \in {"consulta_soap", "consulta_fila", "consulta_evento", "libre"} :
        a \notin EnCancelacion \cup {"cancelar_fila"}
  BY DEF EnCancelacion
<1>1. CASE LeerConsulta(s)
  BY <1>c, <1>1, PasoLeer DEF LeerConsulta
<1>2. CASE Consultar(s)
  <2>1. CASE Ir(s, "libre")
    BY <1>c, <1>2, <2>1, PasoIr DEF Consultar, En
  <2>2. CASE ~ Ir(s, "libre")
    <3>1. PICK q : sesion' = [sesion EXCEPT ![s].paso = "consulta_fila", ![s].resp = q]
      BY <1>2, <2>2 DEF Consultar
    <3>2. PICK r : r = [sesion[s] EXCEPT !.paso = "consulta_fila", !.resp = q]
      OBVIOUS
    <3>3. r.paso = "consulta_fila"
      BY <1>z, <3>2 DEF Peticion
    <3>4. sesion' = [sesion EXCEPT ![s] = r]
      BY <3>1, <3>2
    <3> QED
      BY <1>c, <1>2, <3>3, <3>4, PasoConserva DEF Consultar, En
  <2> QED
    BY <2>1, <2>2
<1>3. CASE GuardarConsulta(s)
  <2> DEFINE q == sesion[s].resp
             l == sesion[s].leida
             e == IF q = "nada" THEN l.estado ELSE q
             f == [fe EXCEPT !.estado = e, !.aprobada = @ \/ q = "aprobado"]
             r == Tras(s, "consulta_evento")
  <2>1. f.estado = e
    BY EnMano DEF InvCancelacion, InvAprobado, FilaReal
  <2>2. /\ sesion[s].paso = "consulta_fila" /\ q \in {"nada", "aprobado", "rechazado"}
        /\ UNCHANGED <<filas, factura, corte>>
    BY <1>3, <1>z DEF GuardarConsulta, En, Peticion
  <2>3. Escribir(s, f, "consulta_evento")
    BY <1>3 DEF GuardarConsulta, Guardar
  <2>4. r.paso = "consulta_evento" /\ r.leida = l /\ r.resp = q
    BY TrasEscribir DEF InvCancelacion, InvAprobado
  <2> HIDE DEF f, r
  <2>5. Sabido(r, f)
    BY <2>1, <2>4 DEF Sabido, Escrito
  <2>6. ASSUME ~ pisado' PROVE f.estado = "cancelado" <=> fe.estado = "cancelado"
    <3>1. ~ sesion[s].vieja
      BY <2>3, <2>6 DEF Escribir
    <3>2. fe.estado = l.estado /\ (q # "nada" => l.estado = "enviado")
      BY <1>z, <2>2, <3>1 DEF Coherente
    <3> QED
      BY <2>1, <2>2, <3>2
  <2> QED
    BY <1>c, <2>2, <2>3, <2>5, <2>6, PasoEscribe DEF r
<1>4. CASE EventoConsulta(s)
  <2> DEFINE l == sesion[s].leida
             f == [fe EXCEPT !.estado = l.estado,
                             !.aprobada = IF sesion[s].resp = "aprobado"
                                          THEN l.aprobada ELSE @]
  <2>1. f.estado = l.estado
    BY EnMano DEF InvCancelacion, InvAprobado, FilaReal
  <2>2. sesion[s].paso = "consulta_evento" /\ UNCHANGED <<filas, factura, corte>>
    BY <1>4 DEF EventoConsulta, En
  <2>3. (Ir(s, "libre") /\ UNCHANGED <<fe, pisado>>) \/ Reponer(s, f, "libre")
    BY <1>4 DEF EventoConsulta
  <2> HIDE DEF f
  <2>4. CASE Ir(s, "libre") /\ UNCHANGED <<fe, pisado>>
    BY <1>c, <2>2, <2>4, PasoIr
  <2>5. CASE Escribir(s, f, "libre")
    <3>1. Tras(s, "libre").paso = "libre"
      BY PasoDeTras DEF InvCancelacion, InvAprobado
    <3>2. Sabido(Tras(s, "libre"), f)
      BY <3>1 DEF Sabido
    <3>3. ASSUME ~ pisado' PROVE f.estado = "cancelado" <=> fe.estado = "cancelado"
      <4>1. ~ sesion[s].vieja
        BY <2>5, <3>3 DEF Escribir
      <4>2. fe.estado = Escrito(sesion[s])
        BY <1>z, <2>2, <4>1 DEF Sabido
      <4>3. CASE sesion[s].resp = "nada"
        BY <2>1, <4>2, <4>3 DEF Escrito
      <4>4. CASE sesion[s].resp # "nada"
        <5>1. fe.estado = sesion[s].resp /\ sesion[s].resp \in {"aprobado", "rechazado"}
          BY <1>z, <4>2, <4>4 DEF Escrito, Estados, Respuestas, Peticion
        <5>2. l.estado = "enviado"
          BY <1>z, <5>1 DEF Coherente
        <5> QED
          BY <2>1, <5>1, <5>2
      <4> QED
        BY <4>3, <4>4
    <3> QED
      BY <1>c, <2>2, <2>5, <3>2, <3>3, PasoEscribe
  <2> QED
    BY <2>3, <2>4, <2>5 DEF Reponer
<1> QED
  BY <1>1, <1>2, <1>3, <1>4 DEF Consulta

-----------------------------------------------------------------------------
(* The cancellation itself.                                                *)
LEMMA IdDeTras ==
  ASSUME TipoReal, NEW s \in Sesiones, NEW p, p # "libre"
  PROVE  Tras(s, p).id = sesion[s].id
<1> DEFINE R == [paso : {p}, leida : {sesion[s].leida}, id : {sesion[s].id}, cdc : Cdcs,
                  lote : Lotes, resp : {sesion[s].resp}, vieja : {sesion[s].vieja}]
<1>1. Pasar(s, p) \in R
  BY EnMano DEF Peticion, Pasar
<1>2. ASSUME NEW z \in R, NEW c \in Cdcs, NEW l \in Lotes
      PROVE  [z EXCEPT !.cdc = c, !.lote = l] \in R
  OBVIOUS
<1>3. Tras(s, p) \in R
  BY <1>1, <1>2, NadaEsCdc, CeroEsLote DEF Tras
<1> QED
  BY <1>3

(* The document goes first: nobody else was cancelling it.                 *)
LEMMA CancelacionFila ==
  ASSUME InvCancelacion, InvAprobado', NEW s \in Sesiones, CancelarFila(s)
  PROVE  InvCancelacion'
<1> DEFINE f == [fe EXCEPT !.estado = "cancelado", !.cancelada = TRUE]
           r == Tras(s, "cancelar_evento")
<1>0. TipoReal
  BY DEF InvCancelacion, InvAprobado
<1>1. f.estado = "cancelado"
  BY <1>0, EnMano DEF TipoReal, FilaReal
<1>2. /\ Escribir(s, f, "cancelar_evento") /\ Suya(s)
      /\ sesion[s].paso = "cancelar_fila" /\ UNCHANGED <<filas, factura, corte>>
  BY DEF CancelarFila, Guardar, En
<1>3. r.paso = "cancelar_evento" /\ r.id = sesion[s].id
  BY <1>0, TrasEscribir, IdDeTras
<1>4. fe' = f /\ sesion'[s] = r
  <2>1. fe' = f
    BY <1>2 DEF Escribir
  <2>2. sesion'[s] = r
    BY <1>0, <1>2, QuedanViejas
  <2> QED
    BY <2>1, <2>2
<1>5. \A t \in Sesiones : Sabido(sesion[t], fe)'
  <2>1. Sabido(r, f)
    BY <1>3 DEF Sabido
  <2> QED
    BY <1>0, <1>2, <2>1, SabidoEscribe
<1> HIDE DEF f, r
<1>6. ASSUME ~ pisado', ~ corte' PROVE Anulacion'
  <2>1. ~ pisado /\ ~ corte /\ ~ sesion[s].vieja
    BY <1>2, <1>6 DEF Escribir
  <2>2. fe.estado = "aprobado"
    BY <1>2, <2>1 DEF InvCancelacion, Sabido
  <2>3. Cancelantes = {} /\ (factura.anulada => factura.baja)
    BY <2>1, <2>2 DEF InvCancelacion, Anulacion
  <2>4. Cancelantes' = {s}
    <3>1. Cancelantes' = {t \in Sesiones : sesion'[t].paso \in EnCancelacion}
      BY DEF Cancelantes
    <3>2. sesion'[s].paso \in EnCancelacion
      BY <1>3, <1>4 DEF EnCancelacion
    <3>3. \A t \in Sesiones \ {s} : sesion'[t].paso \notin EnCancelacion
      BY <1>0, <1>2, <2>3, QuedanViejas DEF Cancelantes
    <3> QED
      BY <3>1, <3>2, <3>3
  <2>5. factura' = factura /\ fe'.estado = "cancelado" /\ sesion'[s].id = filas'
    BY <1>0, <1>1, <1>2, <1>3, <1>4, <2>3 DEF TipoReal, Suya
  <2> QED
    BY <2>3, <2>4, <2>5 DEF Anulacion
<1> QED
  BY <1>5, <1>6 DEF InvCancelacion

(* A request half way that ends, by voiding the invoice or by putting the  *)
(* document back: nobody else is half way.                                 *)
LEMMA NadieCancela ==
  ASSUME Anulacion, NEW s \in Cancelantes, sesion'[s].paso \notin EnCancelacion,
         \A t \in Sesiones \ {s} : sesion'[t].paso = sesion[t].paso
  PROVE  Cancelantes' = {}
<1>1. Cancelantes' = {t \in Sesiones : sesion'[t].paso \in EnCancelacion}
  BY DEF Cancelantes
<1>2. \A t \in Sesiones : sesion'[t].paso \notin EnCancelacion
  BY DEF Anulacion, Cancelantes
<1> QED
  BY <1>1, <1>2

LEMMA CancelacionAnula ==
  ASSUME InvCancelacion, InvAprobado', NEW s \in Sesiones, En(s, "cancelar_factura"),
         factura' = Anulada, Ir(s, "libre"), UNCHANGED <<fe, filas, pisado, corte>>
  PROVE  InvCancelacion'
<1>0. TipoReal
  BY DEF InvCancelacion, InvAprobado
<1>1. \A t \in Sesiones : sesion'[t] = IF t = s THEN Libre ELSE sesion[t]
  BY <1>0 DEF Ir, Pasar, TipoReal
<1>2. Libre.paso = "libre"
  BY DEF Libre
<1>3. \A t \in Sesiones : Sabido(sesion[t], fe)'
  <2>1. ASSUME NEW t \in Sesiones PROVE Sabido(sesion'[t], fe)
    BY <1>1, <1>2 DEF InvCancelacion, Sabido
  <2> QED
    BY <2>1 DEF Sabido, Escrito
<1>4. ASSUME ~ pisado', ~ corte' PROVE Anulacion'
  <2>1. Anulacion /\ s \in Cancelantes
    BY <1>4 DEF InvCancelacion, Cancelantes, En, EnCancelacion
  <2>2. Cancelantes' = {}
    BY <1>1, <1>2, <2>1, NadieCancela DEF EnCancelacion
  <2>3. fe'.estado = "cancelado"
    BY <2>1 DEF Anulacion
  <2>4. factura'.anulada
    BY DEF Anulada, Vigente
  <2> QED
    BY <2>2, <2>3, <2>4 DEF Anulacion
<1> QED
  BY <1>3, <1>4 DEF InvCancelacion

LEMMA CancelacionDeshace ==
  ASSUME InvCancelacion, InvAprobado', NEW s \in Sesiones, DeshacerCancelar(s)
  PROVE  InvCancelacion'
<1> DEFINE f == [fe EXCEPT !.estado = sesion[s].leida.estado,
                           !.cancelada = sesion[s].leida.cancelada]
<1>0. TipoReal
  BY DEF InvCancelacion, InvAprobado
<1>1. sesion[s].paso = "cancelar_deshacer" /\ UNCHANGED <<filas, factura, corte>>
  BY DEF DeshacerCancelar, En
<1>2. f.estado = "aprobado"
  <2>1. sesion[s].leida.estado = "aprobado"
    BY <1>1 DEF InvCancelacion, InvAprobado, Coherente, Cancelando
  <2> QED
    BY <1>0, <2>1, EnMano DEF TipoReal, FilaReal
<1>3. (Suya(s) /\ Escribir(s, f, "libre"))
      \/ (~ Suya(s) /\ Ir(s, "libre") /\ UNCHANGED <<fe, pisado>>)
  BY DEF DeshacerCancelar, Reponer
<1> HIDE DEF f
<1>4. CASE Suya(s) /\ Escribir(s, f, "libre")
  <2>1. sesion'[s].paso = "libre" /\ fe' = f
    <3>1. sesion'[s] = Tras(s, "libre")
      BY <1>0, <1>4, QuedanViejas
    <3>2. Tras(s, "libre").paso = "libre"
      BY <1>0, PasoDeTras
    <3> QED
      BY <1>4, <3>1, <3>2 DEF Escribir
  <2>2. \A t \in Sesiones : Sabido(sesion[t], fe)'
    <3>1. Sabido(Tras(s, "libre"), f)
      BY <1>0, PasoDeTras DEF Sabido
    <3> QED
      BY <1>0, <1>4, <3>1, SabidoEscribe
  <2>3. ASSUME ~ pisado', ~ corte' PROVE Anulacion'
    <3>1. Anulacion /\ s \in Cancelantes
      BY <1>1, <1>4, <2>3 DEF InvCancelacion, Escribir, Cancelantes, EnCancelacion
    <3>2. Cancelantes' = {}
      BY <1>0, <1>4, <2>1, <3>1, QuedanViejas, NadieCancela DEF EnCancelacion
    <3>3. /\ factura' = factura /\ (factura.anulada => factura.baja)
          /\ fe'.estado = "aprobado"
      BY <1>1, <1>2, <2>1, <3>1 DEF Anulacion
    <3> QED
      BY <3>2, <3>3 DEF Anulacion
  <2> QED
    BY <2>2, <2>3 DEF InvCancelacion
<1>5. CASE ~ Suya(s) /\ Ir(s, "libre") /\ UNCHANGED <<fe, pisado>>
  <2>1. \A t \in Sesiones : sesion'[t] = IF t = s THEN Libre ELSE sesion[t]
    BY <1>0, <1>5 DEF Ir, Pasar, TipoReal
  <2>2. \A t \in Sesiones : Sabido(sesion[t], fe)'
    <3>1. ASSUME NEW t \in Sesiones PROVE Sabido(sesion'[t], fe)
      BY <2>1 DEF InvCancelacion, Sabido, Libre
    <3> QED
      BY <1>5, <3>1 DEF Sabido, Escrito
  <2>3. ASSUME ~ pisado', ~ corte' PROVE FALSE
    <3>1. Anulacion /\ s \in Cancelantes
      BY <1>1, <1>5, <2>3 DEF InvCancelacion, Cancelantes, EnCancelacion
    <3> QED
      BY <1>5, <3>1 DEF Anulacion, Suya
  <2> QED
    BY <2>2, <2>3 DEF InvCancelacion
<1> QED
  BY <1>3, <1>4, <1>5

LEMMA CancelacionCancelar ==
  ASSUME InvCancelacion, InvAprobado', NEW s \in Sesiones, Cancelar(s)
  PROVE  InvCancelacion'
<1>1. CASE LeerCancelar(s)
  BY <1>1, PasoLeer DEF LeerCancelar, EnCancelacion
<1>2. CASE \E p \in EnCancelacion : /\ Ir(s, p) /\ sesion[s].paso \in EnCancelacion
                                    /\ UNCHANGED <<fe, filas, factura, pisado, corte>>
  <2>1. PICK p \in EnCancelacion : Ir(s, p)
    BY <1>2
  <2>2. PICK r : r = [sesion[s] EXCEPT !.paso = p]
    OBVIOUS
  <2>3. r.paso = p /\ r.id = sesion[s].id
    BY <2>2, EnMano DEF Peticion, InvCancelacion, InvAprobado
  <2>4. sesion' = [sesion EXCEPT ![s] = r]
    BY <2>1, <2>2 DEF Ir, Pasar, EnCancelacion
  <2>5. Sabido(r, fe)
    BY <2>3 DEF Sabido, EnCancelacion
  <2>6. /\ r.paso \in EnCancelacion /\ sesion[s].paso \in EnCancelacion
        /\ UNCHANGED <<fe, filas, factura, pisado, corte>>
    BY <1>2, <2>3
  <2> QED
    BY <2>3, <2>4, <2>5, <2>6, PasoMueve
<1>3. CASE EventoCancelar(s)
  BY <1>2, <1>3 DEF EventoCancelar, En, EnCancelacion
<1>4. CASE AnularFactura(s)
  <2>1. CASE factura' = factura /\ Ir(s, "cancelar_deshacer")
    BY <1>2, <1>4, <2>1 DEF AnularFactura, En, EnCancelacion
  <2>2. CASE factura' = Anulada /\ Ir(s, "libre")
    BY <1>4, <2>2, CancelacionAnula DEF AnularFactura
  <2> QED
    BY <1>4, <2>1, <2>2 DEF AnularFactura
<1> QED
  BY <1>1, <1>3, <1>4, CancelacionFila, CancelacionDeshace DEF Cancelar

(* A request dies: half way of a cancellation, that is what corte notes.   *)
LEMMA CancelacionParar ==
  ASSUME InvCancelacion, InvAprobado', NEW s \in Sesiones, Fallar(s) \/ Caer(s)
  PROVE  InvCancelacion'
<1>1. CASE sesion[s].paso \notin EnCancelacion
  <2>1. Ir(s, "libre") /\ UNCHANGED <<fe, filas, factura, pisado>>
    BY DEF Fallar, Caer
  <2>3. corte => corte'
    BY Zenon DEF Fallar, Caer
  <2>2. "libre" \notin EnCancelacion \cup {"cancelar_fila", "consulta_evento"}
    BY DEF EnCancelacion
  <2> QED
    BY <1>1, <2>1, <2>2, <2>3, PasoIr
<1>2. CASE sesion[s].paso \in EnCancelacion
  <2>1. Caer(s) /\ corte'
    BY <1>2 DEF Fallar, Caer, EnCancelacion
  <2>2. \A t \in Sesiones : sesion'[t] = IF t = s THEN Libre ELSE sesion[t]
    BY <2>1 DEF Caer, Ir, Pasar, InvCancelacion, InvAprobado, TipoReal
  <2>3. ASSUME NEW t \in Sesiones PROVE Sabido(sesion'[t], fe)
    BY <2>2 DEF InvCancelacion, Sabido, Libre
  <2>4. \A t \in Sesiones : Sabido(sesion[t], fe)'
    BY <2>1, <2>3 DEF Sabido, Escrito, Caer
  <2> QED
    BY <2>1, <2>4 DEF InvCancelacion
<1> QED
  BY <1>1, <1>2

(* The other writers of the invoice say so in it.                          *)
LEMMA CancelacionAjena ==
  ASSUME InvCancelacion, InvAprobado', AnularPorBaja \/ PagarAnulada
  PROVE  InvCancelacion'
<1>1. UNCHANGED <<fe, filas, sesion, pisado, corte>>
  BY DEF AnularPorBaja, PagarAnulada
<1>2. \A t \in Sesiones : Sabido(sesion[t], fe)'
  BY <1>1 DEF InvCancelacion, Sabido, Escrito
<1>3. Cancelantes' = Cancelantes
  BY <1>1 DEF Cancelantes
<1>4. \/ factura'.anulada /\ factura'.baja
      \/ ~ factura'.anulada /\ factura'.reabierta
  <2>1. factura \in Comercial
    BY DEF InvCancelacion, InvAprobado, TipoReal
  <2> QED
    BY <2>1 DEF AnularPorBaja, PagarAnulada, Vigente, Comercial
<1>5. ASSUME ~ pisado', ~ corte' PROVE Anulacion'
  <2>1. Anulacion
    BY <1>1, <1>5 DEF InvCancelacion
  <2> QED
    BY <1>1, <1>3, <1>4, <2>1 DEF Anulacion
<1> QED
  BY <1>2, <1>5 DEF InvCancelacion

LEMMA CancelacionPaso == InvCancelacion /\ [Next]_vars => InvCancelacion'
<1> SUFFICES ASSUME InvCancelacion, [Next]_vars PROVE InvCancelacion'
  OBVIOUS
<1>a. InvAprobado'
  BY AprobadoPaso DEF InvCancelacion
<1>1. CASE UNCHANGED <<fe, filas, factura, sesion, pisado, corte>>
  <2>1. \A t \in Sesiones : Sabido(sesion[t], fe)'
    BY <1>1 DEF InvCancelacion, Sabido, Escrito
  <2>2. Cancelantes' = Cancelantes
    BY <1>1 DEF Cancelantes
  <2>3. ~ pisado' /\ ~ corte' => Anulacion'
    BY <1>1, <2>2, AnulacionQuieta DEF InvCancelacion
  <2> QED
    BY <1>a, <2>1, <2>3 DEF InvCancelacion
<1>2. ASSUME NEW i \in 1..Len(lotes), Dictaminar(i)
      PROVE  InvCancelacion'
  BY <1>1, <1>2 DEF Dictaminar
<1>3. CASE UNCHANGED vars
  BY <1>1, <1>3 DEF vars
<1> QED
  BY <1>a, <1>2, <1>3, CancelacionBorrador, CancelacionXml, CancelacionFirmar,
     CancelacionEnviar, CancelacionConsulta, CancelacionCancelar, CancelacionParar,
     CancelacionAjena DEF Next

(* The invariant: document and invoice disagree only while a cancellation  *)
(* is half way, and there is one at most, after a client left, or after a  *)
(* payment over the void invoice.                                          *)
THEOREM InvarianteDeCancelacion == Spec => []InvCancelacion
<1>1. Init => InvCancelacion
  BY CancelacionInicial
<1>2. InvCancelacion /\ [Next]_vars => InvCancelacion'
  BY CancelacionPaso
<1> QED
  BY <1>1, <1>2, PTL DEF Spec

(* With no request under way, an invoice no leaving client voided is only  *)
(* void with its document cancelled, and the invoice of a cancelled        *)
(* document is void but for a payment written over it; unless a request    *)
(* wrote over what it had not seen or a cancellation died half way.        *)
THEOREM LaFacturaSigue == Spec => []FacturaSigueAlDocumento
BY InvarianteDeCancelacion, CancelacionBasta, PTL

(***************************************************************************)
(* Two approved documents.  While nobody writes over what it had not seen, *)
(* the row is made once and no number is skipped, a document is only made  *)
(* once SET rejected those of all the numbers before its own (Fundado).    *)
(* So if SET approved two, it had rejected one of them: it was sent twice. *)
(***************************************************************************)
Rechazados == {i \in 1..Len(lotes) : lotes[i].res = "rechazado"}

\* The numbers whose document SET rejected.
Cerrados == {lotes[i].cdc[2] : i \in {j \in Rechazados : lotes[j].cdc[1] = 1}}

Fundado(n, ce) == \A k \in 0..(n - 1) : k \in ce

Valido(c, ce) == c = Nada \/ (c[1] = 1 /\ Fundado(c[2], ce))

DeXml == {"xml_reservar", "xml_payload", "xml_subir", "xml_fila", "xml_evento", "xml_revertir"}
DeFirmar == {"firmar_bajar", "firmar_subir", "firmar_fila", "firmar_evento"}
DeEnviar == {"enviar_bajar", "enviar_soap", "enviar_fila", "enviar_evento"}

\* A request does not change from one handler to another.
Sigue(q, p) ==
    /\ p \notin {"borrador_evento", "enviar_soap"}
    /\ p \in DeXml => q \in DeXml
    /\ p \in DeFirmar => q \in DeFirmar
    /\ p \in DeEnviar => q \in DeEnviar
    /\ p \in Consultando => q \in Consultando

Formada(z, f, re, ce) ==
    /\ Valido(z.cdc, ce)
    /\ z.paso = "enviar_soap" => z.cdc # Nada
    /\ z.resp = "rechazado" => z.leida.prot \in re
    /\ z.paso \in DeXml => Fundado(z.leida.seq, ce)
    /\ z.paso \in DeXml \cup Consultando /\ z.leida.estado = "rechazado" => z.leida.prot \in re
    /\ z.paso \in DeFirmar /\ ~ z.vieja /\ z.leida.estado = "rechazado" => f.prot \in re
    /\ z.paso \in DeEnviar => z.leida.estado = "firmado"

Nueva(z, f) == z.paso = "borrador_evento" /\ ~ z.vieja => ~ f.salto

Limpio == ~ pisado /\ filas <= 1 /\ ~ fe.salto

Numerada ==
    /\ filas = 0 => ~ fe.salto
    /\ \A s \in Sesiones : Nueva(sesion[s], fe)
    /\ Limpio =>
          /\ fe.estado = "rechazado" => fe.prot \in Rechazados
          /\ Fundado(fe.seq, Cerrados)
          /\ Valido(xml, Cerrados) /\ Valido(firma, Cerrados)
          /\ \A i \in 1..Len(lotes) : lotes[i].cdc # Nada /\ Valido(lotes[i].cdc, Cerrados)
          /\ \A s \in Sesiones : Formada(sesion[s], fe, Rechazados, Cerrados)

InvNumeros == InvAprobado /\ Numerada

LEMMA LibreFormada ==
  ASSUME NEW f, NEW re, NEW ce
  PROVE  Formada(Libre, f, re, ce) /\ Nueva(Libre, f)
BY DEF Formada, Nueva, Libre, Valido, SinFila, DeXml, DeFirmar, DeEnviar, Consultando

LEMMA FormadaCrece ==
  ASSUME NEW z, NEW f, NEW re, NEW ce, NEW re2, NEW ce2,
         Formada(z, f, re, ce), re \subseteq re2, ce \subseteq ce2
  PROVE  Formada(z, f, re2, ce2)
BY DEF Formada, Valido, Fundado

LEMMA ValidoCrece ==
  ASSUME NEW c, NEW ce, NEW ce2, Valido(c, ce), ce \subseteq ce2
  PROVE  Valido(c, ce2)
BY DEF Valido, Fundado

(* A request goes on with what it has.                                     *)
LEMMA FormadaSigue ==
  ASSUME NEW z, NEW r, NEW f, NEW re, NEW ce, Formada(z, f, re, ce), Sigue(z.paso, r.paso),
         r.leida = z.leida, r.vieja = z.vieja, r.resp = z.resp \/ r.resp # "rechazado",
         Valido(r.cdc, ce)
  PROVE  Formada(r, f, re, ce)
BY DEF Formada, Sigue

LEMMA NuevaSigue ==
  ASSUME NEW q, NEW r, NEW f, Sigue(q, r.paso)
  PROVE  Nueva(r, f)
BY DEF Nueva, Sigue

(* Nobody writes the row.                                                  *)
LEMMA SinTocarFila ==
  ASSUME Numerada, UNCHANGED <<fe, filas, pisado>>,
         Rechazados \subseteq Rechazados', Cerrados \subseteq Cerrados',
         Limpio => Valido(xml', Cerrados) /\ Valido(firma', Cerrados),
         Limpio => \A i \in 1..Len(lotes') : lotes'[i].cdc # Nada /\ Valido(lotes'[i].cdc, Cerrados),
         \A t \in Sesiones : Nueva(sesion'[t], fe),
         Limpio => \A t \in Sesiones : Formada(sesion'[t], fe, Rechazados, Cerrados)
  PROVE  Numerada'
<1>1. Limpio' <=> Limpio
  BY DEF Limpio
<1>2. (filas = 0 => ~ fe.salto)' /\ (\A t \in Sesiones : Nueva(sesion[t], fe))'
  BY DEF Numerada, Nueva
<1>3. ASSUME Limpio
      PROVE  /\ (fe.estado = "rechazado" => fe.prot \in Rechazados)'
             /\ Fundado(fe.seq, Cerrados)'
  BY <1>3 DEF Numerada, Fundado
<1>4. ASSUME Limpio
      PROVE  (Valido(xml, Cerrados) /\ Valido(firma, Cerrados))'
  BY <1>4 DEF Valido, Fundado
<1>5. ASSUME Limpio
      PROVE  (\A i \in 1..Len(lotes) : lotes[i].cdc # Nada /\ Valido(lotes[i].cdc, Cerrados))'
  BY <1>5 DEF Valido, Fundado
<1>6. ASSUME Limpio
      PROVE  (\A t \in Sesiones : Formada(sesion[t], fe, Rechazados, Cerrados))'
  <2>1. \A t \in Sesiones : Formada(sesion'[t], fe, Rechazados', Cerrados')
    BY <1>6, FormadaCrece
  <2> QED
    BY <2>1 DEF Formada, Valido, Fundado
<1> QED
  BY <1>1, <1>2, <1>3, <1>4, <1>5, <1>6 DEF Numerada

(* A request moves, and may write a file.                                  *)
LEMMA MueveNumerada ==
  ASSUME TipoReal, Numerada, NEW s \in Sesiones, NEW r, sesion' = [sesion EXCEPT ![s] = r],
         UNCHANGED <<fe, filas, lotes, pisado>>,
         Limpio => Valido(xml', Cerrados) /\ Valido(firma', Cerrados),
         Nueva(r, fe), Limpio => Formada(r, fe, Rechazados, Cerrados)
  PROVE  Numerada'
<1>1. Rechazados' = Rechazados /\ Cerrados' = Cerrados
  BY DEF Rechazados, Cerrados
<1>2. \A t \in Sesiones : sesion'[t] = IF t = s THEN r ELSE sesion[t]
  BY DEF TipoReal
<1>3. \A t \in Sesiones : Nueva(sesion'[t], fe)
  BY <1>2 DEF Numerada
<1>4. Limpio => \A t \in Sesiones : Formada(sesion'[t], fe, Rechazados, Cerrados)
  BY <1>2 DEF Numerada
<1>5. Limpio => \A i \in 1..Len(lotes') : lotes'[i].cdc # Nada /\ Valido(lotes'[i].cdc, Cerrados)
  BY DEF Numerada
<1> QED
  BY <1>1, <1>3, <1>4, <1>5, SinTocarFila

LEMMA IrNumerada ==
  ASSUME TipoReal, Numerada, NEW s \in Sesiones, NEW p, Ir(s, p),
         UNCHANGED <<fe, filas, lotes, pisado>>,
         Limpio => Valido(xml', Cerrados) /\ Valido(firma', Cerrados),
         p = "libre" \/ Sigue(sesion[s].paso, p)
  PROVE  Numerada'
<1>1. CASE p = "libre"
  <2>1. sesion' = [sesion EXCEPT ![s] = Libre]
    BY <1>1 DEF Ir, Pasar
  <2> QED
    BY <2>1, LibreFormada, MueveNumerada
<1>2. CASE p # "libre"
  <2> DEFINE r == [sesion[s] EXCEPT !.paso = p]
  <2>1. r.paso = p /\ r.leida = sesion[s].leida /\ r.vieja = sesion[s].vieja
        /\ r.resp = sesion[s].resp /\ r.cdc = sesion[s].cdc
    BY EnMano DEF Peticion
  <2>2. sesion' = [sesion EXCEPT ![s] = r]
    BY <1>2 DEF Ir, Pasar
  <2> HIDE DEF r
  <2>3. Nueva(r, fe)
    BY <1>2, <2>1, NuevaSigue
  <2>4. Limpio => Formada(sesion[s], fe, Rechazados, Cerrados)
    BY DEF Numerada
  <2>5. Limpio => Valido(r.cdc, Cerrados)
    BY <2>1, <2>4 DEF Formada
  <2>6. Limpio => Formada(r, fe, Rechazados, Cerrados)
    BY <1>2, <2>1, <2>4, <2>5, FormadaSigue
  <2> QED
    BY <2>2, <2>3, <2>6, MueveNumerada
<1> QED
  BY <1>1, <1>2

(* A request reads the row.                                                *)
LEMMA LeeNumerada ==
  ASSUME TipoReal, Numerada, NEW s \in Sesiones, NEW p, NEW fila, Leer(s, p, fila),
         p \notin {"borrador_evento", "enviar_soap"},
         p \in DeXml => fila.seq = fe.seq /\ fila.estado = fe.estado /\ fila.prot = fe.prot,
         p \in Consultando => fila.estado = fe.estado /\ fila.prot = fe.prot,
         p \in DeFirmar => fila.estado = fe.estado,
         p \in DeEnviar => fila.estado = "firmado"
  PROVE  Numerada'
<1> DEFINE r == [Libre EXCEPT !.paso = p, !.leida = fila, !.id = filas]
<1>1. r.paso = p /\ r.leida = fila /\ r.resp = "nada" /\ r.cdc = Nada
  BY DEF Libre
<1>2. sesion' = [sesion EXCEPT ![s] = r] /\ UNCHANGED <<fe, filas, xml, firma, lotes, pisado>>
  BY DEF Leer
<1> HIDE DEF r
<1>3. Nueva(r, fe)
  BY <1>1 DEF Nueva
<1>4. Limpio => Formada(r, fe, Rechazados, Cerrados)
  BY <1>1 DEF Formada, Numerada, Valido
<1>5. Limpio => Valido(xml', Cerrados) /\ Valido(firma', Cerrados)
  BY <1>2 DEF Numerada
<1> QED
  BY <1>2, <1>3, <1>4, <1>5, MueveNumerada

(* The others, when somebody writes it.                                    *)
LEMMA FormadaVieja ==
  ASSUME NEW z \in Peticion, NEW f, NEW f2, NEW re, NEW ce, Formada(z, f, re, ce)
  PROVE  Formada([z EXCEPT !.vieja = TRUE], f2, re, ce)
<1> DEFINE r == [z EXCEPT !.vieja = TRUE]
<1>1. r.vieja = TRUE /\ r.paso = z.paso /\ r.leida = z.leida /\ r.resp = z.resp /\ r.cdc = z.cdc
  BY DEF Peticion
<1> HIDE DEF r
<1> QED
  BY <1>1 DEF Formada

LEMMA NuevaVieja ==
  ASSUME NEW z \in Peticion, NEW f
  PROVE  Nueva([z EXCEPT !.vieja = TRUE], f)
<1> DEFINE r == [z EXCEPT !.vieja = TRUE]
<1>1. r.vieja = TRUE
  BY DEF Peticion
<1> HIDE DEF r
<1> QED
  BY <1>1 DEF Nueva

LEMMA FormadaLibre ==
  ASSUME NEW z, NEW f, NEW f2, NEW re, NEW ce, Formada(z, f, re, ce), z.paso = "libre"
  PROVE  Formada(z, f2, re, ce) /\ Nueva(z, f2)
BY DEF Formada, Nueva, DeFirmar

LEMMA EscribeNumerada ==
  ASSUME TipoReal, Numerada, NEW s \in Sesiones, NEW p, NEW fila, Escribir(s, fila, p),
         UNCHANGED <<xml, firma, lotes>>, filas' \in {filas, filas + 1},
         filas' = 0 => ~ fila.salto, ~ En(s, "libre"), Nueva(Tras(s, p), fila),
         ~ sesion[s].vieja /\ filas' <= 1 /\ ~ fila.salto => ~ fe.salto,
         Limpio /\ ~ sesion[s].vieja /\ ~ fila.salto =>
            /\ fila.estado = "rechazado" => fila.prot \in Rechazados
            /\ Fundado(fila.seq, Cerrados)
            /\ Formada(Tras(s, p), fila, Rechazados, Cerrados)
  PROVE  Numerada'
<1>1. Rechazados' = Rechazados /\ Cerrados' = Cerrados
  BY DEF Rechazados, Cerrados
<1>2. fe' = fila /\ pisado' = (pisado \/ sesion[s].vieja)
  BY DEF Escribir
<1>3. Limpio' => Limpio /\ ~ sesion[s].vieja /\ ~ fila.salto
  <2>1. filas' <= 1 => filas <= 1
    BY DEF TipoReal
  <2>2. Limpio' => ~ pisado' /\ filas' <= 1 /\ ~ fila.salto
    BY <1>2 DEF Limpio
  <2>3. ~ pisado' => ~ pisado /\ ~ sesion[s].vieja
    BY <1>2, Zenon
  <2>4. ~ pisado /\ filas <= 1 /\ ~ fe.salto => Limpio
    BY DEF Limpio
  <2> QED
    BY <2>1, <2>2, <2>3, <2>4
<1>4. \A t \in Sesiones : sesion'[t] = IF t = s THEN Tras(s, p)
                                       ELSE IF En(t, "libre") THEN sesion[t]
                                       ELSE [sesion[t] EXCEPT !.vieja = TRUE]
  BY DEF Escribir, Tras
<1>5. ASSUME NEW t \in Sesiones
      PROVE  Nueva(sesion'[t], fila)
  <2>1. CASE t = s
    BY <1>4, <2>1
  <2>2. CASE t # s /\ En(t, "libre")
    BY <1>4, <2>2 DEF Nueva, En
  <2>3. CASE t # s /\ ~ En(t, "libre")
    <3>1. sesion[t] \in Peticion
      BY EnMano
    <3> QED
      BY <1>4, <2>3, <3>1, NuevaVieja
  <2> QED
    BY <2>1, <2>2, <2>3
<1>6. ASSUME Limpio', NEW t \in Sesiones
      PROVE  Formada(sesion'[t], fila, Rechazados, Cerrados)
  <2>0. Formada(sesion[t], fe, Rechazados, Cerrados)
    BY <1>3, <1>6 DEF Numerada
  <2>1. CASE t = s
    BY <1>3, <1>4, <1>6, <2>1
  <2>2. CASE t # s /\ En(t, "libre")
    BY <1>4, <2>0, <2>2, FormadaLibre DEF En
  <2>3. CASE t # s /\ ~ En(t, "libre")
    <3>1. sesion[t] \in Peticion
      BY EnMano
    <3>2. sesion'[t] = [sesion[t] EXCEPT !.vieja = TRUE]
      BY <1>4, <2>3
    <3>3. Formada([sesion[t] EXCEPT !.vieja = TRUE], fila, Rechazados, Cerrados)
      BY <2>0, <3>1, FormadaVieja
    <3> QED
      BY <3>2, <3>3, Zenon
  <2> QED
    BY <2>1, <2>2, <2>3
<1>7. (filas = 0 => ~ fe.salto)'
  BY <1>2
<1>8. (\A t \in Sesiones : Nueva(sesion[t], fe))'
  BY <1>2, <1>5 DEF Nueva
<1>9. ASSUME Limpio'
      PROVE  /\ (fe.estado = "rechazado" => fe.prot \in Rechazados)'
             /\ Fundado(fe.seq, Cerrados)'
  BY <1>1, <1>2, <1>3, <1>9 DEF Fundado
<1>10. ASSUME Limpio'
       PROVE  /\ (Valido(xml, Cerrados) /\ Valido(firma, Cerrados))'
              /\ (\A i \in 1..Len(lotes) : lotes[i].cdc # Nada /\ Valido(lotes[i].cdc, Cerrados))'
  BY <1>1, <1>3, <1>10 DEF Numerada, Valido, Fundado
<1>11. ASSUME Limpio'
       PROVE  (\A t \in Sesiones : Formada(sesion[t], fe, Rechazados, Cerrados))'
  BY <1>1, <1>2, <1>6, <1>11 DEF Formada, Valido, Fundado
<1> QED
  BY <1>7, <1>8, <1>9, <1>10, <1>11 DEF Numerada

LEMMA TrasCdc ==
  ASSUME TipoReal, NEW s \in Sesiones, NEW p
  PROVE  Tras(s, p).cdc = Nada
<1>1. Pasar(s, p) = Libre \/ Pasar(s, p) = [sesion[s] EXCEPT !.paso = p]
  BY DEF Pasar
<1>2. ASSUME NEW z \in Peticion, NEW q
      PROVE  [[z EXCEPT !.paso = q] EXCEPT !.cdc = Nada, !.lote = 0].cdc = Nada
  BY DEF Peticion
<1>3. [Libre EXCEPT !.cdc = Nada, !.lote = 0].cdc = Nada
  BY DEF Libre
<1> QED
  BY <1>1, <1>2, <1>3, EnMano DEF Tras

(* A request writes the row, in one of the ways it has, and goes on.       *)
LEMMA GuardaNumerada ==
  ASSUME TipoReal, Numerada, NEW s \in Sesiones, NEW p, NEW fila,
         Reponer(s, fila, p) \/ Guardar(s, fila, p) \/ (Ir(s, p) /\ UNCHANGED <<fe, pisado>>),
         UNCHANGED <<filas, xml, firma, lotes>>, ~ En(s, "libre"),
         p = "libre" \/ Sigue(sesion[s].paso, p),
         p \in DeFirmar => fila.prot = fe.prot, fe.salto => fila.salto,
         Limpio /\ ~ sesion[s].vieja /\ ~ fila.salto =>
            /\ fila.estado = "rechazado" => fila.prot \in Rechazados
            /\ Fundado(fila.seq, Cerrados)
  PROVE  Numerada'
<1>1. CASE Suya(s) /\ Escribir(s, fila, p)
  <2>1. filas # 0 /\ filas' \in {filas, filas + 1} /\ filas' # 0
    BY <1>1 DEF Suya, TipoReal
  <2>2. Nueva(Tras(s, p), fila)
    <3>1. CASE p = "libre"
      BY <3>1, TrasLibre, LibreFormada
    <3>2. CASE p # "libre"
      <4>1. Tras(s, p).paso = p
        BY <3>2, TrasEscribir
      <4> QED
        BY <3>2, <4>1, NuevaSigue
    <3> QED
      BY <3>1, <3>2
  <2>3. ASSUME Limpio
        PROVE  Formada(Tras(s, p), fila, Rechazados, Cerrados)
    <3>1. CASE p = "libre"
      BY <3>1, TrasLibre, LibreFormada
    <3>2. CASE p # "libre"
      <4> DEFINE r == Tras(s, p)
      <4>1. r.paso = p /\ r.leida = sesion[s].leida /\ r.vieja = sesion[s].vieja
            /\ r.resp = sesion[s].resp
        BY <3>2, TrasEscribir
      <4>2. r.cdc = Nada
        BY TrasCdc
      <4>3. Formada(sesion[s], fe, Rechazados, Cerrados) /\ Sigue(sesion[s].paso, p)
        BY <2>3, <3>2 DEF Numerada
      <4> HIDE DEF r
      <4>4. Formada(r, fila, Rechazados, Cerrados)
        BY <4>1, <4>2, <4>3 DEF Formada, Sigue, Valido
      <4> QED
        BY <4>4 DEF r
    <3> QED
      BY <3>1, <3>2
  <2> QED
    BY <1>1, <2>1, <2>2, <2>3, EscribeNumerada
<1>2. CASE Ir(s, p) /\ UNCHANGED <<fe, pisado>>
  <2>1. Limpio => Valido(xml', Cerrados) /\ Valido(firma', Cerrados)
    BY DEF Numerada
  <2> QED
    BY <1>2, <2>1, IrNumerada
<1> QED
  BY <1>1, <1>2 DEF Reponer, Guardar

(***************************************************************************)
(* Numerada, action by action.                                             *)
(***************************************************************************)
LEMMA NumeradaBorrador ==
  ASSUME TipoReal, Numerada, NEW s \in Sesiones, Borrador(s)
  PROVE  Numerada'
<1>1. CASE LeerBorrador(s)
  <2>1. Leer(s, "borrador_insertar", fe)
    BY <1>1 DEF LeerBorrador
  <2>2. "borrador_insertar" \notin DeXml \cup Consultando \cup DeFirmar \cup DeEnviar
    BY DEF DeXml, Consultando, DeFirmar, DeEnviar
  <2> QED
    BY <2>1, <2>2, LeeNumerada
<1>2. CASE InsertarBorrador(s)
  <2> DEFINE f == [SinFila EXCEPT !.estado = "borrador"]
             r == Tras(s, "borrador_evento")
  <2>1. Escribir(s, f, "borrador_evento") /\ ~ En(s, "libre") /\ filas' = filas + 1
        /\ UNCHANGED <<xml, firma, lotes>>
    BY <1>2 DEF InsertarBorrador, En
  <2>2. f.estado = "borrador" /\ f.seq = 0 /\ f.salto = FALSE
    BY DEF SinFila
  <2>3. r.paso = "borrador_evento" /\ r.leida = sesion[s].leida /\ r.vieja = sesion[s].vieja
        /\ r.resp = sesion[s].resp /\ r.cdc = Nada
    BY TrasEscribir, TrasCdc
  <2> HIDE DEF f, r
  <2>4. Nueva(r, f)
    BY <2>2 DEF Nueva
  <2>5. Limpio => Formada(sesion[s], fe, Rechazados, Cerrados)
    BY DEF Numerada
  <2>6. Limpio => Formada(r, f, Rechazados, Cerrados)
    BY <2>3, <2>5 DEF Formada, Valido, DeXml, Consultando, DeFirmar, DeEnviar
  <2>7. filas' # 0 /\ (filas' <= 1 => filas = 0)
    BY <2>1 DEF TipoReal
  <2>8. filas' <= 1 => ~ fe.salto
    BY <2>7 DEF Numerada
  <2>9. Fundado(f.seq, Cerrados)
    BY <2>2 DEF Fundado
  <2> QED
    BY <2>1, <2>2, <2>4, <2>6, <2>7, <2>8, <2>9, EscribeNumerada DEF r
<1>3. CASE EventoBorrador(s)
  <2>1. sesion[s].paso = "borrador_evento" /\ ~ En(s, "libre")
        /\ UNCHANGED <<filas, xml, firma, lotes>>
    BY <1>3 DEF EventoBorrador, En
  <2>2. CASE Ir(s, "libre") /\ UNCHANGED <<fe, pisado>>
    <3>1. Limpio => Valido(xml', Cerrados) /\ Valido(firma', Cerrados)
      BY <2>1 DEF Numerada
    <3> QED
      BY <2>1, <2>2, <3>1, IrNumerada
  <2>3. CASE Escribir(s, SinFila, "libre")
    <3>1. SinFila.estado = "nada" /\ SinFila.seq = 0 /\ SinFila.salto = FALSE
      BY DEF SinFila
    <3>2. ~ sesion[s].vieja => ~ fe.salto
      BY <2>1 DEF Numerada, Nueva
    <3>3. /\ Nueva(Tras(s, "libre"), SinFila)
          /\ Formada(Tras(s, "libre"), SinFila, Rechazados, Cerrados)
      BY TrasLibre, LibreFormada
    <3>4. Fundado(SinFila.seq, Cerrados)
      BY <3>1 DEF Fundado
    <3> QED
      BY <2>1, <2>3, <3>1, <3>2, <3>3, <3>4, EscribeNumerada
  <2> QED
    BY <1>3, <2>2, <2>3 DEF EventoBorrador
<1> QED
  BY <1>1, <1>2, <1>3 DEF Borrador

LEMMA FundadoSigue ==
  ASSUME NEW n \in Nat, NEW ce, Fundado(n, ce), n \in ce
  PROVE  Fundado(n + 1, ce)
<1>1. ASSUME NEW k \in 0..((n + 1) - 1)
      PROVE  k \in ce
  <2>1. k = n \/ k \in 0..(n - 1)
    OBVIOUS
  <2> QED
    BY <2>1 DEF Fundado
<1> QED
  BY <1>1 DEF Fundado

(* A number is taken: the document of the last one was rejected.           *)
LEMMA NumeradaReserva ==
  ASSUME TipoReal, Numerada, NEW s \in Sesiones, ReservarSeq(s)
  PROVE  Numerada'
<1> DEFINE f == [fe EXCEPT !.seq = @ + 1, !.salto = @ \/ ~ NumeroUsado]
<1>1. /\ Guardar(s, f, "xml_payload") /\ UNCHANGED <<filas, xml, firma, lotes>>
      /\ ~ En(s, "libre") /\ sesion[s].paso = "xml_reservar"
      /\ fe.estado = "rechazado" /\ fe.estado # "nada"
  BY DEF ReservarSeq, Reservable, En
<1>2. fe \in FilaReal /\ fe.seq \in 0..MaxSeq
  BY EnMano DEF FilaReal
<1>3. /\ f.estado = fe.estado /\ f.prot = fe.prot /\ f.seq = fe.seq + 1
      /\ f.salto = (fe.salto \/ ~ NumeroUsado)
  BY <1>2 DEF FilaReal
<1> HIDE DEF f
<1>4. fe.salto => f.salto
  BY <1>3, Zenon
<1>5. ~ f.salto => NumeroUsado
  BY <1>3, Zenon
<1>6. ASSUME Limpio, ~ f.salto
      PROVE  /\ f.estado = "rechazado" => f.prot \in Rechazados
             /\ Fundado(f.seq, Cerrados)
  <2>1. fe.prot \in Rechazados /\ Fundado(fe.seq, Cerrados)
    BY <1>1, <1>6 DEF Numerada
  <2>2. filas = 1
    BY <1>1, <1>6 DEF Limpio, TipoReal
  <2>3. lotes[fe.prot].cdc = <<1, fe.seq>>
    BY <1>5, <1>6, <2>2 DEF NumeroUsado
  <2>4. fe.seq \in Cerrados
    BY <2>1, <2>3 DEF Cerrados
  <2>5. Fundado(fe.seq + 1, Cerrados)
    <3>1. fe.seq \in Nat
      BY <1>2, DocumentoAssumption
    <3> QED
      BY <2>1, <2>4, <3>1, FundadoSigue
  <2>6. Fundado(f.seq, Cerrados)
    BY <1>3, <2>5
  <2> QED
    BY <1>3, <2>1, <2>6
<1>7. Sigue(sesion[s].paso, "xml_payload") /\ "xml_payload" \notin DeFirmar
  BY <1>1 DEF Sigue, DeXml, DeFirmar, DeEnviar, Consultando
<1> QED
  BY <1>1, <1>4, <1>6, <1>7, GuardaNumerada

LEMMA NumeradaXmlFichero ==
  ASSUME TipoReal, Numerada, NEW s \in Sesiones,
         \/ LeerXml(s) \/ ArmarXml(s) \/ SubirXml(s) \/ FallarReservado(s) \/ FallarXml(s)
         \/ EventoXml(s) \/ BorrarXml(s) \/ QuitarFirma(s)
  PROVE  Numerada'
<1>n. Valido(Nada, Cerrados)
  BY DEF Valido
<1>f. Limpio => Valido(xml, Cerrados) /\ Valido(firma, Cerrados)
                /\ Formada(sesion[s], fe, Rechazados, Cerrados)
  BY DEF Numerada
<1>1. CASE LeerXml(s)
  <2> DEFINE f == [fe EXCEPT !.aprobada = FALSE, !.cancelada = FALSE]
             p == IF fe.estado = "rechazado" THEN "xml_reservar" ELSE "xml_payload"
  <2>1. f.estado = fe.estado /\ f.seq = fe.seq /\ f.prot = fe.prot
    BY EnMano DEF FilaReal
  <2>2. Leer(s, p, f)
    BY <1>1 DEF LeerXml
  <2>3. p \notin {"borrador_evento", "enviar_soap"} \cup Consultando \cup DeFirmar \cup DeEnviar
    BY DEF Consultando, DeFirmar, DeEnviar
  <2> HIDE DEF f, p
  <2> QED
    BY <2>1, <2>2, <2>3, LeeNumerada
<1>2. CASE ArmarXml(s)
  <2> DEFINE r == [sesion[s] EXCEPT !.paso = "xml_subir", !.cdc = <<filas, fe.seq>>]
  <2>1. /\ r.paso = "xml_subir" /\ r.leida = sesion[s].leida /\ r.vieja = sesion[s].vieja
        /\ r.resp = sesion[s].resp /\ r.cdc = <<filas, fe.seq>>
    BY EnMano DEF Peticion
  <2>2. /\ sesion' = [sesion EXCEPT ![s] = r]
        /\ UNCHANGED <<fe, filas, xml, firma, lotes, pisado>>
        /\ sesion[s].paso = "xml_payload" /\ fe.estado # "nada"
    BY <1>2 DEF ArmarXml, En, Suya
  <2> HIDE DEF r
  <2>3. Sigue(sesion[s].paso, r.paso)
    BY <2>1, <2>2 DEF Sigue, DeXml, DeFirmar, DeEnviar, Consultando
  <2>4. Limpio => filas = 1
    BY <2>2 DEF Limpio, TipoReal
  <2>5. Limpio => Valido(r.cdc, Cerrados)
    BY <2>1, <2>4 DEF Valido, Numerada
  <2>6. Nueva(r, fe)
    BY <2>3, NuevaSigue
  <2>7. Limpio => Formada(r, fe, Rechazados, Cerrados)
    BY <1>f, <2>1, <2>3, <2>5, FormadaSigue
  <2> QED
    BY <1>f, <2>2, <2>6, <2>7, MueveNumerada
<1>3. CASE SubirXml(s)
  <2>1. Sigue(sesion[s].paso, "xml_fila")
    BY <1>3 DEF SubirXml, En, Sigue, DeXml, DeFirmar, DeEnviar, Consultando
  <2>2. Limpio => Valido(xml', Cerrados) /\ Valido(firma', Cerrados)
    BY <1>3, <1>f DEF SubirXml, Formada
  <2> QED
    BY <1>3, <2>1, <2>2, IrNumerada DEF SubirXml
<1>4. CASE FallarReservado(s)
  <2>1. Sigue(sesion[s].paso, "xml_revertir")
    BY <1>4 DEF FallarReservado, Sigue, DeXml, DeFirmar, DeEnviar, Consultando
  <2> QED
    BY <1>4, <1>f, <2>1, IrNumerada DEF FallarReservado
<1>5. CASE FallarXml(s)
  <2> DEFINE p == IF Rechazada(s) THEN "xml_revertir" ELSE "libre"
  <2>1. p = "libre" \/ Sigue(sesion[s].paso, p)
    BY <1>5 DEF FallarXml, En, Sigue, DeXml, DeFirmar, DeEnviar, Consultando
  <2>2. Ir(s, p) /\ UNCHANGED <<fe, filas, lotes, pisado>> /\ xml' = Nada /\ firma' = firma
    BY <1>5 DEF FallarXml
  <2> HIDE DEF p
  <2> QED
    BY <1>f, <1>n, <2>1, <2>2, IrNumerada
<1>6. CASE EventoXml(s)
  <2>1. CASE sesion[s].leida.firmado
    <3> DEFINE r == [Libre EXCEPT !.paso = "xml_quitar"]
    <3>1. r.paso = "xml_quitar" /\ r.cdc = Nada /\ r.resp = "nada"
      BY DEF Libre
    <3>2. sesion' = [sesion EXCEPT ![s] = r]
      BY <1>6, <2>1 DEF EventoXml
    <3> HIDE DEF r
    <3>3. Nueva(r, fe) /\ Formada(r, fe, Rechazados, Cerrados)
      BY <3>1 DEF Nueva, Formada, Valido, DeXml, DeFirmar, DeEnviar, Consultando
    <3> QED
      BY <1>6, <1>f, <3>2, <3>3, MueveNumerada DEF EventoXml
  <2>2. CASE ~ sesion[s].leida.firmado
    BY <1>6, <1>f, <2>2, IrNumerada DEF EventoXml
  <2> QED
    BY <2>1, <2>2
<1>7. CASE BorrarXml(s) \/ QuitarFirma(s)
  BY <1>7, <1>f, <1>n, IrNumerada DEF BorrarXml, QuitarFirma
<1> QED
  BY <1>1, <1>2, <1>3, <1>4, <1>5, <1>6, <1>7

LEMMA NumeradaXmlFila ==
  ASSUME TipoReal, Numerada, NEW s \in Sesiones,
         GuardarXml(s) \/ RevertirSeq(s) \/ SinEventoXml(s)
  PROVE  Numerada'
<1>f. Limpio => Formada(sesion[s], fe, Rechazados, Cerrados) /\ Fundado(fe.seq, Cerrados)
                /\ (fe.estado = "rechazado" => fe.prot \in Rechazados)
  BY DEF Numerada
<1>1. CASE GuardarXml(s)
  <2> DEFINE f == [fe EXCEPT !.estado = "generado", !.xml = TRUE, !.firmado = FALSE,
                             !.cdc = sesion[s].cdc,
                             !.prot = IF Rechazada(s) THEN 0 ELSE @]
  <2>1. f.estado = "generado" /\ f.seq = fe.seq /\ f.salto = fe.salto
    BY EnMano DEF FilaReal
  <2>2. Guardar(s, f, "xml_evento") /\ ~ En(s, "libre") /\ UNCHANGED <<filas, xml, firma, lotes>>
    BY <1>1 DEF GuardarXml, En
  <2>3. Sigue(sesion[s].paso, "xml_evento") /\ "xml_evento" \notin DeFirmar
    BY <1>1 DEF GuardarXml, En, Sigue, DeXml, DeFirmar, DeEnviar, Consultando
  <2> HIDE DEF f
  <2> QED
    BY <1>f, <2>1, <2>2, <2>3, GuardaNumerada
<1>2. CASE RevertirSeq(s)
  <2> DEFINE f == [fe EXCEPT !.seq = sesion[s].leida.seq]
  <2>1. f.estado = fe.estado /\ f.prot = fe.prot /\ f.seq = sesion[s].leida.seq
        /\ f.salto = fe.salto
    BY EnMano DEF FilaReal
  <2>2. Reponer(s, f, "libre") /\ ~ En(s, "libre") /\ UNCHANGED <<filas, xml, firma, lotes>>
        /\ sesion[s].paso \in DeXml
    BY <1>2 DEF RevertirSeq, En, DeXml
  <2>3. "libre" \notin DeFirmar
    BY DEF DeFirmar
  <2> HIDE DEF f
  <2>4. Limpio => Fundado(f.seq, Cerrados) /\ (f.estado = "rechazado" => f.prot \in Rechazados)
    BY <1>f, <2>1, <2>2 DEF Formada
  <2> QED
    BY <2>1, <2>2, <2>3, <2>4, GuardaNumerada
<1>3. CASE SinEventoXml(s)
  <2> DEFINE f == AntesDelXml(sesion[s].leida)
  <2>1. /\ f.estado = sesion[s].leida.estado /\ f.salto = fe.salto
        /\ f.estado = "rechazado" => f.prot = sesion[s].leida.prot
        /\ f.seq \in {fe.seq, sesion[s].leida.seq}
    BY EnMano DEF FilaReal, AntesDelXml
  <2>2. Reponer(s, f, "xml_borrar") /\ ~ En(s, "libre") /\ UNCHANGED <<filas, xml, firma, lotes>>
        /\ sesion[s].paso \in DeXml
    BY <1>3 DEF SinEventoXml, En, DeXml
  <2>3. Sigue(sesion[s].paso, "xml_borrar") /\ "xml_borrar" \notin DeFirmar
    BY DEF Sigue, DeXml, DeFirmar, DeEnviar, Consultando
  <2> HIDE DEF f
  <2>4. Limpio => Fundado(f.seq, Cerrados) /\ (f.estado = "rechazado" => f.prot \in Rechazados)
    BY <1>f, <2>1, <2>2 DEF Formada
  <2> QED
    BY <2>1, <2>2, <2>3, <2>4, GuardaNumerada
<1> QED
  BY <1>1, <1>2, <1>3

LEMMA NumeradaFirmar ==
  ASSUME TipoReal, Numerada, NEW s \in Sesiones, Firmar(s)
  PROVE  Numerada'
<1>n. Valido(Nada, Cerrados)
  BY DEF Valido
<1>f. Limpio => /\ Valido(xml, Cerrados) /\ Valido(firma, Cerrados)
                /\ Formada(sesion[s], fe, Rechazados, Cerrados) /\ Fundado(fe.seq, Cerrados)
  BY DEF Numerada
<1>1. CASE LeerFirmar(s)
  <2> DEFINE f == [SinFila EXCEPT !.estado = fe.estado, !.xml = TRUE, !.firmado = fe.firmado]
  <2>1. f.estado = fe.estado
    BY DEF SinFila
  <2>2. Leer(s, "firmar_bajar", f)
    BY <1>1 DEF LeerFirmar
  <2>3. "firmar_bajar" \notin DeXml \cup Consultando \cup DeEnviar
    BY DEF DeXml, Consultando, DeEnviar
  <2> HIDE DEF f
  <2> QED
    BY <2>1, <2>2, <2>3, LeeNumerada
<1>2. CASE BajarXml(s)
  <2> DEFINE r == [sesion[s] EXCEPT !.paso = "firmar_subir", !.cdc = xml]
  <2>1. /\ r.paso = "firmar_subir" /\ r.leida = sesion[s].leida /\ r.vieja = sesion[s].vieja
        /\ r.resp = sesion[s].resp /\ r.cdc = xml
    BY EnMano DEF Peticion
  <2>2. /\ sesion' = [sesion EXCEPT ![s] = r]
        /\ UNCHANGED <<fe, filas, xml, firma, lotes, pisado>>
        /\ sesion[s].paso = "firmar_bajar"
    BY <1>2 DEF BajarXml, En
  <2> HIDE DEF r
  <2>3. Sigue(sesion[s].paso, r.paso)
    BY <2>1, <2>2 DEF Sigue, DeXml, DeFirmar, DeEnviar, Consultando
  <2>4. Nueva(r, fe)
    BY <2>3, NuevaSigue
  <2>5. Limpio => Formada(r, fe, Rechazados, Cerrados)
    BY <1>f, <2>1, <2>3, FormadaSigue
  <2> QED
    BY <1>f, <2>2, <2>4, <2>5, MueveNumerada
<1>3. CASE SubirFirma(s)
  <2>1. Sigue(sesion[s].paso, "firmar_fila")
    BY <1>3 DEF SubirFirma, En, Sigue, DeXml, DeFirmar, DeEnviar, Consultando
  <2>2. Limpio => Valido(xml', Cerrados) /\ Valido(firma', Cerrados)
    BY <1>3, <1>f, <1>n DEF SubirFirma, Formada
  <2> QED
    BY <1>3, <2>1, <2>2, IrNumerada DEF SubirFirma
<1>4. CASE GuardarFirma(s)
  <2> DEFINE f == [fe EXCEPT !.estado = "firmado", !.xml = TRUE, !.firmado = TRUE]
  <2>1. f.estado = "firmado" /\ f.seq = fe.seq /\ f.salto = fe.salto /\ f.prot = fe.prot
    BY EnMano DEF FilaReal
  <2>2. Guardar(s, f, "firmar_evento") /\ ~ En(s, "libre")
        /\ UNCHANGED <<filas, xml, firma, lotes>>
    BY <1>4 DEF GuardarFirma, En
  <2>3. Sigue(sesion[s].paso, "firmar_evento")
    BY <1>4 DEF GuardarFirma, En, Sigue, DeXml, DeFirmar, DeEnviar, Consultando
  <2> HIDE DEF f
  <2> QED
    BY <1>f, <2>1, <2>2, <2>3, GuardaNumerada
<1>5. CASE EventoFirma(s)
  <2> DEFINE l == sesion[s].leida
             f == [fe EXCEPT !.estado = l.estado, !.xml = l.xml, !.firmado = l.firmado]
  <2>1. f.estado = l.estado /\ f.seq = fe.seq /\ f.salto = fe.salto /\ f.prot = fe.prot
    BY EnMano DEF FilaReal
  <2>2. /\ ~ En(s, "libre") /\ UNCHANGED <<filas, xml, firma, lotes>>
        /\ sesion[s].paso \in DeFirmar
    BY <1>5 DEF EventoFirma, En, DeFirmar
  <2>3. Limpio /\ ~ sesion[s].vieja => (f.estado = "rechazado" => f.prot \in Rechazados)
    BY <1>f, <2>1, <2>2 DEF Formada
  <2>4. CASE Ir(s, "libre") /\ UNCHANGED <<fe, pisado>>
    BY <1>f, <2>2, <2>4, IrNumerada
  <2>5. CASE Reponer(s, f, "firmar_borrar")
    <3>1. Sigue(sesion[s].paso, "firmar_borrar")
      BY DEF Sigue, DeXml, DeFirmar, DeEnviar, Consultando
    <3> HIDE DEF f, l
    <3> QED
      BY <1>f, <2>1, <2>2, <2>3, <2>5, <3>1, GuardaNumerada
  <2> QED
    BY <1>5, <2>4, <2>5 DEF EventoFirma
<1>6. CASE FallarFirma(s) \/ BorrarFirma(s)
  <2>1. Limpio => Valido(xml', Cerrados) /\ Valido(firma', Cerrados)
    BY <1>6, <1>f, <1>n DEF FallarFirma, BorrarFirma, DejarFirma
  <2> QED
    BY <1>6, <2>1, IrNumerada DEF FallarFirma, BorrarFirma, DejarFirma
<1> QED
  BY <1>1, <1>2, <1>3, <1>4, <1>5, <1>6 DEF Firmar

(* SET receives a document nobody lost count of.                           *)
LEMMA LotesValidos ==
  ASSUME TipoReal, Numerada, NEW c,
         lotes' = lotes \/ lotes' = Append(lotes, [cdc |-> c, res |-> "pendiente"]),
         Limpio => c # Nada /\ Valido(c, Cerrados)
  PROVE  /\ Rechazados \subseteq Rechazados' /\ Cerrados \subseteq Cerrados'
         /\ Limpio => \A i \in 1..Len(lotes') :
                         lotes'[i].cdc # Nada /\ Valido(lotes'[i].cdc, Cerrados)
<1>1. CASE lotes' = lotes
  BY <1>1 DEF Rechazados, Cerrados, Numerada
<1>2. CASE lotes' = Append(lotes, [cdc |-> c, res |-> "pendiente"])
  <2>1. /\ Len(lotes) \in Nat /\ Len(lotes') = Len(lotes) + 1
        /\ \A i \in 1..Len(lotes) : lotes'[i] = lotes[i]
        /\ lotes'[Len(lotes) + 1] = [cdc |-> c, res |-> "pendiente"]
    BY <1>2 DEF TipoReal
  <2>2. Rechazados \subseteq Rechazados'
    BY <2>1 DEF Rechazados
  <2>3. \A i \in Rechazados : i \in Rechazados' /\ lotes'[i] = lotes[i]
    BY <2>1, <2>2 DEF Rechazados
  <2>4. Cerrados \subseteq Cerrados'
    BY <2>3 DEF Cerrados
  <2>5. Limpio => \A i \in 1..Len(lotes') :
                     lotes'[i].cdc # Nada /\ Valido(lotes'[i].cdc, Cerrados)
    <3>1. \A i \in 1..Len(lotes') : i \in 1..Len(lotes) \/ i = Len(lotes) + 1
      BY <2>1
    <3> QED
      BY <2>1, <3>1 DEF Numerada
  <2> QED
    BY <2>2, <2>4, <2>5
<1> QED
  BY <1>1, <1>2

LEMMA NumeradaRecibir ==
  ASSUME TipoReal, Numerada, NEW s \in Sesiones, Recibir(s) \/ NoRecibir(s)
  PROVE  Numerada'
<1>z. sesion[s] \in Peticion
  BY EnMano
<1>1. /\ sesion[s].paso = "enviar_soap" /\ UNCHANGED <<fe, filas, xml, firma, pisado>>
      /\ \/ lotes' = lotes
         \/ lotes' = Append(lotes, [cdc |-> sesion[s].cdc, res |-> "pendiente"])
  BY DEF Recibir, NoRecibir, En
<1>f. Limpio => /\ Valido(xml, Cerrados) /\ Valido(firma, Cerrados)
                /\ Formada(sesion[s], fe, Rechazados, Cerrados)
  BY DEF Numerada
<1>2. Limpio => sesion[s].cdc # Nada /\ Valido(sesion[s].cdc, Cerrados)
  BY <1>1, <1>f DEF Formada
<1>3. /\ Rechazados \subseteq Rechazados' /\ Cerrados \subseteq Cerrados'
      /\ Limpio => \A i \in 1..Len(lotes') :
                      lotes'[i].cdc # Nada /\ Valido(lotes'[i].cdc, Cerrados)
  BY <1>1, <1>2, LotesValidos
<1>4. \E r : /\ sesion' = [sesion EXCEPT ![s] = r]
             /\ Nueva(r, fe)
             /\ Limpio => Formada(r, fe, Rechazados, Cerrados)
  <2>1. CASE Ir(s, "libre")
    BY <2>1, LibreFormada DEF Ir, Pasar
  <2>2. CASE ~ Ir(s, "libre")
    <3>1. PICK q \in {"encolado", "no_encolado"}, n \in {sesion[s].lote, Len(lotes) + 1} :
             sesion' = [sesion EXCEPT ![s] = [sesion[s] EXCEPT !.paso = "enviar_fila",
                                              !.resp = q, !.cdc = Nada, !.lote = n]]
      <4>1. CASE Recibir(s)
        BY <2>2, <4>1 DEF Recibir
      <4>2. CASE NoRecibir(s)
        <5>1. [sesion[s] EXCEPT !.paso = "enviar_fila", !.resp = "no_encolado", !.cdc = Nada]
              = [sesion[s] EXCEPT !.paso = "enviar_fila", !.resp = "no_encolado", !.cdc = Nada,
                                  !.lote = sesion[s].lote]
          BY <1>z DEF Peticion
        <5>2. sesion' = [sesion EXCEPT ![s] = [sesion[s] EXCEPT !.paso = "enviar_fila",
                                               !.resp = "no_encolado", !.cdc = Nada]]
          BY <2>2, <4>2 DEF NoRecibir
        <5> QED
          BY <5>1, <5>2
      <4> QED
        BY <4>1, <4>2
    <3> DEFINE r == [sesion[s] EXCEPT !.paso = "enviar_fila", !.resp = q, !.cdc = Nada, !.lote = n]
    <3>2. /\ r.paso = "enviar_fila" /\ r.leida = sesion[s].leida /\ r.vieja = sesion[s].vieja
          /\ r.resp # "rechazado" /\ r.cdc = Nada
      BY <1>z DEF Peticion
    <3>3. sesion' = [sesion EXCEPT ![s] = r]
      BY <3>1
    <3> HIDE DEF r
    <3>4. Sigue(sesion[s].paso, r.paso)
      BY <1>1, <3>2 DEF Sigue, DeXml, DeFirmar, DeEnviar, Consultando
    <3>5. Nueva(r, fe)
      BY <3>4, NuevaSigue
    <3>6. Valido(r.cdc, Cerrados)
      BY <3>2 DEF Valido
    <3>7. Limpio => Formada(r, fe, Rechazados, Cerrados)
      BY <1>f, <3>2, <3>4, <3>6, FormadaSigue
    <3> QED
      BY <3>3, <3>5, <3>7
  <2> QED
    BY <2>1, <2>2
<1>5. PICK r : /\ sesion' = [sesion EXCEPT ![s] = r]
               /\ Nueva(r, fe)
               /\ Limpio => Formada(r, fe, Rechazados, Cerrados)
  BY <1>4
<1>6. \A t \in Sesiones : sesion'[t] = IF t = s THEN r ELSE sesion[t]
  BY <1>5 DEF TipoReal
<1>7. \A t \in Sesiones : Nueva(sesion'[t], fe)
  BY <1>5, <1>6 DEF Numerada
<1>8. Limpio => \A t \in Sesiones : Formada(sesion'[t], fe, Rechazados, Cerrados)
  BY <1>5, <1>6 DEF Numerada
<1> QED
  BY <1>1, <1>3, <1>7, <1>8, <1>f, SinTocarFila

LEMMA NumeradaEnviar ==
  ASSUME TipoReal, Numerada, NEW s \in Sesiones, Enviar(s)
  PROVE  Numerada'
<1>f. Limpio => /\ Valido(xml, Cerrados) /\ Valido(firma, Cerrados)
                /\ Formada(sesion[s], fe, Rechazados, Cerrados) /\ Fundado(fe.seq, Cerrados)
  BY DEF Numerada
<1>1. CASE LeerEnviar(s)
  <2> DEFINE f == [SinFila EXCEPT !.estado = "firmado", !.firmado = TRUE, !.prot = fe.prot]
  <2>1. f.estado = "firmado"
    BY DEF SinFila
  <2>2. Leer(s, "enviar_bajar", f)
    BY <1>1 DEF LeerEnviar
  <2>3. "enviar_bajar" \notin DeXml \cup Consultando \cup DeFirmar
    BY DEF DeXml, Consultando, DeFirmar
  <2> HIDE DEF f
  <2> QED
    BY <2>1, <2>2, <2>3, LeeNumerada
<1>2. CASE BajarFirma(s)
  <2> DEFINE r == [sesion[s] EXCEPT !.paso = "enviar_soap", !.cdc = firma]
  <2>1. /\ r.paso = "enviar_soap" /\ r.leida = sesion[s].leida /\ r.vieja = sesion[s].vieja
        /\ r.resp = sesion[s].resp /\ r.cdc = firma
    BY EnMano DEF Peticion
  <2>2. /\ sesion' = [sesion EXCEPT ![s] = r] /\ firma # Nada
        /\ UNCHANGED <<fe, filas, xml, firma, lotes, pisado>>
        /\ sesion[s].paso = "enviar_bajar"
    BY <1>2 DEF BajarFirma, En
  <2> HIDE DEF r
  <2>3. Nueva(r, fe)
    BY <2>1 DEF Nueva
  <2>4. Limpio => Formada(r, fe, Rechazados, Cerrados)
    BY <1>f, <2>1, <2>2 DEF Formada, DeXml, DeFirmar, DeEnviar, Consultando
  <2> QED
    BY <1>f, <2>2, <2>3, <2>4, MueveNumerada
<1>3. CASE Recibir(s) \/ NoRecibir(s)
  BY <1>3, NumeradaRecibir
<1>4. CASE GuardarEnvio(s)
  <2> DEFINE f == [fe EXCEPT !.estado = IF sesion[s].resp = "encolado"
                                        THEN "enviado" ELSE "error_envio",
                             !.prot = sesion[s].lote]
  <2>1. f.estado \in {"enviado", "error_envio"} /\ f.seq = fe.seq /\ f.salto = fe.salto
    BY EnMano DEF FilaReal
  <2>2. Guardar(s, f, "enviar_evento") /\ ~ En(s, "libre")
        /\ UNCHANGED <<filas, xml, firma, lotes>>
    BY <1>4 DEF GuardarEnvio, En
  <2>3. Sigue(sesion[s].paso, "enviar_evento") /\ "enviar_evento" \notin DeFirmar
    BY <1>4 DEF GuardarEnvio, En, Sigue, DeXml, DeFirmar, DeEnviar, Consultando
  <2> HIDE DEF f
  <2> QED
    BY <1>f, <2>1, <2>2, <2>3, GuardaNumerada
<1>5. CASE EventoEnvio(s)
  <2> DEFINE f == [fe EXCEPT !.estado = sesion[s].leida.estado,
                             !.prot = sesion[s].leida.prot]
  <2>1. f.estado = sesion[s].leida.estado /\ f.seq = fe.seq /\ f.salto = fe.salto
    BY EnMano DEF FilaReal
  <2>2. /\ ~ En(s, "libre") /\ UNCHANGED <<filas, xml, firma, lotes>>
        /\ sesion[s].paso \in DeEnviar /\ "libre" \notin DeFirmar
    BY <1>5 DEF EventoEnvio, En, DeEnviar, DeFirmar
  <2>3. Limpio => f.estado = "firmado"
    BY <1>f, <2>1, <2>2 DEF Formada
  <2>4. (Ir(s, "libre") /\ UNCHANGED <<fe, pisado>>) \/ Reponer(s, f, "libre")
    BY <1>5 DEF EventoEnvio
  <2> HIDE DEF f
  <2> QED
    BY <1>f, <2>1, <2>2, <2>3, <2>4, GuardaNumerada
<1> QED
  BY <1>1, <1>2, <1>3, <1>4, <1>5 DEF Enviar

(* A query shows a rejection only when SET gave it, of the lot it asked    *)
(* for, which is the lot of the row while nobody else wrote it.            *)
LEMMA NumeradaConsulta ==
  ASSUME InvNumeros, NEW s \in Sesiones, Consulta(s)
  PROVE  Numerada'
<1>t. TipoReal /\ Numerada /\ Coherente(sesion[s], fe, Aprobados, pisado)
  BY DEF InvNumeros, InvAprobado
<1>z. sesion[s] \in Peticion
  BY <1>t, EnMano
<1>f. Limpio => /\ Valido(xml, Cerrados) /\ Valido(firma, Cerrados)
                /\ Formada(sesion[s], fe, Rechazados, Cerrados) /\ Fundado(fe.seq, Cerrados)
  BY <1>t DEF Numerada
<1>1. CASE LeerConsulta(s)
  <2> DEFINE f == [SinFila EXCEPT !.estado = fe.estado, !.prot = fe.prot,
                                  !.aprobada = fe.aprobada]
  <2>1. f.estado = fe.estado /\ f.prot = fe.prot
    BY DEF SinFila
  <2>2. Leer(s, "consulta_soap", f)
    BY <1>1 DEF LeerConsulta
  <2>3. "consulta_soap" \notin DeXml \cup DeFirmar \cup DeEnviar
    BY DEF DeXml, DeFirmar, DeEnviar
  <2> HIDE DEF f
  <2> QED
    BY <1>t, <2>1, <2>2, <2>3, LeeNumerada
<1>2. CASE Consultar(s)
  <2>1. CASE Ir(s, "libre")
    BY <1>2, <1>f, <1>t, <2>1, IrNumerada DEF Consultar
  <2>2. CASE ~ Ir(s, "libre")
    <3>1. PICK q \in {"nada", Inferir(sesion[s].leida, lotes[sesion[s].leida.prot].res)} :
             sesion' = [sesion EXCEPT ![s].paso = "consulta_fila", ![s].resp = q]
      BY <1>2, <2>2 DEF Consultar
    <3> DEFINE r == [sesion[s] EXCEPT !.paso = "consulta_fila", !.resp = q]
    <3>2. sesion' = [sesion EXCEPT ![s] = r]
      BY <3>1
    <3>3. r.paso = "consulta_fila" /\ r.leida = sesion[s].leida /\ r.vieja = sesion[s].vieja
          /\ r.resp = q /\ r.cdc = sesion[s].cdc
      BY <1>z DEF Peticion
    <3>4. /\ q # "nada" => q = lotes[sesion[s].leida.prot].res
          /\ sesion[s].leida.prot \in 1..Len(lotes)
      BY <1>2, <1>t, InferirTipo DEF Consultar
    <3>5. q = "rechazado" => sesion[s].leida.prot \in Rechazados
      BY <3>4 DEF Rechazados
    <3>6. sesion[s].paso = "consulta_soap"
      BY <1>2 DEF Consultar, En
    <3> HIDE DEF r
    <3>7. Nueva(r, fe)
      BY <3>3 DEF Nueva
    <3>8. Limpio => Formada(r, fe, Rechazados, Cerrados)
      BY <1>f, <3>3, <3>5, <3>6 DEF Formada, DeXml, DeFirmar, DeEnviar, Consultando
    <3> QED
      BY <1>2, <1>f, <1>t, <3>2, <3>7, <3>8, MueveNumerada DEF Consultar
  <2> QED
    BY <2>1, <2>2
<1>3. CASE GuardarConsulta(s)
  <2> DEFINE q == sesion[s].resp
             f == [fe EXCEPT !.estado = IF q = "nada" THEN sesion[s].leida.estado ELSE q,
                             !.aprobada = @ \/ q = "aprobado"]
  <2>1. /\ f.estado = IF q = "nada" THEN sesion[s].leida.estado ELSE q
        /\ f.prot = fe.prot /\ f.seq = fe.seq /\ f.salto = fe.salto
    BY <1>t, EnMano DEF FilaReal
  <2>2. /\ sesion[s].paso = "consulta_fila" /\ ~ En(s, "libre")
        /\ UNCHANGED <<filas, xml, firma, lotes>>
        /\ Guardar(s, f, "consulta_evento")
    BY <1>3 DEF GuardarConsulta, En
  <2>3. Sigue(sesion[s].paso, "consulta_evento") /\ "consulta_evento" \notin DeFirmar
    BY <2>2 DEF Sigue, DeXml, DeFirmar, DeEnviar, Consultando
  <2> HIDE DEF f
  <2>4. ~ sesion[s].vieja => fe.prot = sesion[s].leida.prot
    BY <1>t, <2>2 DEF Coherente, Mirada, Consultando
  <2>5. Limpio /\ ~ sesion[s].vieja => (f.estado = "rechazado" => f.prot \in Rechazados)
    BY <1>f, <2>1, <2>2, <2>4 DEF Formada, Consultando
  <2> QED
    BY <1>f, <1>t, <2>1, <2>2, <2>3, <2>5, GuardaNumerada
<1>4. CASE EventoConsulta(s)
  <2> DEFINE l == sesion[s].leida
             f == [fe EXCEPT !.estado = l.estado,
                             !.aprobada = IF sesion[s].resp = "aprobado"
                                          THEN l.aprobada ELSE @]
  <2>1. f.estado = l.estado /\ f.prot = fe.prot /\ f.seq = fe.seq /\ f.salto = fe.salto
    BY <1>t, EnMano DEF FilaReal
  <2>2. /\ sesion[s].paso = "consulta_evento" /\ ~ En(s, "libre")
        /\ UNCHANGED <<filas, xml, firma, lotes>> /\ "libre" \notin DeFirmar
    BY <1>4 DEF EventoConsulta, En, DeFirmar
  <2>3. (Ir(s, "libre") /\ UNCHANGED <<fe, pisado>>) \/ Reponer(s, f, "libre")
    BY <1>4 DEF EventoConsulta
  <2> HIDE DEF f
  <2>4. ~ sesion[s].vieja => fe.prot = l.prot
    BY <1>t, <2>2 DEF Coherente, Mirada, Consultando
  <2>5. Limpio /\ ~ sesion[s].vieja => (f.estado = "rechazado" => f.prot \in Rechazados)
    BY <1>f, <2>1, <2>2, <2>4 DEF Formada, Consultando
  <2> QED
    BY <1>f, <1>t, <2>1, <2>2, <2>3, <2>5, GuardaNumerada
<1> QED
  BY <1>1, <1>2, <1>3, <1>4 DEF Consulta

LEMMA NumeradaDictaminar ==
  ASSUME TipoReal, Numerada, NEW i \in 1..Len(lotes), Dictaminar(i)
  PROVE  Numerada'
<1>1. PICK r \in {"aprobado", "rechazado"} : lotes' = [lotes EXCEPT ![i].res = r]
  BY DEF Dictaminar
<1>2. /\ Len(lotes') = Len(lotes)
      /\ \A j \in 1..Len(lotes) : lotes'[j].cdc = lotes[j].cdc
      /\ \A j \in 1..Len(lotes) : j # i => lotes'[j] = lotes[j]
  <2>1. lotes \in Seq([cdc : Cdcs, res : Resultados])
    BY DEF TipoReal
  <2> QED
    BY <1>1, <2>1
<1>3. lotes[i].res = "pendiente" /\ UNCHANGED <<fe, filas, xml, firma, sesion, pisado>>
  BY DEF Dictaminar
<1>4. Rechazados \subseteq Rechazados'
  BY <1>2, <1>3 DEF Rechazados
<1>5. \A j \in Rechazados : j \in Rechazados' /\ lotes'[j].cdc = lotes[j].cdc
  BY <1>2, <1>4 DEF Rechazados
<1>6. Cerrados \subseteq Cerrados'
  BY <1>5 DEF Cerrados
<1>7. Limpio => \A j \in 1..Len(lotes') : lotes'[j].cdc # Nada /\ Valido(lotes'[j].cdc, Cerrados)
  BY <1>2 DEF Numerada
<1>8. /\ \A t \in Sesiones : Nueva(sesion'[t], fe)
      /\ Limpio => \A t \in Sesiones : Formada(sesion'[t], fe, Rechazados, Cerrados)
      /\ Limpio => Valido(xml', Cerrados) /\ Valido(firma', Cerrados)
  BY <1>3 DEF Numerada
<1> QED
  BY <1>3, <1>4, <1>6, <1>7, <1>8, SinTocarFila

LEMMA NumeradaCancelar ==
  ASSUME InvNumeros, NEW s \in Sesiones, Cancelar(s)
  PROVE  Numerada'
<1>t. TipoReal /\ Numerada /\ Coherente(sesion[s], fe, Aprobados, pisado)
  BY DEF InvNumeros, InvAprobado
<1>p. Cancelando \cap (DeXml \cup DeFirmar \cup DeEnviar \cup Consultando
                       \cup {"borrador_evento", "enviar_soap", "libre"}) = {}
      /\ "libre" \notin DeFirmar
  BY DEF Cancelando, DeXml, DeFirmar, DeEnviar, Consultando
<1>s. \A p \in Cancelando : Sigue(sesion[s].paso, p)
  BY <1>p DEF Sigue
<1>f. Limpio => /\ Valido(xml, Cerrados) /\ Valido(firma, Cerrados) /\ Fundado(fe.seq, Cerrados)
  BY <1>t DEF Numerada
<1>c. {"cancelar_fila", "cancelar_evento", "cancelar_factura", "cancelar_deshacer"}
        \subseteq Cancelando
  BY DEF Cancelando
<1>1. CASE LeerCancelar(s)
  <2>1. Leer(s, "cancelar_fila", fe)
    BY <1>1 DEF LeerCancelar
  <2>2. "cancelar_fila" \notin {"borrador_evento", "enviar_soap"}
                               \cup DeXml \cup Consultando \cup DeFirmar \cup DeEnviar
    BY <1>c, <1>p
  <2> QED
    BY <1>t, <2>1, <2>2, LeeNumerada
<1>2. CASE CancelarFila(s)
  <2> DEFINE f == [fe EXCEPT !.estado = "cancelado", !.cancelada = TRUE]
  <2>1. f.estado = "cancelado" /\ f.prot = fe.prot /\ f.seq = fe.seq /\ f.salto = fe.salto
    BY <1>t, EnMano DEF FilaReal
  <2>2. Guardar(s, f, "cancelar_evento") /\ ~ En(s, "libre")
        /\ UNCHANGED <<filas, xml, firma, lotes>>
    BY <1>2 DEF CancelarFila, En
  <2> HIDE DEF f
  <2> QED
    BY <1>c, <1>f, <1>s, <1>t, <2>1, <2>2, GuardaNumerada
<1>3. CASE EventoCancelar(s) \/ AnularFactura(s)
  <2>1. PICK p \in {"libre"} \cup Cancelando : Ir(s, p)
    BY <1>3, <1>c DEF EventoCancelar, AnularFactura
  <2>2. UNCHANGED <<fe, filas, xml, firma, lotes, pisado>>
    BY <1>3 DEF EventoCancelar, AnularFactura
  <2> QED
    BY <1>f, <1>s, <1>t, <2>1, <2>2, IrNumerada
<1>4. CASE DeshacerCancelar(s)
  <2> DEFINE f == [fe EXCEPT !.estado = sesion[s].leida.estado,
                             !.cancelada = sesion[s].leida.cancelada]
  <2>1. f.estado = sesion[s].leida.estado /\ f.seq = fe.seq /\ f.salto = fe.salto
    BY <1>t, EnMano DEF FilaReal
  <2>2. /\ Reponer(s, f, "libre") /\ ~ En(s, "libre") /\ UNCHANGED <<filas, xml, firma, lotes>>
        /\ sesion[s].paso \in Cancelando
    BY <1>4, <1>c DEF DeshacerCancelar, En
  <2>3. f.estado # "rechazado"
    BY <1>t, <2>1, <2>2 DEF Coherente
  <2> HIDE DEF f
  <2> QED
    BY <1>f, <1>p, <1>t, <2>1, <2>2, <2>3, GuardaNumerada
<1> QED
  BY <1>1, <1>2, <1>3, <1>4 DEF Cancelar

LEMMA NumerosInicial == Init => InvNumeros
<1> SUFFICES ASSUME Init PROVE InvNumeros
  OBVIOUS
<1>1. InvAprobado
  BY AprobadoInicial
<1>2. fe.estado = "nada" /\ fe.seq = 0 /\ fe.salto = FALSE /\ xml = Nada /\ firma = Nada
      /\ Len(lotes) = 0 /\ \A s \in Sesiones : sesion[s] = Libre
  BY DEF Init, SinFila
<1>3. \A s \in Sesiones : /\ Nueva(sesion[s], fe)
                          /\ Formada(sesion[s], fe, Rechazados, Cerrados)
  BY <1>2, LibreFormada
<1>4. Fundado(fe.seq, Cerrados) /\ Valido(xml, Cerrados) /\ Valido(firma, Cerrados)
  BY <1>2 DEF Fundado, Valido
<1>5. \A i \in 1..Len(lotes) : lotes[i].cdc # Nada /\ Valido(lotes[i].cdc, Cerrados)
  BY <1>2
<1> QED
  BY <1>1, <1>2, <1>3, <1>4, <1>5 DEF InvNumeros, Numerada

LEMMA NumerosPaso == InvNumeros /\ [Next]_vars => InvNumeros'
<1> SUFFICES ASSUME InvNumeros, [Next]_vars PROVE InvNumeros'
  OBVIOUS
<1>0. InvAprobado' /\ TipoReal /\ Numerada
  BY AprobadoPaso DEF InvNumeros, InvAprobado
<1>f. Limpio => Valido(xml, Cerrados) /\ Valido(firma, Cerrados)
  BY <1>0 DEF Numerada
<1>1. CASE AnularPorBaja \/ PagarAnulada \/ UNCHANGED vars
  <2>1. UNCHANGED <<fe, filas, xml, firma, lotes, sesion, pisado>>
    BY <1>1, SoloFactura
  <2>2. Rechazados' = Rechazados /\ Cerrados' = Cerrados
    BY <2>1 DEF Rechazados, Cerrados
  <2>3. /\ \A t \in Sesiones : Nueva(sesion'[t], fe)
        /\ Limpio => \A t \in Sesiones : Formada(sesion'[t], fe, Rechazados, Cerrados)
        /\ Limpio => \A i \in 1..Len(lotes') :
                        lotes'[i].cdc # Nada /\ Valido(lotes'[i].cdc, Cerrados)
    BY <1>0, <2>1 DEF Numerada
  <2>4. Numerada'
    BY <1>0, <1>f, <2>1, <2>2, <2>3, SinTocarFila
  <2> QED
    BY <1>0, <2>4 DEF InvNumeros
<1>2. ASSUME NEW s \in Sesiones, Xml(s)
      PROVE  Numerada'
  BY <1>0, <1>2, NumeradaReserva, NumeradaXmlFichero, NumeradaXmlFila DEF Xml
<1>3. ASSUME NEW s \in Sesiones, Fallar(s) \/ Caer(s)
      PROVE  Numerada'
  BY <1>0, <1>3, <1>f, IrNumerada DEF Fallar, Caer
<1>4. ASSUME NEW s \in Sesiones, Borrador(s) \/ Firmar(s) \/ Enviar(s)
      PROVE  Numerada'
  BY <1>0, <1>4, NumeradaBorrador, NumeradaFirmar, NumeradaEnviar
<1>5. ASSUME NEW s \in Sesiones, Consulta(s) \/ Cancelar(s)
      PROVE  Numerada'
  BY <1>5, NumeradaConsulta, NumeradaCancelar
<1>6. ASSUME NEW i \in 1..Len(lotes), Dictaminar(i)
      PROVE  Numerada'
  BY <1>0, <1>6, NumeradaDictaminar
<1> QED
  BY <1>0, <1>1, <1>2, <1>3, <1>4, <1>5, <1>6 DEF Next, InvNumeros

(* While nobody writes over what it had not seen, the row is made once and *)
(* no number is skipped, every document made, signed or sent comes after   *)
(* rejections of those of all the numbers before its own.                  *)
THEOREM InvarianteDeNumeros == Spec => []InvNumeros
<1>1. Init => InvNumeros
  BY NumerosInicial
<1>2. InvNumeros /\ [Next]_vars => InvNumeros'
  BY NumerosPaso
<1> QED
  BY <1>1, <1>2, PTL DEF Spec

LEMMA NumerosBastan == InvNumeros => DosAprobadosPorReenvio
<1> SUFFICES ASSUME InvNumeros, NEW i \in Aprobados, NEW j \in Aprobados, i # j,
                    ~ pisado, ~ (filas > 1), ~ fe.salto
             PROVE  \E k, l \in 1..Len(lotes) : k # l /\ lotes[k].cdc = lotes[l].cdc
  BY DEF DosAprobadosPorReenvio
<1>0. TipoReal /\ Numerada
  BY DEF InvNumeros, InvAprobado
<1>1. Limpio
  BY <1>0 DEF Limpio, TipoReal
<1>2. ASSUME NEW k \in 1..Len(lotes)
      PROVE  /\ lotes[k].cdc = <<1, lotes[k].cdc[2]>> /\ lotes[k].cdc[2] \in 0..MaxSeq
             /\ Fundado(lotes[k].cdc[2], Cerrados)
  <2>1. lotes[k].cdc \in Cdcs
    <3>1. lotes \in Seq([cdc : Cdcs, res : Resultados])
      BY <1>0 DEF TipoReal
    <3>2. lotes[k] \in [cdc : Cdcs, res : Resultados]
      BY <3>1, ElementOfSeq
    <3> QED
      BY <3>2
  <2>2. lotes[k].cdc # Nada /\ Valido(lotes[k].cdc, Cerrados)
    BY <1>0, <1>1 DEF Numerada
  <2> QED
    BY <2>1, <2>2 DEF Cdcs, Valido
<1>3. ASSUME NEW k \in Aprobados, NEW l \in Aprobados, lotes[k].cdc[2] < lotes[l].cdc[2]
      PROVE  \E m \in 1..Len(lotes) : k # m /\ lotes[k].cdc = lotes[m].cdc
  <2>1. k \in 1..Len(lotes) /\ l \in 1..Len(lotes) /\ lotes[k].res = "aprobado"
    BY DEF Aprobados
  <2>2. lotes[k].cdc[2] \in 0..(lotes[l].cdc[2] - 1)
    BY <1>2, <1>3, <2>1, DocumentoAssumption
  <2>3. lotes[k].cdc[2] \in Cerrados
    BY <1>2, <2>1, <2>2 DEF Fundado
  <2>4. PICK m \in Rechazados : lotes[m].cdc[2] = lotes[k].cdc[2]
    BY <2>3 DEF Cerrados
  <2>5. m \in 1..Len(lotes) /\ lotes[m].res = "rechazado"
    BY DEF Rechazados
  <2>6. lotes[m].cdc = lotes[k].cdc
    BY <1>2, <2>1, <2>4, <2>5
  <2> QED
    BY <2>1, <2>5, <2>6
<1>4. i \in 1..Len(lotes) /\ j \in 1..Len(lotes)
  BY DEF Aprobados
<1>5. CASE lotes[i].cdc[2] = lotes[j].cdc[2]
  <2>1. lotes[i].cdc = lotes[j].cdc
    BY <1>2, <1>4, <1>5
  <2> QED
    BY <1>4, <2>1
<1>6. CASE lotes[i].cdc[2] < lotes[j].cdc[2] \/ lotes[j].cdc[2] < lotes[i].cdc[2]
  BY <1>3, <1>4, <1>6
<1>7. lotes[i].cdc[2] \in Int /\ lotes[j].cdc[2] \in Int
  BY <1>2, <1>4, DocumentoAssumption
<1> QED
  BY <1>5, <1>6, <1>7

(* Two approved documents of one invoice: one of them was sent twice, or a *)
(* number was skipped, or the row was made twice, or a request wrote over  *)
(* a change it had not seen.                                               *)
THEOREM DosAprobadosSoloAsi == Spec => []DosAprobadosPorReenvio
BY InvarianteDeNumeros, NumerosBastan, PTL

=============================================================================
