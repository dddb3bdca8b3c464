------------------------ MODULE OrdenesCompraProofs -------------------------
(***************************************************************************)
(* Proofs about OrdenesCompra, for every set of orders, lines, products    *)
(* and receptions.                                                         *)
(***************************************************************************)
EXTENDS OrdenesCompra, SumasProofs

LEMMA ReposoTipo == EnReposo \in Recepcion
<1>1. (CHOOSE l \in Lineas : TRUE) \in Lineas
  BY OrdenesAssumption
<1>2. QED
  BY <1>1, OrdenesAssumption DEF EnReposo, Recepcion, Cero

LEMMA CeroTipo == Cero \in [Lineas -> Nat]
BY DEF Cero

LEMMA TipoInicial == Init => TypeOK
<1>1. rec = [r \in Recepciones |-> EnReposo] => rec \in [Recepciones -> Recepcion]
  BY ReposoTipo
<1>2. QED
  BY <1>1, CeroTipo, OrdenesAssumption DEF Init, TypeOK, EstadosOc

LEMMA SoltarTipo ==
    ASSUME TypeOK, NEW r \in Recepciones, NEW paso \in {"ok", "error"}
    PROVE  Soltar(r, paso) \in [Recepciones -> Recepcion]
<1>1. [EnReposo EXCEPT !.paso = paso] \in Recepcion
  BY ReposoTipo DEF Recepcion
<1>2. QED
  BY <1>1 DEF Soltar, TypeOK

(* What Bloquear has checked when it takes the lines of n.                 *)
Admitida(n, pedido, permiso, r) ==
    /\ \A l \in Filas(n) : Disponible(l, r) /\ estado[l] # "cancelada"
    /\ \E l \in Filas(n) : estado[l] # "recibida_total"
    /\ Acepta(pedido, permiso)
    /\ \A l \in Lineas : pedido[l] > 0 => l \in Filas(n)
    /\ \E l \in Lineas : pedido[l] > 0

LEMMA BloquearEfecto ==
    ASSUME NEW r \in Recepciones, Bloquear(r)
    PROVE  \E n \in {numero[o] : o \in Creadas}, pedido \in [Lineas -> 0..MaxAhora],
              permiso \in BOOLEAN, l \in Lineas :
              /\ rec' = [rec EXCEPT ![r] = Abierta(n, pedido, permiso, l)]
              /\ Admitida(n, pedido, permiso, r)
<1>1. PICK n \in {numero[o] : o \in Creadas}, permiso \in BOOLEAN :
          /\ \A l \in Filas(n) : Disponible(l, r) /\ estado[l] # "cancelada"
          /\ \E l \in Filas(n) : estado[l] # "recibida_total"
          /\ \E ahora \in [Filas(n) -> 0..MaxAhora] :
                LET pedido == [l \in Lineas |-> IF l \in Filas(n) THEN ahora[l] ELSE 0]
                IN  /\ Acepta(pedido, permiso)
                    /\ \E l \in {k \in Lineas : pedido[k] > 0} :
                          rec' = [rec EXCEPT ![r] = Abierta(n, pedido, permiso, l)]
  BY DEF Bloquear
<1>2. PICK ahora \in [Filas(n) -> 0..MaxAhora] :
          LET pedido == [l \in Lineas |-> IF l \in Filas(n) THEN ahora[l] ELSE 0]
          IN  /\ Acepta(pedido, permiso)
              /\ \E l \in {k \in Lineas : pedido[k] > 0} :
                    rec' = [rec EXCEPT ![r] = Abierta(n, pedido, permiso, l)]
  BY <1>1
<1> DEFINE pedido == [l \in Lineas |-> IF l \in Filas(n) THEN ahora[l] ELSE 0]
<1>3. pedido \in [Lineas -> 0..MaxAhora]
  BY OrdenesAssumption
<1>4. \A l \in Lineas : pedido[l] > 0 => l \in Filas(n)
  OBVIOUS
<1> HIDE DEF pedido
<1>5. PICK l \in Lineas : pedido[l] > 0
                        /\ rec' = [rec EXCEPT ![r] = Abierta(n, pedido, permiso, l)]
  BY <1>2 DEF pedido
<1>6. Acepta(pedido, permiso)
  BY <1>2 DEF pedido
<1>7. Admitida(n, pedido, permiso, r)
  BY <1>1, <1>4, <1>5, <1>6 DEF Admitida
<1>8. QED
  BY <1>3, <1>5, <1>7

LEMMA TipoPaso == TypeOK /\ [Next]_vars => TypeOK'
<1> SUFFICES ASSUME TypeOK, [Next]_vars PROVE TypeOK'
  OBVIOUS
<1> USE OrdenesAssumption
<1>1. ASSUME NEW o \in Ordenes, LeerMaximo(o) PROVE TypeOK'
  <2>1. PICK m \in {0} \cup {numero[u] : u \in Creadas} :
            numero' = [numero EXCEPT ![o] = m + 1]
    BY <1>1 DEF LeerMaximo
  <2>2. m \in Nat
    BY <2>1 DEF TypeOK, Creadas
  <2>3. QED
    BY <1>1, <2>1, <2>2 DEF LeerMaximo, TypeOK
<1>2. ASSUME NEW o \in Ordenes, InsertarOrden(o) PROVE TypeOK'
  BY <1>2 DEF InsertarOrden, TypeOK, EstadosOc
<1>3. ASSUME NEW n, Cancelar(n) PROVE TypeOK'
  BY <1>3 DEF Cancelar, TypeOK, EstadosOc
<1>4. ASSUME NEW r \in Recepciones, Bloquear(r) PROVE TypeOK'
  <2>1. PICK n \in {numero[o] : o \in Creadas}, pedido \in [Lineas -> 0..MaxAhora],
             permiso \in BOOLEAN, l \in Lineas :
           /\ rec' = [rec EXCEPT ![r] = Abierta(n, pedido, permiso, l)]
           /\ Admitida(n, pedido, permiso, r)
    BY <1>4, BloquearEfecto
  <2>2. n \in Nat /\ Filas(n) \subseteq Lineas
    BY <2>1 DEF TypeOK, Creadas, Filas
  <2>3. Abierta(n, pedido, permiso, l) \in Recepcion
    BY <2>2, ReposoTipo DEF Abierta, Recepcion, EnCurso
  <2>4. rec' \in [Recepciones -> Recepcion]
    BY <2>1, <2>3 DEF TypeOK
  <2>5. QED
    BY <1>4, <2>4 DEF Bloquear, TypeOK
<1>5. ASSUME NEW r \in Recepciones, ComprarRenglon(r) PROVE TypeOK'
  <2>1. rec[r] \in Recepcion
    BY DEF TypeOK
  <2> DEFINE l == rec[r].sig
             p == Producto[l]
             base == IF p \in rec[r].productos THEN rec[r].nuevo[p] ELSE stock[p]
             quedan == rec[r].pend \ {l}
             x == base + rec[r].ahora[l]
  <2>2. l \in Lineas /\ p \in Productos /\ quedan \subseteq Lineas /\ x \in Int
    BY <2>1 DEF TypeOK, Recepcion
  <2>3. PICK s \in IF quedan = {} THEN {l} ELSE quedan :
           rec' = [rec EXCEPT ![r] = [rec[r] EXCEPT !.pend = quedan, !.sig = s,
                                          !.productos = @ \cup {p}, !.nuevo[p] = x]]
    BY <1>5 DEF ComprarRenglon
  <2> HIDE DEF p, l, base, quedan, x
  <2>4. s \in Lineas
    BY <2>2
  <2>5. [rec[r] EXCEPT !.pend = quedan, !.sig = s,
                       !.productos = @ \cup {p}, !.nuevo[p] = x] \in Recepcion
    BY <2>1, <2>2, <2>4 DEF Recepcion
  <2>6. rec' \in [Recepciones -> Recepcion]
    <3> DEFINE t == [rec[r] EXCEPT !.pend = quedan, !.sig = s,
                                   !.productos = @ \cup {p}, !.nuevo[p] = x]
    <3>1. t \in Recepcion /\ rec' = [rec EXCEPT ![r] = t]
      BY <2>3, <2>5
    <3> HIDE DEF t
    <3>2. QED
      BY <3>1 DEF TypeOK
  <2>7. QED
    BY <1>5, <2>6 DEF ComprarRenglon, TypeOK
<1>6. ASSUME NEW r \in Recepciones, Calcular(r) PROVE TypeOK'
  <2>1. rec[r] \in Recepcion
    BY DEF TypeOK
  <2>2. rec'[r] \in Recepcion
    BY <1>6, <2>1 DEF Calcular, TypeOK, Recepcion, EnCurso
  <2>3. rec' \in [Recepciones -> Recepcion]
    BY <1>6, <2>2 DEF Calcular, TypeOK
  <2>4. QED
    BY <1>6, <2>3 DEF Calcular, TypeOK
<1>7. ASSUME NEW r \in Recepciones, Confirmar(r) PROVE TypeOK'
  <2>1. rec' \in [Recepciones -> Recepcion]
    BY <1>7, SoltarTipo DEF Confirmar
  <2>2. rec[r] \in Recepcion
    BY DEF TypeOK
  <2>3. QED
    BY <1>7, <2>1, <2>2 DEF Confirmar, TypeOK, Recepcion, EstadosOc
<1>8. ASSUME NEW r \in Recepciones, Abortar(r) PROVE TypeOK'
  <2>1. rec' \in [Recepciones -> Recepcion]
    BY <1>8, SoltarTipo DEF Abortar
  <2>2. QED
    BY <1>8, <2>1 DEF Abortar, TypeOK
<1>9. CASE UNCHANGED vars
  BY <1>9 DEF vars, TypeOK
<1>10. QED
  BY <1>1, <1>2, <1>3, <1>4, <1>5, <1>6, <1>7, <1>8, <1>9 DEF Next, Paso

(* Orders, stock and transactions keep their types.                        *)
THEOREM TipoCorrecto == Spec => []TypeOK
<1>1. QED
  BY TipoInicial, TipoPaso, PTL DEF Spec

-----------------------------------------------------------------------------
(* The inductive invariant, one lemma per action.                          *)

LEMMA InvInicial == Init => InvOrdenes
<1> SUFFICES ASSUME Init PROVE InvOrdenes
  OBVIOUS
<1>1. LineasDeOrden
  BY OrdenesAssumption DEF Init, LineasDeOrden, Cero
<1>2. Transacciones
  BY DEF Init, Transacciones, EnReposo, EnCurso
<1>3. SinExcesoSinPermiso /\ EstadoRefleja
  BY OrdenesAssumption DEF Init, SinExcesoSinPermiso, EstadoRefleja, Creadas, Cero
<1>4. QED
  BY <1>1, <1>2, <1>3 DEF InvOrdenes

LEMMA InvLeerMaximo ==
    ASSUME TypeOK, InvOrdenes, NEW o \in Ordenes, LeerMaximo(o)
    PROVE  InvOrdenes'
<1> USE OrdenesAssumption
<1>1. /\ Creadas' = Creadas /\ o \notin Creadas
      /\ \A u \in Creadas : numero'[u] = numero[u]
      /\ UNCHANGED <<estado, recibida, rec, autorizadas>>
      /\ \A u \in Ordenes : alta'[u] = "fin" <=> alta[u] = "fin"
  BY DEF LeerMaximo, Creadas, TypeOK
<1>2. \A n : Filas(n)' = Filas(n)
  <2>1. \A l \in Lineas : estado[l] # "nada" => OrdenDe[l] \in Creadas
    BY DEF InvOrdenes, LineasDeOrden, Creadas
  <2>2. QED
    BY <1>1, <2>1 DEF Filas
<1>3. \A u \in Creadas : Compartido(u)' <=> Compartido(u)
  BY <1>1 DEF Compartido, Creadas
<1>4. LineasDeOrden'
  BY <1>1 DEF InvOrdenes, LineasDeOrden
<1>5. Transacciones'
  BY <1>1, <1>2, <1>3 DEF InvOrdenes, Transacciones, TomaDeFilas, LoLeidoVale, LineasDe
<1>6. SinExcesoSinPermiso' /\ EstadoRefleja'
  BY <1>1, <1>3 DEF InvOrdenes, SinExcesoSinPermiso, EstadoRefleja, LineasDe
<1>7. QED
  BY <1>4, <1>5, <1>6 DEF InvOrdenes

LEMMA InvInsertarOrden ==
    ASSUME TypeOK, InvOrdenes, NEW o \in Ordenes, InsertarOrden(o)
    PROVE  InvOrdenes'
<1> USE OrdenesAssumption
<1>1. /\ Creadas' = Creadas \cup {o} /\ o \notin Creadas
      /\ UNCHANGED <<numero, recibida, rec, autorizadas>>
      /\ \A u \in Ordenes : alta'[u] = "fin" <=> alta[u] = "fin" \/ u = o
      /\ \A l \in Lineas : estado'[l] = IF OrdenDe[l] = o THEN "pendiente" ELSE estado[l]
  BY DEF InsertarOrden, Creadas, TypeOK
<1>2. \A l \in LineasDe(o) : estado[l] = "nada" /\ recibida[l] = 0
  BY <1>1 DEF InvOrdenes, LineasDeOrden, LineasDe, Creadas
<1>3. \A n : /\ Filas(n) \subseteq Filas(n)'
             /\ \A l \in Filas(n) : estado'[l] = estado[l] /\ OrdenDe[l] \in Creadas
  BY <1>1, <1>2 DEF Filas, LineasDe, InvOrdenes, LineasDeOrden, Creadas
<1>4. \A u \in Creadas : ~Compartido(u)' => ~Compartido(u)
  BY <1>1 DEF Compartido, Creadas
<1>5. LineasDeOrden'
  BY <1>1, <1>2 DEF InvOrdenes, LineasDeOrden, LineasDe
<1>6. Transacciones'
  <2>1. ASSUME NEW r \in Recepciones, rec[r].paso \in EnCurso
        PROVE  TomaDeFilas(rec[r])' /\ LoLeidoVale(rec[r])'
    <3>1. TomaDeFilas(rec[r]) /\ LoLeidoVale(rec[r])
      BY <2>1 DEF InvOrdenes, Transacciones
    <3>2. TomaDeFilas(rec[r])'
      BY <1>1, <1>3, <3>1 DEF TomaDeFilas, LineasDe
    <3>3. \E u \in Creadas : numero[u] = rec[r].n
      BY <1>3, <3>1 DEF TomaDeFilas, Filas
    <3>4. numero[o] = rec[r].n => Compartido(o)'
      BY <1>1, <3>3 DEF Compartido, Creadas
    <3>5. LoLeidoVale(rec[r])'
      BY <1>1, <1>3, <1>4, <3>1, <3>4 DEF LoLeidoVale, TomaDeFilas, LineasDe
    <3>6. QED
      BY <3>2, <3>5
  <2>2. QED
    BY <1>1, <2>1 DEF InvOrdenes, Transacciones
<1>7. SinExcesoSinPermiso'
  BY <1>1 DEF InvOrdenes, SinExcesoSinPermiso
<1>8. EstadoRefleja'
  BY <1>1, <1>2, <1>4 DEF InvOrdenes, EstadoRefleja, LineasDe
<1>9. QED
  BY <1>5, <1>6, <1>7, <1>8 DEF InvOrdenes

LEMMA InvCancelar ==
    ASSUME TypeOK, InvOrdenes, NEW n, Cancelar(n)
    PROVE  InvOrdenes'
<1> USE OrdenesAssumption
<1> DEFINE abiertas == {l \in Filas(n) : estado[l] = "pendiente"}
<1>1. /\ UNCHANGED <<alta, numero, recibida, rec, autorizadas>>
      /\ \A l \in Lineas : estado'[l] = IF l \in abiertas THEN "cancelada" ELSE estado[l]
      /\ \A r \in Recepciones : rec[r].lineas \cap abiertas = {}
  BY DEF Cancelar
<1>2. \A k : Filas(k)' = Filas(k)
  BY <1>1 DEF Filas
<1>3. Creadas' = Creadas /\ \A u \in Creadas : Compartido(u)' <=> Compartido(u)
  BY <1>1 DEF Creadas, Compartido
<1>4. \A l, m \in Lineas : OrdenDe[l] = OrdenDe[m] => (l \in abiertas <=> m \in abiertas)
  BY DEF Filas, InvOrdenes, LineasDeOrden
<1>5. LineasDeOrden'
  BY <1>1, <1>4 DEF InvOrdenes, LineasDeOrden, Filas
<1>6. Transacciones'
  <2>1. ASSUME NEW r \in Recepciones, rec[r].paso \in EnCurso
        PROVE  TomaDeFilas(rec[r])' /\ LoLeidoVale(rec[r])'
    <3>1. TomaDeFilas(rec[r]) /\ LoLeidoVale(rec[r])
      BY <2>1 DEF InvOrdenes, Transacciones
    <3>2. \A l \in rec[r].lineas : l \in Lineas /\ estado'[l] = estado[l]
      BY <1>1, <3>1 DEF TomaDeFilas, Filas
    <3>3. TomaDeFilas(rec[r])'
      BY <1>1, <1>2, <3>1 DEF TomaDeFilas, LineasDe
    <3>4. LoLeidoVale(rec[r])'
      BY <1>1, <1>3, <3>1, <3>2 DEF LoLeidoVale, LineasDe
    <3>5. QED
      BY <3>3, <3>4
  <2>2. QED
    BY <1>1, <2>1 DEF InvOrdenes, Transacciones
<1>7. SinExcesoSinPermiso'
  BY <1>1 DEF InvOrdenes, SinExcesoSinPermiso
<1>8. EstadoRefleja'
  <2>1. \A l \in abiertas : recibida[l] = 0
    BY DEF InvOrdenes, LineasDeOrden, Filas
  <2>2. QED
    BY <1>1, <1>3, <1>4, <2>1 DEF InvOrdenes, EstadoRefleja, LineasDe, TypeOK
<1>9. QED
  BY <1>5, <1>6, <1>7, <1>8 DEF InvOrdenes

(* A step that only changes what the transactions keep.                    *)
LEMMA SoloTransacciones ==
    ASSUME InvOrdenes, UNCHANGED <<alta, numero, estado, recibida, autorizadas>>,
           Transacciones'
    PROVE  InvOrdenes'
<1>1. LineasDeOrden'
  BY DEF InvOrdenes, LineasDeOrden
<1>2. SinExcesoSinPermiso'
  BY DEF InvOrdenes, SinExcesoSinPermiso
<1>3. EstadoRefleja'
  BY DEF InvOrdenes, EstadoRefleja, Creadas, Compartido, LineasDe
<1>4. QED
  BY <1>1, <1>2, <1>3 DEF InvOrdenes

(* A transaction keeps no line of another one.                             *)
LEMMA InvBloquear ==
    ASSUME TypeOK, InvOrdenes, NEW r \in Recepciones, Bloquear(r)
    PROVE  InvOrdenes'
<1> USE OrdenesAssumption
<1>1. PICK n \in {numero[o] : o \in Creadas}, pedido \in [Lineas -> 0..MaxAhora],
           permiso \in BOOLEAN, k \in Lineas :
         /\ rec' = [rec EXCEPT ![r] = Abierta(n, pedido, permiso, k)]
         /\ Admitida(n, pedido, permiso, r)
  BY BloquearEfecto
<1> DEFINE t == Abierta(n, pedido, permiso, k)
<1>2. UNCHANGED <<alta, numero, estado, recibida, autorizadas>>
  BY DEF Bloquear
<1>3. /\ t.paso = "comprar" /\ t.n = n /\ t.ahora = pedido
      /\ t.permiso = permiso /\ t.lineas = Filas(n)
  BY DEF Abierta, EnReposo
<1>4. rec'[r] = t /\ \A s \in Recepciones \ {r} : rec'[s] = rec[s]
  BY <1>1 DEF TypeOK
<1> HIDE DEF t
<1>5. TomaDeFilas(t)
  <2>1. \A l \in Filas(n) : LineasDe(OrdenDe[l]) \subseteq Filas(n)
    BY DEF Filas, LineasDe, InvOrdenes, LineasDeOrden
  <2>2. QED
    BY <1>1, <1>3, <2>1 DEF TomaDeFilas, Admitida
<1>6. LoLeidoVale(t)
  <2>1. permiso \/ \A l \in Filas(n) : pedido[l] > 0 => recibida[l] + pedido[l] <= Pedida[l]
    <3>1. \A l \in Lineas : recibida[l] \in Nat /\ Pedida[l] \in Nat /\ pedido[l] \in Nat
      BY DEF TypeOK
    <3>2. \A l \in Filas(n) : l \in Lineas
      BY DEF Filas
    <3>3. permiso \/ \A l \in Lineas : pedido[l] <= Max0(Pedida[l] - recibida[l])
      BY <1>1 DEF Admitida, Acepta
    <3>4. QED
      BY <3>1, <3>2, <3>3 DEF Max0
  <2>2. QED
    BY <1>1, <1>3, <2>1 DEF LoLeidoVale, Admitida
<1>7. \A s \in Recepciones \ {r} : rec[s].paso \in EnCurso => rec[s].n # n
  <2> SUFFICES ASSUME NEW s \in Recepciones \ {r}, rec[s].paso \in EnCurso, rec[s].n = n
               PROVE  FALSE
    OBVIOUS
  <2>1. PICK l \in rec[s].lineas : l \in Filas(n)
    BY DEF InvOrdenes, Transacciones, TomaDeFilas
  <2>2. l \in BloqueadasPorOtra(r)
    BY <2>1 DEF BloqueadasPorOtra
  <2>3. QED
    BY <1>1, <2>1, <2>2 DEF Admitida, Disponible
<1>8. Transacciones'
  BY <1>2, <1>3, <1>4, <1>5, <1>6, <1>7 DEF InvOrdenes, Transacciones, TomaDeFilas,
     LoLeidoVale, Filas, Creadas, Compartido, LineasDe, EnCurso
<1>9. QED
  BY <1>2, <1>8, SoloTransacciones

(* Buying an item changes nothing of what a transaction read or holds.     *)
LEMMA InvComprarRenglon ==
    ASSUME TypeOK, InvOrdenes, NEW r \in Recepciones, ComprarRenglon(r)
    PROVE  InvOrdenes'
<1>1. UNCHANGED <<alta, numero, estado, recibida, autorizadas>>
  BY DEF ComprarRenglon
<1>2. /\ \A s \in Recepciones \ {r} : rec'[s] = rec[s]
      /\ rec[r].paso = "comprar" /\ rec'[r].paso = "comprar"
      /\ rec'[r].n = rec[r].n /\ rec'[r].ahora = rec[r].ahora
      /\ rec'[r].permiso = rec[r].permiso /\ rec'[r].lineas = rec[r].lineas
  BY DEF ComprarRenglon, TypeOK, Recepcion
<1>3. Transacciones'
  BY <1>1, <1>2 DEF InvOrdenes, Transacciones, TomaDeFilas, LoLeidoVale, Filas, Creadas,
     Compartido, LineasDe, EnCurso
<1>4. QED
  BY <1>1, <1>3, SoloTransacciones

LEMMA InvCalcular ==
    ASSUME TypeOK, InvOrdenes, NEW r \in Recepciones, Calcular(r)
    PROVE  InvOrdenes'
<1> USE OrdenesAssumption
<1>1. UNCHANGED <<alta, numero, estado, recibida, autorizadas>>
  BY DEF Calcular
<1>2. /\ \A s \in Recepciones \ {r} : rec'[s] = rec[s]
      /\ rec[r].paso = "comprar" /\ rec'[r].paso = "confirmar"
      /\ rec'[r].n = rec[r].n /\ rec'[r].ahora = rec[r].ahora
      /\ rec'[r].permiso = rec[r].permiso /\ rec'[r].lineas = rec[r].lineas
      /\ rec'[r].completa = \A l \in Filas(rec[r].n) :
                                recibida[l] + rec[r].ahora[l] >= Pedida[l]
  BY DEF Calcular, TypeOK, Recepcion
<1>3. \A o \in Creadas : numero[o] = rec[r].n /\ ~Compartido(o) =>
         LineasDe(o) = Filas(rec[r].n)
  BY DEF Creadas, Compartido, LineasDe, Filas, InvOrdenes, LineasDeOrden
<1>4. \A o \in Creadas : numero[o] = rec[r].n /\ ~Compartido(o) =>
         (rec'[r].completa <=>
            \A l \in LineasDe(o) : recibida[l] + rec[r].ahora[l] >= Pedida[l])
  BY <1>2, <1>3
<1>5. Creadas' = Creadas /\ (\A k : Filas(k)' = Filas(k))
      /\ \A u \in Creadas : Compartido(u)' <=> Compartido(u)
  BY <1>1 DEF Creadas, Filas, Compartido
<1>6. TomaDeFilas(rec[r]) /\ LoLeidoVale(rec[r])
  BY <1>2 DEF InvOrdenes, Transacciones, EnCurso
<1>7. TomaDeFilas(rec[r])' /\ LoLeidoVale(rec[r])'
  BY <1>1, <1>2, <1>4, <1>5, <1>6 DEF TomaDeFilas, LoLeidoVale, LineasDe
<1>8. ASSUME NEW s \in Recepciones \ {r}, rec[s].paso \in EnCurso
      PROVE  TomaDeFilas(rec[s])' /\ LoLeidoVale(rec[s])'
  BY <1>1, <1>2, <1>5, <1>8 DEF InvOrdenes, Transacciones, TomaDeFilas, LoLeidoVale, LineasDe
<1>9. Transacciones'
  BY <1>2, <1>7, <1>8 DEF InvOrdenes, Transacciones, EnCurso
<1>10. QED
  BY <1>1, <1>9, SoloTransacciones

LEMMA InvAbortar ==
    ASSUME TypeOK, InvOrdenes, NEW r \in Recepciones, Abortar(r)
    PROVE  InvOrdenes'
<1>1. UNCHANGED <<alta, numero, estado, recibida, autorizadas>>
  BY DEF Abortar
<1>2. /\ \A s \in Recepciones \ {r} : rec'[s] = rec[s]
      /\ rec'[r].paso = "error" /\ rec'[r].lineas = {}
  BY DEF Abortar, Soltar, EnReposo, TypeOK
<1>3. Transacciones'
  BY <1>1, <1>2 DEF InvOrdenes, Transacciones, TomaDeFilas, LoLeidoVale, Filas, Creadas,
     Compartido, LineasDe, EnCurso
<1>4. QED
  BY <1>1, <1>3, SoloTransacciones

(* The only action that moves what was received: what the transaction      *)
(* read still holds, and the order as a whole takes the state computed.    *)
LEMMA InvConfirmar ==
    ASSUME TypeOK, InvOrdenes, NEW r \in Recepciones, Confirmar(r)
    PROVE  InvOrdenes'
<1> USE OrdenesAssumption
<1> DEFINE t == rec[r]
           final == IF t.completa THEN "recibida_total" ELSE "recibida_parcial"
<1>1. /\ UNCHANGED <<alta, numero>>
      /\ \A l \in Lineas : estado'[l] = IF l \in Filas(t.n) THEN final ELSE estado[l]
      /\ \A l \in Lineas : recibida'[l] = recibida[l] + t.ahora[l]
      /\ autorizadas \subseteq autorizadas'
      /\ t.permiso => {l \in t.lineas : t.ahora[l] > 0} \subseteq autorizadas'
  BY DEF Confirmar
<1>2. /\ \A s \in Recepciones \ {r} : rec'[s] = rec[s]
      /\ t.paso = "confirmar" /\ rec'[r].paso = "ok" /\ rec'[r].lineas = {}
  BY DEF Confirmar, Soltar, EnReposo, TypeOK
<1>3. TomaDeFilas(t) /\ LoLeidoVale(t)
  BY <1>2 DEF InvOrdenes, Transacciones, EnCurso
<1>4. \A l \in Lineas : /\ t.ahora[l] \in Nat /\ recibida[l] \in Nat /\ Pedida[l] \in Nat
                        /\ Pedida[l] > 0
                        /\ t.ahora[l] > 0 => l \in t.lineas /\ l \in Filas(t.n)
  BY <1>3 DEF TypeOK, Recepcion, TomaDeFilas
<1>5. \A n : Filas(n)' = Filas(n)
  BY <1>1 DEF Filas
<1>6. Creadas' = Creadas /\ \A u \in Creadas : Compartido(u)' <=> Compartido(u)
  BY <1>1 DEF Creadas, Compartido
<1>7. \A l, m \in Lineas : OrdenDe[l] = OrdenDe[m] => (l \in Filas(t.n) <=> m \in Filas(t.n))
  BY DEF Filas, InvOrdenes, LineasDeOrden
<1>8. LineasDeOrden'
  <2>1. \A l \in Lineas : estado'[l] # "nada" <=> alta'[OrdenDe[l]] = "fin"
    BY <1>1 DEF InvOrdenes, LineasDeOrden, Filas
  <2>2. \A l, m \in Lineas : OrdenDe[l] = OrdenDe[m] => estado'[l] = estado'[m]
    BY <1>1, <1>7 DEF InvOrdenes, LineasDeOrden
  <2>3. \A l \in Lineas :
           estado'[l] \in {"nada", "pendiente", "cancelada"} => recibida'[l] = 0
    BY <1>1, <1>4 DEF InvOrdenes, LineasDeOrden
  <2>4. QED
    BY <2>1, <2>2, <2>3 DEF LineasDeOrden
<1>9. Transacciones'
  <2>1. ASSUME NEW s \in Recepciones \ {r}, rec[s].paso \in EnCurso
        PROVE  TomaDeFilas(rec[s])' /\ LoLeidoVale(rec[s])'
    <3>1. TomaDeFilas(rec[s]) /\ LoLeidoVale(rec[s]) /\ rec[s].n # t.n
      BY <1>2, <2>1 DEF InvOrdenes, Transacciones, EnCurso
    <3>2. \A l \in Filas(rec[s].n) :
             /\ l \in Lineas /\ estado'[l] = estado[l] /\ recibida'[l] = recibida[l]
      BY <1>1, <1>4, <3>1 DEF Filas
    <3>3. TomaDeFilas(rec[s])'
      BY <1>2, <1>5, <3>1 DEF TomaDeFilas, LineasDe
    <3>4. \A o \in Creadas : numero[o] = rec[s].n => LineasDe(o) \subseteq Filas(rec[s].n)
      BY DEF Creadas, LineasDe, Filas, InvOrdenes, LineasDeOrden
    <3>5. LoLeidoVale(rec[s])'
      BY <1>1, <1>2, <1>6, <3>1, <3>2, <3>4 DEF LoLeidoVale, TomaDeFilas, LineasDe
    <3>6. QED
      BY <3>3, <3>5
  <2>2. QED
    BY <1>2, <2>1 DEF InvOrdenes, Transacciones, EnCurso
<1>10. SinExcesoSinPermiso'
  <2>1. ASSUME NEW l \in Lineas \ autorizadas' PROVE recibida'[l] <= Pedida[l]
    <3>1. recibida[l] <= Pedida[l]
      BY <1>1, <2>1 DEF InvOrdenes, SinExcesoSinPermiso
    <3>2. CASE t.ahora[l] > 0
      BY <1>1, <1>3, <1>4, <2>1, <3>2 DEF LoLeidoVale
    <3>3. CASE ~(t.ahora[l] > 0)
      BY <1>1, <1>4, <3>1, <3>3
    <3>4. QED
      BY <3>2, <3>3
  <2>2. QED
    BY <2>1 DEF SinExcesoSinPermiso
<1>11. EstadoRefleja'
  <2>1. ASSUME NEW o \in Creadas, ~Compartido(o), numero[o] = t.n
        PROVE  /\ LineasDe(o) \subseteq Filas(t.n)
               /\ t.completa <=> \A l \in LineasDe(o) : recibida'[l] >= Pedida[l]
               /\ \E l \in LineasDe(o) : recibida'[l] > 0
    <3>1. LineasDe(o) = Filas(t.n)
      BY <2>1 DEF Creadas, Compartido, LineasDe, Filas, InvOrdenes, LineasDeOrden
    <3>2. t.completa <=> \A l \in LineasDe(o) : recibida[l] + t.ahora[l] >= Pedida[l]
      BY <1>2, <1>3, <2>1 DEF LoLeidoVale
    <3>3. PICK l \in t.lineas : t.ahora[l] > 0
      BY <1>3 DEF TomaDeFilas
    <3>4. l \in LineasDe(o) /\ l \in Lineas
      BY <1>3, <3>1, <3>3 DEF TomaDeFilas, Filas
    <3>5. recibida'[l] > 0
      BY <1>1, <1>4, <3>3, <3>4
    <3>6. QED
      BY <1>1, <3>1, <3>2, <3>4, <3>5 DEF LineasDe
  <2>2. ASSUME NEW o \in Creadas, numero[o] # t.n, NEW l \in LineasDe(o)
        PROVE  l \in Lineas /\ estado'[l] = estado[l] /\ recibida'[l] = recibida[l]
    BY <1>1, <1>4, <2>2 DEF LineasDe, Filas
  <2>3. QED
    BY <1>1, <1>6, <2>1, <2>2 DEF InvOrdenes, EstadoRefleja, LineasDe, TypeOK
<1>12. QED
  BY <1>8, <1>9, <1>10, <1>11 DEF InvOrdenes

LEMMA InvPaso == TypeOK /\ InvOrdenes /\ [Next]_vars => InvOrdenes'
<1> SUFFICES ASSUME TypeOK, InvOrdenes, [Next]_vars PROVE InvOrdenes'
  OBVIOUS
<1>1. CASE UNCHANGED vars
  <2>1. Transacciones'
    BY <1>1 DEF vars, InvOrdenes, Transacciones, TomaDeFilas, LoLeidoVale, Filas, Creadas,
       Compartido, LineasDe
  <2>2. QED
    BY <1>1, <2>1, SoloTransacciones DEF vars
<1>2. QED
  BY <1>1, InvLeerMaximo, InvInsertarOrden, InvCancelar, InvBloquear, InvComprarRenglon,
     InvCalcular, InvConfirmar, InvAbortar DEF Next, Paso

(* The invariant of the orders holds in every state the program reaches.   *)
THEOREM InvarianteDeOrdenes == Spec => []InvOrdenes
<1>1. QED
  BY InvInicial, InvPaso, TipoCorrecto, PTL DEF Spec

(* Without permission no line receives more than was ordered, however many *)
(* receptions overlap (ordenes-compra-pg.ts:354-368).                      *)
THEOREM NadaDeMas == Spec => []SinExcesoSinPermiso
<1>1. InvOrdenes => SinExcesoSinPermiso
  BY DEF InvOrdenes
<1>2. QED
  BY <1>1, InvarianteDeOrdenes, PTL

(* The state of an order that shares no number says what was received.     *)
THEOREM ElEstadoDiceLoRecibido == Spec => []EstadoRefleja
<1>1. InvOrdenes => EstadoRefleja
  BY DEF InvOrdenes
<1>2. QED
  BY <1>1, InvarianteDeOrdenes, PTL

(* A cancelled or complete order that shares no number stays as it is: the *)
(* row locks make a reception and a cancellation exclude each other.       *)
THEOREM LoTerminadoNoVuelve == Spec => TerminadaNoVuelve
<1> USE OrdenesAssumption
<1> DEFINE Quieta == \A l \in Lineas :
             estado[l] \in {"cancelada", "recibida_total"} /\ ~Compartido(OrdenDe[l])
                => estado'[l] = estado[l] /\ recibida'[l] = recibida[l]
<1>1. ASSUME TypeOK, InvOrdenes, [Next]_vars PROVE Quieta
  <2> SUFFICES ASSUME NEW l \in Lineas, estado[l] \in {"cancelada", "recibida_total"},
                      ~Compartido(OrdenDe[l])
               PROVE  estado'[l] = estado[l] /\ recibida'[l] = recibida[l]
    OBVIOUS
  <2>1. ASSUME NEW o \in Ordenes, InsertarOrden(o) PROVE UNCHANGED <<estado[l], recibida[l]>>
    BY <1>1, <2>1 DEF InsertarOrden, InvOrdenes, LineasDeOrden
  <2>2. ASSUME NEW n, Cancelar(n) PROVE UNCHANGED <<estado[l], recibida[l]>>
    BY <2>2 DEF Cancelar
  <2>3. ASSUME NEW r \in Recepciones, Confirmar(r) PROVE UNCHANGED <<estado[l], recibida[l]>>
    <3>1. TomaDeFilas(rec[r]) /\ LoLeidoVale(rec[r])
      BY <1>1, <2>3 DEF Confirmar, InvOrdenes, Transacciones, EnCurso
    <3>2. l \notin Filas(rec[r].n)
      <4> SUFFICES ASSUME l \in Filas(rec[r].n) PROVE FALSE
        OBVIOUS
      <4>1. Filas(rec[r].n) \subseteq LineasDe(OrdenDe[l])
        BY <1>1 DEF Filas, LineasDe, Compartido, InvOrdenes, LineasDeOrden
      <4>2. PICK m \in rec[r].lineas : estado[m] # "recibida_total"
        BY <3>1 DEF LoLeidoVale
      <4>3. OrdenDe[m] = OrdenDe[l] /\ m \in Lineas /\ estado[m] # "cancelada"
        BY <3>1, <4>1, <4>2 DEF TomaDeFilas, LoLeidoVale, LineasDe
      <4>4. QED
        BY <1>1, <4>2, <4>3 DEF InvOrdenes, LineasDeOrden
    <3>3. rec[r].ahora[l] = 0 /\ recibida[l] \in Nat
      BY <1>1, <3>1, <3>2 DEF TomaDeFilas, TypeOK, Recepcion
    <3>4. QED
      BY <2>3, <3>2, <3>3 DEF Confirmar
  <2>4. CASE \/ \E o \in Ordenes : LeerMaximo(o)
             \/ \E r \in Recepciones : Bloquear(r) \/ ComprarRenglon(r) \/ Calcular(r)
                                        \/ Abortar(r)
             \/ UNCHANGED vars
    BY <2>4 DEF LeerMaximo, Bloquear, ComprarRenglon, Calcular, Abortar, vars
  <2>5. QED
    BY <1>1, <2>1, <2>2, <2>3, <2>4 DEF Next, Paso
<1>2. TypeOK /\ InvOrdenes /\ [Next]_vars => [Quieta]_vars
  BY <1>1
<1>3. Spec => [][Quieta]_vars
  BY <1>2, TipoCorrecto, InvarianteDeOrdenes, PTL DEF Spec
<1>4. QED
  BY <1>3 DEF TerminadaNoVuelve

-----------------------------------------------------------------------------
(* The stock.  What the lines of a product bring is a sum over the lines.  *)

LEMMA DelProductoEntero ==
    ASSUME NEW f \in [Lineas -> Int], NEW p
    PROVE  DelProducto(f, p) \in Int
<1>1. [l \in Lineas |-> IF Producto[l] = p THEN f[l] ELSE 0] \in [Lineas -> Int]
  OBVIOUS
<1>2. QED
  BY <1>1, SumaTipo, OrdenesAssumption DEF DelProducto

LEMMA DelProductoMas ==
    ASSUME NEW f \in [Lineas -> Int], NEW g \in [Lineas -> Int], NEW h \in [Lineas -> Int],
           \A l \in Lineas : h[l] = f[l] + g[l], NEW p
    PROVE  DelProducto(h, p) = DelProducto(f, p) + DelProducto(g, p)
<1> DEFINE de(k) == [l \in Lineas |-> IF Producto[l] = p THEN k[l] ELSE 0]
<1>1. de(f) \in [Lineas -> Int] /\ de(g) \in [Lineas -> Int] /\ de(h) \in [Lineas -> Int]
  OBVIOUS
<1>2. \A l \in Lineas : de(h)[l] = de(f)[l] + de(g)[l]
  OBVIOUS
<1>3. DelProducto(h, p) = SumFunction(de(h)) /\ DelProducto(f, p) = SumFunction(de(f))
      /\ DelProducto(g, p) = SumFunction(de(g))
  BY DEF DelProducto
<1> HIDE DEF de
<1>4. IsFiniteSet(Lineas)
  BY OrdenesAssumption
<1>5. SumFunction(de(h)) = SumFunction(de(f)) + SumFunction(de(g))
  BY <1>1, <1>2, <1>4, SumaMas
<1>6. QED
  BY <1>3, <1>5

LEMMA DelProductoCambia ==
    ASSUME NEW f \in [Lineas -> Int], NEW g \in [Lineas -> Int], NEW x \in Lineas,
           \A l \in Lineas \ {x} : g[l] = f[l], NEW p
    PROVE  DelProducto(g, p) = DelProducto(f, p) + IF Producto[x] = p THEN g[x] - f[x] ELSE 0
<1> DEFINE de(k) == [l \in Lineas |-> IF Producto[l] = p THEN k[l] ELSE 0]
<1>1. de(f) \in [Lineas -> Int] /\ de(g) \in [Lineas -> Int]
  OBVIOUS
<1>2. \A l \in Lineas \ {x} : de(g)[l] = de(f)[l]
  OBVIOUS
<1>3. de(g)[x] - de(f)[x] = IF Producto[x] = p THEN g[x] - f[x] ELSE 0
  OBVIOUS
<1>4. DelProducto(g, p) = SumFunction(de(g)) /\ DelProducto(f, p) = SumFunction(de(f))
  BY DEF DelProducto
<1> HIDE DEF de
<1>5. IsFiniteSet(Lineas)
  BY OrdenesAssumption
<1>6. SumFunction(de(g)) = SumFunction(de(f)) + (de(g)[x] - de(f)[x])
  BY <1>1, <1>2, <1>5, SumaCambia
<1>7. QED
  BY <1>3, <1>4, <1>6

LEMMA DelProductoCero ==
    ASSUME NEW f \in [Lineas -> Int], NEW p, \A l \in Lineas : Producto[l] = p => f[l] = 0
    PROVE  DelProducto(f, p) = 0
<1> DEFINE de == [l \in Lineas |-> IF Producto[l] = p THEN f[l] ELSE 0]
<1>1. de \in [Lineas -> Int] /\ \A l \in Lineas : de[l] = 0
  OBVIOUS
<1>2. DelProducto(f, p) = SumFunction(de)
  BY DEF DelProducto
<1> HIDE DEF de
<1>3. QED
  BY <1>1, <1>2, SumaCero, OrdenesAssumption

LEMMA EntregadoTipo ==
    ASSUME NEW t \in Recepcion
    PROVE  Entregado(t) \in [Lineas -> Nat] /\ Entregado(t) \in [Lineas -> Int]
BY OrdenesAssumption DEF Entregado, Recepcion

LEMMA StockInicial == Init => InvStock
<1> SUFFICES ASSUME Init PROVE InvStock
  OBVIOUS
<1>1. \A p \in Productos : DelProducto(comprado, p) = 0
  BY DelProductoCero, CeroTipo DEF Init, Cero
<1>2. StockCuadra
  BY <1>1, OrdenesAssumption DEF Init, StockCuadra
<1>3. CopiaDelStock
  BY DEF Init, CopiaDelStock, EnReposo, EnCurso
<1>4. QED
  BY <1>2, <1>3 DEF InvStock

(* What a transaction keeps of the stock does not depend on the steps that *)
(* leave the stock and the transaction alone.                              *)
Copia(t) ==
    IF t.paso \in EnCurso
    THEN /\ \A p \in t.productos : t.nuevo[p] = stock[p] + DelProducto(Entregado(t), p)
         /\ \A l \in Lineas : Entregado(t)[l] > 0 => Producto[l] \in t.productos
         /\ t.paso = "confirmar" => t.pend = {}
    ELSE t.productos = {}

LEMMA UnaTransaccion ==
    ASSUME TypeOK, CopiaDelStock, NEW r \in Recepciones, NEW t \in Recepcion,
           rec' = [rec EXCEPT ![r] = t], UNCHANGED <<comprado, stock>>,
           Copia(t), \A s \in Recepciones \ {r} : t.productos \cap rec[s].productos = {}
    PROVE  CopiaDelStock'
<1>1. \A s \in Recepciones : rec'[s] = IF s = r THEN t ELSE rec[s]
  BY DEF TypeOK
<1>2. \A s \in Recepciones : Copia(rec[s])
  BY DEF CopiaDelStock, Copia
<1>3. \A s \in Recepciones : Copia(rec'[s])
  BY <1>1, <1>2
<1>4. \A s \in Recepciones : Copia(rec[s])'
  BY <1>3 DEF Copia, DelProducto, Entregado
<1>5. \A s, u \in Recepciones : s # u => rec'[s].productos \cap rec'[u].productos = {}
  <2>1. \A s, u \in Recepciones : s # u => rec[s].productos \cap rec[u].productos = {}
    BY DEF CopiaDelStock
  <2>2. QED
    BY <1>1, <2>1
<1>6. QED
  BY <1>4, <1>5 DEF CopiaDelStock, Copia

LEMMA CompraSuma ==
    ASSUME TypeOK, CopiaDelStock, NEW r \in Recepciones, ComprarRenglon(r)
    PROVE  CopiaDelStock'
<1> USE OrdenesAssumption
<1> DEFINE a == rec[r]
           l == a.sig
           p == Producto[l]
           base == IF p \in a.productos THEN a.nuevo[p] ELSE stock[p]
           quedan == a.pend \ {l}
           x == base + a.ahora[l]
<1>1. a \in Recepcion /\ a.paso = "comprar" /\ l \in a.pend /\ ProductoLibre(p, r)
  BY DEF ComprarRenglon, TypeOK
<1>2. PICK s \in IF quedan = {} THEN {l} ELSE quedan :
         rec' = [rec EXCEPT ![r] = [a EXCEPT !.pend = quedan, !.sig = s,
                                       !.productos = @ \cup {p}, !.nuevo[p] = x]]
  BY DEF ComprarRenglon
<1> DEFINE t == [a EXCEPT !.pend = quedan, !.sig = s,
                          !.productos = @ \cup {p}, !.nuevo[p] = x]
<1>3. l \in Lineas /\ p \in Productos /\ quedan \subseteq Lineas /\ s \in Lineas
      /\ a.nuevo \in [Productos -> Int] /\ stock \in [Productos -> Int]
      /\ a.ahora \in [Lineas -> Nat] /\ x \in Int
  BY <1>1, <1>2 DEF Recepcion, TypeOK
<1>4. t \in Recepcion
  BY <1>1, <1>3 DEF Recepcion
<1>5. /\ t.paso = "comprar" /\ t.pend = a.pend \ {l} /\ t.ahora = a.ahora
      /\ t.productos = a.productos \cup {p}
      /\ t.nuevo[p] = x /\ \A q \in Productos \ {p} : t.nuevo[q] = a.nuevo[q]
  BY <1>1, <1>3 DEF Recepcion
<1>6. rec' = [rec EXCEPT ![r] = t] /\ UNCHANGED <<comprado, stock>>
  BY <1>2 DEF ComprarRenglon
<1> HIDE DEF t
<1> DEFINE f == Entregado(a)
           g == Entregado(t)
<1>7. f \in [Lineas -> Int] /\ g \in [Lineas -> Int]
  BY <1>1, <1>4, EntregadoTipo
<1>8. f[l] = 0 /\ g[l] = a.ahora[l] /\ \A k \in Lineas \ {l} : g[k] = f[k]
  BY <1>1, <1>3, <1>5 DEF Entregado
<1>9. \A q \in a.productos : a.nuevo[q] = stock[q] + DelProducto(f, q)
  BY <1>1 DEF CopiaDelStock, EnCurso
<1>10. \A k \in Lineas : f[k] > 0 => Producto[k] \in a.productos
  BY <1>1 DEF CopiaDelStock, EnCurso
<1>10a. \A k \in Lineas : f[k] \in Nat
  BY <1>1, EntregadoTipo
<1> HIDE DEF f, g
<1>11. \A q : DelProducto(g, q) = DelProducto(f, q) + IF p = q THEN a.ahora[l] ELSE 0
  <2> SUFFICES ASSUME NEW q
               PROVE  DelProducto(g, q) = DelProducto(f, q) + IF p = q THEN a.ahora[l] ELSE 0
    OBVIOUS
  <2>1. DelProducto(g, q) = DelProducto(f, q) + IF p = q THEN g[l] - f[l] ELSE 0
    <3>1. \A k \in Lineas \ {l} : g[k] = f[k]
      BY <1>8
    <3> HIDE DEF l, x, base, quedan
    <3>2. QED
      BY <1>3, <1>7, <3>1, DelProductoCambia
  <2>2. QED
    BY <1>3, <1>8, <2>1
<1>12. \A q : DelProducto(f, q) \in Int
  BY <1>7, DelProductoEntero
<1>13. p \notin a.productos => DelProducto(f, p) = 0
  <2>1. p \notin a.productos => \A k \in Lineas : Producto[k] = p => f[k] = 0
    BY <1>10, <1>10a
  <2>2. QED
    BY <1>7, <2>1, DelProductoCero
<1>14. ASSUME NEW q \in t.productos PROVE t.nuevo[q] = stock[q] + DelProducto(g, q)
  <2>1. CASE q = p
    BY <1>3, <1>5, <1>9, <1>11, <1>12, <1>13, <2>1
  <2>2. CASE q # p
    <3>1. q \in a.productos /\ q \in Productos
      BY <1>1, <1>5, <1>14, <2>2 DEF Recepcion
    <3>2. QED
      BY <1>3, <1>5, <1>9, <1>11, <1>12, <2>2, <3>1
  <2>3. QED
    BY <2>1, <2>2
<1>15. \A k \in Lineas : g[k] > 0 => Producto[k] \in t.productos
  BY <1>3, <1>5, <1>8, <1>10
<1>16. Copia(t)
  BY <1>5, <1>14, <1>15 DEF Copia, EnCurso, g
<1>17. \A u \in Recepciones \ {r} : t.productos \cap rec[u].productos = {}
  <2>1. \A u \in Recepciones \ {r} : p \notin rec[u].productos
    BY <1>1 DEF ProductoLibre, TomadosPorOtra
  <2>2. \A u \in Recepciones \ {r} : a.productos \cap rec[u].productos = {}
    BY DEF CopiaDelStock
  <2>3. QED
    BY <1>5, <2>1, <2>2
<1>18. QED
  BY <1>4, <1>6, <1>16, <1>17, UnaTransaccion

LEMMA ReposoSinNada ==
    ASSUME TypeOK, CopiaDelStock, NEW r \in Recepciones, NEW paso \in {"ok", "error"},
           rec' = Soltar(r, paso), UNCHANGED <<comprado, stock>>
    PROVE  CopiaDelStock'
<1> DEFINE t == [EnReposo EXCEPT !.paso = paso]
<1>1. t \in Recepcion
  BY ReposoTipo DEF Recepcion
<1>2. t.paso \notin EnCurso /\ t.productos = {}
  BY DEF EnReposo, EnCurso
<1>3. rec' = [rec EXCEPT ![r] = t]
  BY DEF Soltar
<1> HIDE DEF t
<1>4. Copia(t) /\ \A s \in Recepciones \ {r} : t.productos \cap rec[s].productos = {}
  BY <1>2 DEF Copia
<1>5. QED
  BY <1>1, <1>3, <1>4, UnaTransaccion

LEMMA BloquearNoToma ==
    ASSUME TypeOK, CopiaDelStock, NEW r \in Recepciones, Bloquear(r)
    PROVE  CopiaDelStock'
<1> USE OrdenesAssumption
<1>1. PICK n \in {numero[o] : o \in Creadas}, pedido \in [Lineas -> 0..MaxAhora],
           permiso \in BOOLEAN, l \in Lineas :
         /\ rec' = [rec EXCEPT ![r] = Abierta(n, pedido, permiso, l)]
         /\ Admitida(n, pedido, permiso, r)
  BY BloquearEfecto
<1> DEFINE t == Abierta(n, pedido, permiso, l)
<1>2. n \in Nat /\ Filas(n) \subseteq Lineas
  BY <1>1 DEF TypeOK, Creadas, Filas
<1>3. t \in Recepcion
  BY <1>2, ReposoTipo DEF Abierta, Recepcion, EnCurso
<1>4. t.paso = "comprar" /\ t.productos = {} /\ t.ahora = pedido
      /\ t.pend = {k \in Lineas : pedido[k] > 0}
  BY DEF Abierta, EnReposo
<1>5. rec' = [rec EXCEPT ![r] = t] /\ UNCHANGED <<comprado, stock>>
  BY <1>1 DEF Bloquear
<1> HIDE DEF t
<1>6. \A k \in Lineas : ~ (Entregado(t)[k] > 0)
  BY <1>4 DEF Entregado
<1>7. Copia(t) /\ \A s \in Recepciones \ {r} : t.productos \cap rec[s].productos = {}
  BY <1>4, <1>6 DEF Copia
<1>8. QED
  BY <1>3, <1>5, <1>7, UnaTransaccion

LEMMA CalcularNoToma ==
    ASSUME TypeOK, CopiaDelStock, NEW r \in Recepciones, Calcular(r)
    PROVE  CopiaDelStock'
<1> DEFINE a == rec[r]
<1>1. a \in Recepcion /\ a.paso = "comprar" /\ a.pend = {}
  BY DEF Calcular, TypeOK
<1>2. PICK c \in BOOLEAN : rec' = [rec EXCEPT ![r] = [a EXCEPT !.paso = "confirmar", !.completa = c]]
  BY DEF Calcular
<1> DEFINE t == [a EXCEPT !.paso = "confirmar", !.completa = c]
<1>3. t \in Recepcion /\ t.paso = "confirmar" /\ t.pend = {} /\ t.ahora = a.ahora
      /\ t.productos = a.productos /\ t.nuevo = a.nuevo
  BY <1>1 DEF Recepcion, EnCurso
<1>4. rec' = [rec EXCEPT ![r] = t] /\ UNCHANGED <<comprado, stock>>
  BY <1>2 DEF Calcular
<1> HIDE DEF t
<1>5. Entregado(t) = Entregado(a)
  BY <1>1, <1>3 DEF Entregado
<1>6. /\ \A p \in a.productos : a.nuevo[p] = stock[p] + DelProducto(Entregado(a), p)
      /\ \A l \in Lineas : Entregado(a)[l] > 0 => Producto[l] \in a.productos
  BY <1>1 DEF CopiaDelStock, EnCurso
<1>7. Copia(t)
  BY <1>3, <1>5, <1>6 DEF Copia, EnCurso
<1>8. \A s \in Recepciones \ {r} : t.productos \cap rec[s].productos = {}
  BY <1>3 DEF CopiaDelStock
<1>9. QED
  BY <1>3, <1>4, <1>7, <1>8, UnaTransaccion

(* The commit: what the copy says is what the purchases add up to, for the *)
(* products it took and for those it did not.                              *)
LEMMA ConfirmarSuma ==
    ASSUME TypeOK, InvStock, NEW r \in Recepciones, Confirmar(r)
    PROVE  /\ \A p \in Productos : stock'[p] = stock[p] + DelProducto(rec[r].ahora, p)
           /\ \A p \in Productos \ rec[r].productos : stock'[p] = stock[p]
           /\ \A p \in Productos : DelProducto(rec[r].ahora, p) \in Int
<1> USE OrdenesAssumption
<1> DEFINE t == rec[r]
<1>1. t \in Recepcion /\ t.paso = "confirmar" /\ stock \in [Productos -> Int]
  BY DEF Confirmar, TypeOK
<1>2. t.pend = {} /\ (\A p \in t.productos : t.nuevo[p] = stock[p] + DelProducto(Entregado(t), p))
      /\ \A l \in Lineas : Entregado(t)[l] > 0 => Producto[l] \in t.productos
  BY <1>1 DEF InvStock, CopiaDelStock, EnCurso
<1>3. t.ahora \in [Lineas -> Nat] /\ t.ahora \in [Lineas -> Int]
  BY <1>1 DEF Recepcion
<1>4. Entregado(t) = t.ahora
  BY <1>2, <1>3 DEF Entregado
<1>5. stock' = [p \in Productos |-> IF p \in t.productos THEN t.nuevo[p] ELSE stock[p]]
  BY DEF Confirmar
<1> HIDE DEF t
<1>6. \A p \in Productos : DelProducto(t.ahora, p) \in Int
  BY <1>3, DelProductoEntero
<1>7. \A p \in Productos \ t.productos : DelProducto(t.ahora, p) = 0
  <2> SUFFICES ASSUME NEW p \in Productos \ t.productos PROVE DelProducto(t.ahora, p) = 0
    OBVIOUS
  <2>1. \A l \in Lineas : Producto[l] = p => t.ahora[l] = 0
    BY <1>2, <1>3, <1>4
  <2>2. QED
    BY <1>3, <2>1, DelProductoCero
<1>8. \A p \in Productos : stock'[p] = stock[p] + DelProducto(t.ahora, p)
  <2> SUFFICES ASSUME NEW p \in Productos
               PROVE  stock'[p] = stock[p] + DelProducto(t.ahora, p)
    OBVIOUS
  <2>1. CASE p \in t.productos
    BY <1>2, <1>4, <1>5, <2>1
  <2>2. CASE p \notin t.productos
    BY <1>1, <1>5, <1>7, <2>2
  <2>3. QED
    BY <2>1, <2>2
<1>9. QED
  BY <1>5, <1>6, <1>8 DEF t

LEMMA StockConfirmar ==
    ASSUME TypeOK, InvStock, NEW r \in Recepciones, Confirmar(r)
    PROVE  InvStock'
<1> USE OrdenesAssumption
<1> DEFINE t == rec[r]
           z == [EnReposo EXCEPT !.paso = "ok"]
<1>1. t \in Recepcion /\ stock \in [Productos -> Int] /\ comprado \in [Lineas -> Int]
      /\ t.ahora \in [Lineas -> Int]
  BY DEF TypeOK, Recepcion
<1>2. comprado' \in [Lineas -> Int] /\ \A l \in Lineas : comprado'[l] = comprado[l] + t.ahora[l]
  BY <1>1 DEF Confirmar
<1>3. rec' = [rec EXCEPT ![r] = z] /\ z.paso \notin EnCurso /\ z.productos = {}
  BY DEF Confirmar, Soltar, EnReposo, EnCurso
<1>4. /\ \A p \in Productos : stock'[p] = stock[p] + DelProducto(t.ahora, p)
      /\ \A p \in Productos \ t.productos : stock'[p] = stock[p]
      /\ \A p \in Productos : DelProducto(t.ahora, p) \in Int
  BY ConfirmarSuma
<1> HIDE DEF t, z
<1>5. \A p \in Productos : DelProducto(comprado', p) = DelProducto(comprado, p) + DelProducto(t.ahora, p)
  BY <1>1, <1>2, DelProductoMas
<1>6. \A p \in Productos : DelProducto(comprado, p) \in Int
  BY <1>1, DelProductoEntero
<1>7. \A p \in Productos : stock[p] = Stock0[p] + DelProducto(comprado, p)
  BY DEF InvStock, StockCuadra
<1>8. \A p \in Productos : stock'[p] = Stock0[p] + DelProducto(comprado', p)
  BY <1>4, <1>5, <1>6, <1>7
<1>9. StockCuadra'
  BY <1>8 DEF StockCuadra, DelProducto
<1>10. \A s \in Recepciones : rec'[s] = IF s = r THEN z ELSE rec[s]
  BY <1>3 DEF TypeOK
<1>11. \A s \in Recepciones \ {r} : Copia(rec[s]) /\ rec[s] \in Recepcion
                                   /\ rec[s].productos \cap t.productos = {}
  BY DEF InvStock, CopiaDelStock, Copia, TypeOK, t
<1>12. \A s \in Recepciones \ {r} : \A p \in rec[s].productos : stock'[p] = stock[p]
  BY <1>4, <1>11 DEF Recepcion
<1>13. \A s \in Recepciones : Copia(rec[s])'
  <2>1. ASSUME NEW s \in Recepciones \ {r} PROVE Copia(rec[s])'
    BY <1>10, <1>11, <1>12 DEF Copia, DelProducto, Entregado
  <2>2. Copia(rec[r])'
    BY <1>3, <1>10 DEF Copia
  <2>3. QED
    BY <2>1, <2>2
<1>14. \A s, u \in Recepciones : s # u => rec'[s].productos \cap rec'[u].productos = {}
  <2>1. \A s, u \in Recepciones : s # u => rec[s].productos \cap rec[u].productos = {}
    BY DEF InvStock, CopiaDelStock
  <2>2. QED
    BY <1>3, <1>10, <2>1
<1>15. CopiaDelStock'
  BY <1>13, <1>14 DEF CopiaDelStock, Copia
<1>16. QED
  BY <1>9, <1>15 DEF InvStock

LEMMA StockPaso == TypeOK /\ InvStock /\ [Next]_vars => InvStock'
<1> SUFFICES ASSUME TypeOK, InvStock, [Next]_vars PROVE InvStock'
  OBVIOUS
<1>1. ASSUME UNCHANGED <<comprado, stock>>, CopiaDelStock' PROVE InvStock'
  BY <1>1 DEF InvStock, StockCuadra, DelProducto
<1>2. ASSUME UNCHANGED <<comprado, stock, rec>> PROVE InvStock'
  BY <1>2 DEF InvStock, StockCuadra, DelProducto, CopiaDelStock, Entregado
<1>3. CASE \E o \in Ordenes : LeerMaximo(o) \/ InsertarOrden(o)
  BY <1>2, <1>3 DEF LeerMaximo, InsertarOrden
<1>4. CASE \E n \in {numero[o] : o \in Ordenes} : Cancelar(n)
  BY <1>2, <1>4 DEF Cancelar
<1>5. ASSUME NEW r \in Recepciones, Bloquear(r) PROVE InvStock'
  BY <1>1, <1>5, BloquearNoToma DEF Bloquear, InvStock
<1>6. ASSUME NEW r \in Recepciones, ComprarRenglon(r) PROVE InvStock'
  BY <1>1, <1>6, CompraSuma DEF ComprarRenglon, InvStock
<1>7. ASSUME NEW r \in Recepciones, Calcular(r) PROVE InvStock'
  BY <1>1, <1>7, CalcularNoToma DEF Calcular, InvStock
<1>8. ASSUME NEW r \in Recepciones, Confirmar(r) PROVE InvStock'
  BY <1>8, StockConfirmar
<1>9. ASSUME NEW r \in Recepciones, Abortar(r) PROVE InvStock'
  BY <1>1, <1>9, ReposoSinNada DEF Abortar, InvStock
<1>10. CASE UNCHANGED vars
  BY <1>2, <1>10 DEF vars
<1>11. QED
  BY <1>3, <1>4, <1>5, <1>6, <1>7, <1>8, <1>9, <1>10 DEF Next, Paso

(* Whatever the receptions that overlap and abort, the stored stock of a   *)
(* product and the copies the open transactions keep of it add up.         *)
THEOREM InvarianteDelStock == Spec => []InvStock
<1>1. QED
  BY StockInicial, StockPaso, TipoCorrecto, PTL DEF Spec

(* The stock is what it was plus what the purchases of the orders brought: *)
(* the relative update of compras-pg.ts:310 loses nothing.                 *)
THEOREM ElStockCuadra == Spec => []StockCuadra
<1>1. InvStock => StockCuadra
  BY DEF InvStock
<1>2. QED
  BY <1>1, InvarianteDelStock, PTL

-----------------------------------------------------------------------------
(* The refinement: orders created one at a time are atomic orders.         *)

PasoEnSerie == Next /\ UnaAltaALaVez'

LEMMA NumeroInicial == Init => UnaAltaALaVez /\ NumeroPropio
BY DEF Init, UnaAltaALaVez, NumeroPropio

LEMMA NumeroPaso ==
    TypeOK /\ UnaAltaALaVez /\ NumeroPropio /\ [PasoEnSerie]_vars
      => UnaAltaALaVez' /\ NumeroPropio'
<1> SUFFICES ASSUME TypeOK, UnaAltaALaVez, NumeroPropio, [PasoEnSerie]_vars
             PROVE  UnaAltaALaVez' /\ NumeroPropio'
  OBVIOUS
<1>1. UnaAltaALaVez'
  BY DEF PasoEnSerie, UnaAltaALaVez, vars
<1>2. ASSUME UNCHANGED <<alta, numero>> PROVE NumeroPropio'
  BY <1>2 DEF NumeroPropio
<1>3. ASSUME NEW o \in Ordenes, LeerMaximo(o) PROVE NumeroPropio'
  <2>1. PICK m \in {0} \cup {numero[u] : u \in Creadas} :
           /\ \A u \in Creadas : numero[u] <= m
           /\ numero' = [numero EXCEPT ![o] = m + 1]
    BY <1>3 DEF LeerMaximo
  <2>2. m \in Nat /\ \A u \in Ordenes : numero[u] \in Nat
    BY <2>1 DEF TypeOK, Creadas
  <2>3. /\ alta[o] = "libre" /\ alta'[o] = "leida"
        /\ numero'[o] = m + 1
        /\ \A u \in Ordenes \ {o} : alta'[u] = alta[u] /\ numero'[u] = numero[u]
    BY <1>3, <2>1 DEF LeerMaximo, TypeOK
  <2>4. \A u \in Ordenes : alta[u] = "fin" => numero[u] < m + 1
    BY <2>1, <2>2 DEF Creadas
  <2>5. ASSUME NEW a \in Ordenes, NEW u \in Ordenes, a # u, alta'[u] = "fin"
        PROVE  /\ alta'[a] = "leida" => numero'[a] > numero'[u]
               /\ alta'[a] = "fin" => numero'[a] # numero'[u]
    <3>1. u # o /\ alta[u] = "fin" /\ numero'[u] = numero[u]
      BY <2>3, <2>5
    <3>2. CASE a = o
      BY <2>2, <2>3, <2>4, <3>1, <3>2
    <3>3. CASE a # o
      BY <2>3, <2>5, <3>1, <3>3 DEF NumeroPropio
    <3>4. QED
      BY <3>2, <3>3
  <2>6. QED
    BY <2>5 DEF NumeroPropio
<1>4. ASSUME NEW o \in Ordenes, InsertarOrden(o) PROVE NumeroPropio'
  <2>1. /\ alta[o] = "leida" /\ alta'[o] = "fin" /\ UNCHANGED numero
        /\ \A u \in Ordenes \ {o} : alta'[u] = alta[u]
        /\ \A u \in Ordenes : numero[u] \in Nat
    BY <1>4 DEF InsertarOrden, TypeOK
  <2>2. \A u \in Ordenes \ {o} : alta[u] # "leida"
    BY <2>1 DEF UnaAltaALaVez
  <2>3. QED
    BY <2>1, <2>2 DEF NumeroPropio
<1>5. ASSUME \E n \in {numero[o] : o \in Ordenes} : Cancelar(n) PROVE NumeroPropio'
  <2>1. UNCHANGED <<alta, numero>>
    BY <1>5 DEF Cancelar
  <2>2. QED
    BY <1>2, <2>1
<1>6. ASSUME \E r \in Recepciones : Bloquear(r) \/ Paso(r) \/ Abortar(r) PROVE NumeroPropio'
  <2>1. UNCHANGED <<alta, numero>>
    BY <1>6 DEF Bloquear, Paso, ComprarRenglon, Calcular, Confirmar, Abortar
  <2>2. QED
    BY <1>2, <2>1
<1>7. ASSUME UNCHANGED vars PROVE NumeroPropio'
  <2>1. UNCHANGED <<alta, numero>>
    BY <1>7 DEF vars
  <2>2. QED
    BY <1>2, <2>1
<1>8. NumeroPropio'
  BY <1>3, <1>4, <1>5, <1>6, <1>7 DEF PasoEnSerie, Next
<1>9. QED
  BY <1>1, <1>8

(* The state of an order as a whole.                                       *)
EstadoOrden == [o \in Ordenes |-> estado[CHOOSE l \in Lineas : OrdenDe[l] = o]]

LEMMA EstadoDeLinea ==
    ASSUME LineasDeOrden
    PROVE  /\ \A o \in Ordenes : (CHOOSE l \in Lineas : OrdenDe[l] = o) \in LineasDe(o)
           /\ \A l \in Lineas : EstadoOrden[OrdenDe[l]] = estado[l]
<1> USE OrdenesAssumption
<1>1. \A o \in Ordenes : (CHOOSE l \in Lineas : OrdenDe[l] = o) \in LineasDe(o)
  BY DEF LineasDe
<1>2. ASSUME NEW l \in Lineas PROVE EstadoOrden[OrdenDe[l]] = estado[l]
  <2> DEFINE k == CHOOSE m \in Lineas : OrdenDe[m] = OrdenDe[l]
  <2>1. k \in LineasDe(OrdenDe[l]) /\ EstadoOrden[OrdenDe[l]] = estado[k]
    BY <1>1 DEF EstadoOrden
  <2> HIDE DEF k
  <2>2. QED
    BY <2>1 DEF LineasDe, LineasDeOrden
<1>3. QED
  BY <1>1, <1>2

(* The sum of the abstract orders is the sum of these ones.                *)
LEMMA MismaSuma == \A f : Atomica!SumFunction(f) = SumFunction(f)
BY DEF Atomica!SumFunction, Atomica!SumFunctionOnSet, Atomica!FoldFunctionOnSet,
       Atomica!MapThenFoldSet, SumFunction, SumFunctionOnSet, FoldFunctionOnSet, MapThenFoldSet

LEMMA RefinaInicial == Init => Atomica!Init
<1> SUFFICES ASSUME Init PROVE Atomica!Init
  OBVIOUS
<1>1. [o \in Ordenes |-> estado[CHOOSE l \in Lineas : OrdenDe[l] = o]]
        = [o \in Ordenes |-> "nada"]
  BY OrdenesAssumption DEF Init
<1>2. QED
  BY <1>1 DEF Init, Cero, Atomica!Init

LEMMA RefinaInsertar ==
    ASSUME TypeOK, InvOrdenes, NEW o \in Ordenes, InsertarOrden(o)
    PROVE  Atomica!Crear(o)
<1> USE OrdenesAssumption
<1> DEFINE k(u) == CHOOSE l \in Lineas : OrdenDe[l] = u
<1>1. \A u \in Ordenes : k(u) \in Lineas /\ OrdenDe[k(u)] = u
  OBVIOUS
<1>2. /\ alta[o] = "leida" /\ UNCHANGED <<recibida, stock>>
      /\ estado' = [l \in Lineas |-> IF OrdenDe[l] = o THEN "pendiente" ELSE estado[l]]
  BY DEF InsertarOrden
<1> HIDE DEF k
<1>3. estado[k(o)] = "nada"
  BY <1>1, <1>2 DEF InvOrdenes, LineasDeOrden
<1>4. [u \in Ordenes |-> estado'[k(u)]] = [[u \in Ordenes |-> estado[k(u)]] EXCEPT ![o] = "pendiente"]
  BY <1>1, <1>2
<1>5. QED
  BY <1>2, <1>3, <1>4 DEF Atomica!Crear, k

(* The rows that a cancellation closes are those of one order.             *)
LEMMA RefinaCancelar ==
    ASSUME TypeOK, InvOrdenes, NumeroPropio, NEW n, Cancelar(n)
    PROVE  \E o \in Ordenes : Atomica!Cancelar(o)
<1> USE OrdenesAssumption
<1> DEFINE k(u) == CHOOSE l \in Lineas : OrdenDe[l] = u
           abiertas == {l \in Filas(n) : estado[l] = "pendiente"}
<1>1. \A u \in Ordenes : k(u) \in Lineas /\ OrdenDe[k(u)] = u
  OBVIOUS
<1>2. /\ abiertas # {} /\ UNCHANGED <<recibida, stock>>
      /\ estado' = [l \in Lineas |-> IF l \in abiertas THEN "cancelada" ELSE estado[l]]
  BY DEF Cancelar
<1>3. PICK m \in Lineas : m \in Filas(n) /\ estado[m] = "pendiente"
  BY <1>2 DEF Filas
<1> DEFINE o == OrdenDe[m]
<1>4. o \in Ordenes /\ numero[o] = n /\ alta[o] = "fin"
  BY <1>3 DEF Filas, InvOrdenes, LineasDeOrden
<1>5. \A l \in Lineas : l \in abiertas <=> OrdenDe[l] = o
  <2>1. \A l \in Lineas : OrdenDe[l] = o => l \in abiertas
    BY <1>3, <1>4 DEF Filas, InvOrdenes, LineasDeOrden
  <2>2. \A l \in Lineas : l \in abiertas => alta[OrdenDe[l]] = "fin" /\ numero[OrdenDe[l]] = n
    BY DEF Filas, InvOrdenes, LineasDeOrden
  <2>3. \A l \in Lineas : l \in abiertas => OrdenDe[l] = o
    BY <1>4, <2>2 DEF NumeroPropio
  <2>4. QED
    BY <2>1, <2>3
<1> HIDE DEF k, abiertas, o
<1>6. estado[k(o)] = "pendiente"
  BY <1>1, <1>3, <1>4 DEF InvOrdenes, LineasDeOrden, o
<1>7. [u \in Ordenes |-> estado'[k(u)]] = [[u \in Ordenes |-> estado[k(u)]] EXCEPT ![o] = "cancelada"]
  BY <1>1, <1>2, <1>4, <1>5
<1>8. Atomica!Cancelar(o)
  BY <1>2, <1>4, <1>6, <1>7 DEF Atomica!Cancelar, k
<1>9. QED
  BY <1>4, <1>8

LEMMA RecibirEsPaso ==
    ASSUME NEW u \in Ordenes, NEW ahora \in [Atomica!LineasDe(u) -> 0..MaxAhora],
           NEW permiso \in BOOLEAN, Atomica!Recibir(u, ahora, permiso)
    PROVE  Atomica!Next
BY Zenon DEF Atomica!Next

(* A commit receives one order: it is the only one with the number, the    *)
(* rows it locked are its rows, and the state it wrote is that of what it  *)
(* received.                                                               *)
LEMMA RefinaConfirmar ==
    ASSUME TypeOK, InvOrdenes, InvStock, NumeroPropio, NEW r \in Recepciones, Confirmar(r)
    PROVE  Atomica!Next
<1> USE OrdenesAssumption
<1>0. PICK t : t = rec[r]
  OBVIOUS
<1> DEFINE k(u) == CHOOSE l \in Lineas : OrdenDe[l] = u
           final == IF t.completa THEN "recibida_total" ELSE "recibida_parcial"
<1>1. \A u \in Ordenes : k(u) \in Lineas /\ OrdenDe[k(u)] = u
  OBVIOUS
<1>2. /\ t \in Recepcion /\ t.paso = "confirmar"
      /\ t.ahora \in [Lineas -> 0..MaxAhora] /\ t.permiso \in BOOLEAN /\ t.completa \in BOOLEAN
      /\ t.n \in Nat /\ recibida \in [Lineas -> Nat]
  BY <1>0 DEF Confirmar, TypeOK, Recepcion
<1>3. TomaDeFilas(t) /\ LoLeidoVale(t)
  BY <1>0, <1>2 DEF InvOrdenes, Transacciones, EnCurso
<1>4. /\ recibida' = [l \in Lineas |-> recibida[l] + t.ahora[l]]
      /\ estado' = [l \in Lineas |-> IF l \notin Filas(t.n) THEN estado[l] ELSE final]
  BY <1>0 DEF Confirmar
<1>5. PICK m \in Lineas : m \in t.lineas /\ t.ahora[m] > 0 /\ m \in Filas(t.n)
  BY <1>3 DEF TomaDeFilas, Filas
<1> DEFINE o == OrdenDe[m]
<1>6. o \in Ordenes /\ numero[o] = t.n /\ alta[o] = "fin"
  BY <1>5 DEF Filas, InvOrdenes, LineasDeOrden
<1>7. \A l \in Lineas : l \in Filas(t.n) <=> OrdenDe[l] = o
  <2>1. \A l \in Lineas : OrdenDe[l] = o => l \in Filas(t.n)
    BY <1>6 DEF Filas, InvOrdenes, LineasDeOrden
  <2>2. \A l \in Lineas : l \in Filas(t.n) => alta[OrdenDe[l]] = "fin" /\ numero[OrdenDe[l]] = t.n
    BY DEF Filas, InvOrdenes, LineasDeOrden
  <2>3. \A l \in Lineas : l \in Filas(t.n) => OrdenDe[l] = o
    BY <1>6, <2>2 DEF NumeroPropio
  <2>4. QED
    BY <2>1, <2>3
<1>8. \A l \in Lineas : l \in t.lineas <=> OrdenDe[l] = o
  BY <1>3, <1>5, <1>7 DEF TomaDeFilas, LineasDe
<1>9. \A l \in Lineas : OrdenDe[l] # o => t.ahora[l] = 0
  BY <1>2, <1>3, <1>8 DEF TomaDeFilas
<1>10. o \in Creadas /\ ~Compartido(o)
  BY <1>6 DEF NumeroPropio, Compartido, Creadas
<1>11. t.completa <=> \A l \in LineasDe(o) : recibida[l] + t.ahora[l] >= Pedida[l]
  BY <1>2, <1>3, <1>6, <1>10 DEF LoLeidoVale
<1>12. /\ \A p \in Productos : stock'[p] = stock[p] + DelProducto(t.ahora, p)
       /\ stock' = [p \in Productos |-> stock'[p]]
  BY <1>0, ConfirmarSuma DEF Confirmar
<1>13. estado[k(o)] \in {"pendiente", "recibida_parcial"}
  <2>1. estado[k(o)] = estado[m] /\ estado[m] # "nada" /\ estado[m] # "cancelada"
    BY <1>1, <1>3, <1>5, <1>6 DEF InvOrdenes, LineasDeOrden, LoLeidoVale, Filas
  <2>2. PICK l \in t.lineas : estado[l] # "recibida_total"
    BY <1>3 DEF LoLeidoVale
  <2>3. l \in Lineas /\ OrdenDe[l] = o
    BY <1>2, <1>8 DEF Recepcion
  <2>4. estado[m] # "recibida_total"
    BY <2>2, <2>3 DEF InvOrdenes, LineasDeOrden
  <2>5. QED
    BY <1>5, <2>1, <2>4 DEF TypeOK, EstadosOc
<1> HIDE DEF k, o
<1> DEFINE a == [l \in LineasDe(o) |-> t.ahora[l]]
<1>14. a \in [LineasDe(o) -> 0..MaxAhora]
  BY <1>2 DEF LineasDe
<1>15. \E l \in LineasDe(o) : a[l] > 0
  BY <1>5 DEF LineasDe, o
<1>16. t.permiso \/ \A l \in LineasDe(o) : a[l] <= Atomica!Pendiente(l)
  <2>1. t.permiso \/ \A l \in t.lineas : t.ahora[l] > 0 => recibida[l] + t.ahora[l] <= Pedida[l]
    BY <1>3 DEF LoLeidoVale
  <2>2. t.permiso \/ \A l \in LineasDe(o) : t.ahora[l] > 0 => recibida[l] + t.ahora[l] <= Pedida[l]
    BY <1>8, <2>1 DEF LineasDe
  <2>3. \A l \in LineasDe(o) : recibida[l] \in Nat /\ t.ahora[l] \in Nat /\ Pedida[l] \in Nat
                              /\ a[l] = t.ahora[l]
    BY <1>2 DEF LineasDe
  <2> HIDE DEF a
  <2>4. QED
    BY <2>2, <2>3 DEF Atomica!Pendiente
<1>17. recibida' = [l \in Lineas |-> IF OrdenDe[l] = o THEN recibida[l] + a[l] ELSE recibida[l]]
  BY <1>2, <1>4, <1>9 DEF LineasDe
<1>18. \A p \in Productos : DelProducto(t.ahora, p)
          = SumFunction([l \in Lineas |-> IF OrdenDe[l] = o /\ Producto[l] = p THEN a[l] ELSE 0])
  <2> SUFFICES ASSUME NEW p \in Productos
               PROVE  [l \in Lineas |-> IF Producto[l] = p THEN t.ahora[l] ELSE 0]
                 = [l \in Lineas |-> IF OrdenDe[l] = o /\ Producto[l] = p THEN a[l] ELSE 0]
    BY DEF DelProducto
  <2>1. QED
    BY <1>9 DEF LineasDe
<1>19. stock' = [p \in Productos |-> stock[p] + SumFunction([l \in Lineas |->
                   IF OrdenDe[l] = o /\ Producto[l] = p THEN a[l] ELSE 0])]
  BY <1>12, <1>18
<1>20. (\A l \in LineasDe(o) : recibida'[l] >= Pedida[l]) <=> t.completa
  BY <1>4, <1>11 DEF LineasDe
<1>21. [u \in Ordenes |-> estado'[k(u)]] = [[u \in Ordenes |-> estado[k(u)]] EXCEPT ![o] = final]
  BY <1>1, <1>4, <1>6, <1>7
<1>22. \A u : Atomica!LineasDe(u) = LineasDe(u)
  BY DEF Atomica!LineasDe, LineasDe
<1> HIDE DEF a
<1>23. Atomica!Recibir(o, a, t.permiso)
  <2>1. [u \in Ordenes |-> estado[k(u)]][o] \in {"pendiente", "recibida_parcial"}
    BY <1>6, <1>13
  <2>2. \E l \in Atomica!LineasDe(o) : a[l] > 0
    BY <1>15, <1>22
  <2>3. t.permiso \/ \A l \in Atomica!LineasDe(o) : a[l] <= Atomica!Pendiente(l)
    BY <1>16, <1>22
  <2>4. stock' = [p \in Productos |-> stock[p] + Atomica!SumFunction([l \in Lineas |->
                     IF OrdenDe[l] = o /\ Producto[l] = p THEN a[l] ELSE 0])]
    BY <1>19, MismaSuma
  <2>5. final = IF \A l \in Atomica!LineasDe(o) : recibida'[l] >= Pedida[l]
                THEN "recibida_total" ELSE "recibida_parcial"
    BY <1>20, <1>22
  <2> HIDE DEF final
  <2>6. [u \in Ordenes |-> estado'[k(u)]] = [[u \in Ordenes |-> estado[k(u)]] EXCEPT ![o] =
            IF \A l \in Atomica!LineasDe(o) : recibida'[l] >= Pedida[l]
            THEN "recibida_total" ELSE "recibida_parcial"]
    BY <1>21, <2>5
  <2>7. QED
    BY <1>17, <2>1, <2>2, <2>3, <2>4, <2>6, Zenon DEF Atomica!Recibir, k
<1>24. QED
  <2>1. a \in [Atomica!LineasDe(o) -> 0..MaxAhora]
    BY <1>14, <1>22
  <2>2. t.permiso \in BOOLEAN
    BY <1>2
  <2>3. QED
    BY <1>6, <1>23, <2>1, <2>2, RecibirEsPaso

(* Every other step is unseen.                                             *)
LEMMA RefinaOculto ==
    ASSUME UNCHANGED <<estado, recibida, stock>>
    PROVE  UNCHANGED <<EstadoOrden, recibida, stock>>
BY DEF EstadoOrden

LEMMA RefinaPaso ==
    TypeOK /\ InvOrdenes /\ InvStock /\ NumeroPropio /\ [Next]_vars
      => [Atomica!Next]_<<EstadoOrden, recibida, stock>>
<1> SUFFICES ASSUME TypeOK, InvOrdenes, InvStock, NumeroPropio, [Next]_vars
             PROVE  [Atomica!Next]_<<EstadoOrden, recibida, stock>>
  OBVIOUS
<1>1. ASSUME NEW o \in Ordenes, LeerMaximo(o)
      PROVE  UNCHANGED <<EstadoOrden, recibida, stock>>
  <2>1. UNCHANGED <<estado, recibida, stock>>
    BY <1>1 DEF LeerMaximo
  <2>2. QED
    BY <2>1, RefinaOculto
<1>2. ASSUME NEW o \in Ordenes, InsertarOrden(o) PROVE Atomica!Next
  BY <1>2, RefinaInsertar DEF Atomica!Next
<1>3. ASSUME NEW n, Cancelar(n) PROVE Atomica!Next
  BY <1>3, RefinaCancelar DEF Atomica!Next
<1>4. ASSUME NEW r \in Recepciones, Bloquear(r) \/ ComprarRenglon(r) \/ Calcular(r) \/ Abortar(r)
      PROVE  UNCHANGED <<EstadoOrden, recibida, stock>>
  <2>1. UNCHANGED <<estado, recibida, stock>>
    BY <1>4 DEF Bloquear, ComprarRenglon, Calcular, Abortar
  <2>2. QED
    BY <2>1, RefinaOculto
<1>5. ASSUME NEW r \in Recepciones, Confirmar(r) PROVE Atomica!Next
  BY <1>5, RefinaConfirmar
<1>6. ASSUME UNCHANGED vars PROVE UNCHANGED <<EstadoOrden, recibida, stock>>
  <2>1. UNCHANGED <<estado, recibida, stock>>
    BY <1>6 DEF vars
  <2>2. QED
    BY <2>1, RefinaOculto
<1>7. QED
  BY <1>1, <1>2, <1>3, <1>4, <1>5, <1>6 DEF Next, Paso

(* When orders are created one at a time no two have one number.           *)
THEOREM CadaOrdenSuNumero == SpecEnSerie => []NumeroPropio
<1>1. TypeOK /\ [PasoEnSerie]_vars => TypeOK'
  BY TipoPaso DEF PasoEnSerie
<1>2. Init /\ [][PasoEnSerie]_vars => []NumeroPropio
  BY <1>1, TipoInicial, NumeroInicial, NumeroPaso, PTL
<1>3. QED
  BY <1>2, PTL DEF SpecEnSerie, PasoEnSerie

(* Created one at a time, the orders implement the atomic ones: an open    *)
(* transaction of confirmarRecepcionOrdenCompra shows nothing until its    *)
(* commit, which receives one order at once.                               *)
THEOREM OrdenesAtomicas == SpecEnSerie => ImplementaAtomica
<1>1. Init => TypeOK /\ InvOrdenes /\ InvStock /\ NumeroPropio /\ UnaAltaALaVez
  BY TipoInicial, InvInicial, StockInicial, NumeroInicial
<1>2. TypeOK /\ InvOrdenes /\ InvStock /\ NumeroPropio /\ UnaAltaALaVez /\ [PasoEnSerie]_vars
        => (TypeOK /\ InvOrdenes /\ InvStock /\ NumeroPropio /\ UnaAltaALaVez)'
  BY TipoPaso, InvPaso, StockPaso, NumeroPaso DEF PasoEnSerie
<1>3. TypeOK /\ InvOrdenes /\ InvStock /\ NumeroPropio /\ [PasoEnSerie]_vars
        => [Atomica!Next]_<<EstadoOrden, recibida, stock>>
  BY RefinaPaso DEF PasoEnSerie
<1>4. Init /\ [][PasoEnSerie]_vars
        => Atomica!Init /\ [][Atomica!Next]_<<EstadoOrden, recibida, stock>>
  BY <1>1, <1>2, <1>3, RefinaInicial, PTL
<1>5. SpecEnSerie => Init /\ [][PasoEnSerie]_vars
  BY PTL DEF SpecEnSerie, PasoEnSerie
<1>6. QED
  BY <1>4, <1>5, PTL DEF ImplementaAtomica, Atomica!Spec, EstadoOrden

=============================================================================
