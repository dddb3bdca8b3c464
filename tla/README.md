# Verification of neura-erp: sales, cash desk, purchase orders, invoices, electronic documents and campaigns

TLA+ models of the parts of this ERP where several requests, several tables and
failures meet, checked with TLC on small instances and, for every invariant,
action property and refinement the passing runs check, proved with TLAPS for
every value of the constants. Names keep the Spanish of the code.

## 1. The system

A Next.js application (`src/src/app`, pages and `/api` routes) over one Postgres
database with one schema per company. Two ways of talking to the database decide
almost everything below:

- **PostgREST** (`createServiceRoleClientWithDbSchema`, `AppSupabaseClient`): one
  HTTP request per statement. A handler is a sequence of `await`s, each atomic,
  with nothing around them; undoing is done by hand. Sales, cash desk,
  collections, receipts, invoices, campaigns, budgets, remission notes.
- **A `pg` pool** with `BEGIN … COMMIT` at READ COMMITTED: row locks, waits,
  deadlocks and real rollback. Purchases, purchase orders, credits, imports.

### Inventory

| Component | State | Operations | Talks to | What is hard | What makes it correct |
|---|---|---|---|---|---|
| ventas (`lib/ventas/server/create-venta-pg.ts`, `api/ventas/create`) | `ventas`, `ventas_items`, `ventas_vehiculos` | create, with best-effort rollback | inventory (stock and movements), recipes, cash desk, kitchen | stock read once and written later; failure and death after a discount; numbering | a success is complete, a failure leaves no row, stock and ledger agree unless a known event parts them |
| inventario (`lib/inventario/storage.ts`), productos (`api/productos/[id]`) | `productos.stock_actual`, `movimientos_inventario` | manual movement, product form | written by sales, purchases, imports | absolute writes of a stock read in the browser | stock = initial + movements |
| compras (`lib/compras/server/compras-pg.ts`) | `compras` | purchase, edition | stock, movements, suppliers | shared numbers; relative updates below zero | purchase, movement and stock commit together |
| caja (`lib/caja/server.ts`) | `cajas`, `caja_movimientos` | open, `en_cierre`, close, movement, annul, report | sales and their payment lines carry `caja_id` | reads in several requests; checks then inserts | one active shift per number; a closing is final and its figure exact for rows nobody touched |
| órdenes de compra (`lib/ordenes-compra/server`) | `ordenes_compra` | create, cancel, receive | purchases and stock, in one transaction | concurrent receptions, deadlocks, cancellation against reception, repeated numbers | nothing received beyond the order without permission; state says what was received; finished orders stay finished |
| facturas, pagos (`api/pagos`, `api/clientes/[id]/baja-operativa`) | `facturas.saldo`/`estado`, `pagos` | pay, void | credit notes, electronic document | read balance, insert, absolute write, against every other writer of the balance | balance = total − payments − credit; a closed invoice stays closed |
| sifen (`api/facturas/[id]/sifen`, `lib/sifen`) | `factura_electronica`, events, XML and signed XML in storage | draft, XML, sign, send, consult, cancel | invoices, the tax authority (SET) | every handler undoes by writing back the copy it read; lost answers of SET; the same document sent twice | an approval shown is one SET gave and is not lost; invoice and document end together |
| nota-credito (`lib/nota-credito`) | `nota_credito`, `nota_credito_electronica` | create, annul, XML, sign, send, consult; SQL function that applies an approval | invoice, SET | two rows written apart; stale queries; a note that failed makes room for another | one approved note settles the invoice, once |
| cobros, recibos, créditos | `cuentas_por_cobrar`, `cobros_clientes`, `recibos_dinero` | collect, issue receipt | credit sales | read balance, insert, absolute write | balance = total − collections |
| campañas (`lib/campaigns`, `api/campanas`) | `chat_campaigns`, `chat_campaign_recipients` | validate, launch, batch, cancel; replies and delivery reports | message provider | the page asks for batches that overlap; unconditional claim, requeue of what is being sent; no error is looked at | a recipient gets at most one message; a campaign ends and leaves nobody behind |
| presupuestos, notas de remisión | budgets, notes, stock per depot | convert, approve | projects, stock | check, then act several requests later | converted or approved once |
| chat, sorteos, crm, proyectos, vehículos, marketing, clientes, proveedores, gastos, reportes, … | their own tables | mostly single-row writes and reads | | webhooks of third parties (chat), SQL functions (sorteos) | |

How the modelled parts meet: a sale writes `productos.stock_actual` and
`movimientos_inventario`, which manual movements, the product form, purchases and
receptions also write; a sale carries the `caja_id` of a shift and its payment
lines, which the closing and the report of the shift add up; a reception of an
order is a purchase inside the transaction of the order. An invoice can be
cancelled only while its electronic document allows it, and credited only when not;
both the cancellation and the approval of a credit note write the balance that
payments write too. `DocumentoElectronico` follows the document and sees of the
invoice whether it is void and who wrote it last: the cancellation, a client that
leaves, a payment; `Facturas` starts where the document was approved and follows
the balance.

`PROJECT.json` lists every component with its status, and every hazard with its
line and the properties that would catch it.

## 2. Plan

Done: the sale and the writers of the stock, the cash desk, the purchase orders;
then the three parts where the program talks to somebody who answers late, twice
or never - the electronic document, the invoice with its payments and credit
notes, and the campaigns. The safety properties and the refinement of all of them
are proved. In order of interest, what is left:

1. Collections and receipts (`registrarCobro`, `recibos_dinero`), which repeat
   the pattern of the payments on other tables, with their numbering.
2. Remission notes (stock per depot) and the conversion of budgets.
3. In `Ventas`: a request whose answer is lost and is repeated; purchases item by
   item with their numbers.

## 3. Modules

| Module | What it is |
|---|---|
| `Ventas` | a sale, await by await; rollback; death of the server; manual movements, product form and purchases |
| `Caja` | shifts, sales as seen by a shift, movements, closings |
| `OrdenesCompra` | creation, cancellation and reception as READ COMMITTED transactions |
| `OrdenAtomica` | abstract: an order has one state and is received at once |
| `DocumentoElectronico` | the electronic document of an invoice, its two files, the lots SET received |
| `Facturas` | balance and state of an invoice: payments, what voids it, credit notes |
| `Campanas` | a campaign: batches, launch, cancellation, validation, the provider |
| `MCVentas`, `MCCaja`, `MCOrdenesCompra`, `MCDocumento`, `MCFacturas`, `MCCampanas` | small instances |
| `VentasProofs`, `CajaProofs`, `OrdenesCompraProofs`, `DocumentoProofs`, `FacturasProofs`, `SaldoProofs` (on top of `FacturasProofs`), `CampanasProofs` | theorems |
| `SumasProofs` | lemmas on sums over finite sets, used where stock, ledger or balance is one |

### Ventas

`pc[v]` is the place of the handler of sale `v`: `productos` (steps 1–3),
`numero` (4), `insertar`, then, inside the `try`, `items`, `explotar`
(`explotarServicios`) and `descuento`; then `ok`, or the four deletes of
`rollback()` and `error`. `leido` is the `stockMap` the request keeps and
decrements; `resta` are the units of its lines still to discount (a cart may
split a product over several lines, so `DescontarLinea` takes any part of it);
`consumo`, `pendInsumo` and `nuevo` are what `explotarServicios` returned;
`porAsentar` is the gap between the write of the stock and its SALIDA movement.
`Fallar` is the error of any statement, `Caer` the death of the process between
two of them. `LeerAjuste`/`InsertarAjuste`/`EscribirAjuste` are `saveMovimiento`;
`LeerAjuste`/`EditarProducto` the product form, which writes the figure the page
loaded or any other: the form is `noValidate` (`inventario/[id]/editar/page.tsx:352`)
and the PATCH takes any number (`productos/[id]/route.ts:122`), so it can write a
negative one, and `VentaNoDejaNegativo` says so. `AplicarCompra` is a purchase
transaction, atomic because it commits whole and its update is relative.

The last VTA number is taken in the order of a text column, and `padStart(6)` pads
to six digits. `Tope` is the first number longer than its padding (10^6 in the
code), `Previa` the number of the last sale stored at the start, `AntesEnTexto` the
order of the texts: below `Tope` that of the numbers; a number with one digit more
compares by its leading digits (`Cabeza`). Numbers of two digits more than the
padding are not modelled (`MaxNumero`), and while `VTA-999999` is stored none is
reached: past it the text order no longer moves. `NumeroCreceEnElTiempo` holds for a
sale after one whose number is below `Tope`, and only for those: after the first
number that does not fit every sale repeats it (section 6, item 5).

Abstracted: money, customers, vehicles' data and texts; the explosion of a recipe,
which is a SQL function, is any amount up to `MaxInsumo` of the inputs of the
recipe, which the per-sale adjustments allow anyway. The rows of a table of one
sale count as present or absent. `anteriores`, `borradoFallido` and `perturbado`
are history variables: no action reads them.

`perturbado` deserves a word, because `CuadreSalvoPerturbacion` rests on it. Stock
and ledger of this program do part. The invariant says exactly through which
events: a write over a stale read, an error or a death after a discount, a
movement clamped at zero or whose second statement failed, a form saved with a
stock that is not the current one. Each is marked in the action where it
happens, by comparing what the handler read with what it overwrites, and nothing
else marks a product. Any other order of steps - including rollbacks that
succeed, ones that fail, purchases, and overlapping sales of other products -
must keep the balance, counting the movements under way.

### Caja

A shift goes `nada → abierta → en_cierre → cerrada`; `alta[t]` is the two-step
opening (read the active numbers, insert; the partial unique index rejects the
second). A sale picks an open shift in the page, is inserted later whatever has
become of the shift, and is confirmed or undone by the steps `Ventas` models. A
movement checks the state and then inserts. A closing reads the shift, its sales
and its movements in three statements and updates conditionally.
`EfectivoPorCabecera` is the reckoning of `computeResumen`, `EfectivoPorDetalle` that
of `getReporteCajas`. `tocados` is history: it marks a closing when a row of its
shift appears, disappears or is annulled after its first read. A handler that
fails or dies is one that takes no further step.

Code that annuls a sale does not exist in the repository (only readers of
`estado = 'anulada'`), so there is no such action.

### OrdenesCompra and OrdenAtomica

A row per product, all with the `numero_oc` of the order. What a transaction wrote
but did not commit is in its record `rec[r]`; others see `estado`, `recibida` and
`stock`. `Bloquear` is `SELECT … FOR UPDATE` with the checks made on the locked rows
(two receptions of one number lock them in the same order, so taking them
together loses nothing); `ComprarRenglon` is one item of
`insertComprasConImpactoTx`, whose `UPDATE productos` holds the product to the end;
`Confirmar` the final update of every row of the number - read then, so it also
reaches rows of another order with the same number - and COMMIT. Transactions on
products locked by each other wait; `Victima` is the one Postgres aborts.
`OrdenAtomica` is what a user believes: create, cancel while pending, receive all
at once.

### DocumentoElectronico

`fe` is the row of `factura_electronica` (state, `sifen_regeneracion_seq`, CDC,
protocol of the last lot, which paths it has, and the marks of approval and
cancellation); `xml` and `firma` are the files of the invoice, each with the CDC
it has inside; `lotes` is what SET received. Each session runs one request at a
time: `paso` is its place, `leida` the copy of the row its first statement selected,
`id` the row's id (a draft can be deleted and made again, and updates go by id).
One action is one `await`: e.g. the route `xml` is `LeerXml`, `ReservarSeq` (only from
`rechazado`, conditional on state and number), `ArmarXml`, `SubirXml`, `GuardarXml`,
`EventoXml`, `QuitarFirma`, with `FallarReservado`, `FallarXml`, `RevertirSeq`, `SinEventoXml`
and `BorrarXml` for what it undoes. `Recibir` and `NoRecibir` are the call to SET with
all its outcomes, the lost answer and the synchronous resend included;
`Dictaminar` is SET. `Guardar` is an update that must find the row, `Reponer` one that
nobody checks. `Fallar` and `Caer` are errors and deaths.

`vieja` and `pisado` are history: a request is `vieja` once another wrote the row
after its first read, and `pisado` says that some `vieja` request wrote. The code has
no version column, so what follows a write of that kind is anybody's guess;
the properties say what holds up to there, and `AprobadoPorSet` what holds after.
`salto` is history too: `ReservarSeq` took a new number although the document SET
rejected was not that of the number the row had, so that number was left with no
verdict (section 6, item 6).

`factura` is the invoice as far as the document can tell: whether it is void, and
two history marks, that a client who left voided it last (`baja`) and that a payment
was written over it when void (`reabierta`). `AnularFactura` is the write of the
cancellation; `AnularPorBaja` that of `baja-operativa` (the DELETE of the client,
`clientes/[id]/route.ts:306`, does the same), which looks at no document and names no
state in its update; `PagarAnulada` that of a payment that had read the invoice in
force. No route of the document looks at the invoice's state, so those two are one
step each here, at any moment the constraint allows; `Facturas` has their steps.

Abstracted: the CDC is the pair (row, number) it is drawn from; reads before the
first write are one action with the row of the last of them; certificates, SOAP
and texts are outcomes; events are only whether their insert worked. A document
SET refused at once keeps no protocol here: the code may keep one with
`error_envio`, and the query of it changes nothing.

### Facturas

`factura` is the row of `facturas`; `fe` and `plazo` what `buildSifenCancelacionPreview`
looks at; `pagos` the rows of `pagos`, counted and added; `nc[n]` joins the two rows of
a note. `Aplicable` and `ConNota` are the SQL function that applies an approval, in
one transaction with the electronic row (`AplicarAprobacion`). Everything else is
one PostgREST statement per action, as above. `acreditado`, `impactos`, `pisado` and
`huerfano` are history (`huerfano`: a payment row was left behind by a delete that
failed or a server that died).

`procesar` calls the three handlers one after the other, so it adds no step.
Statements before a handler's first write are one action, except in the creation
of a note, where a payment can come between the read of the invoice and that of
the payments and the code compares both. `baja-operativa` voids the
invoices it had read in one update with no state condition. The gate of `xml`, `firmar` and `enviar`
(`assertNcSifenSinVentanaCancelacionDe`) only stops a request when it manages to
read that the document may be cancelled: if one of its queries fails, the reason
does not say "cancelar" and the request goes on. So `LeerConGate` asks nothing of the
document, and no property rests on the gate of those three; the creation of a note
does refuse when it cannot read. `cambio-plan-cliente-servidor.ts`, which also
writes amount and balance, is left out.

### Campanas

`dest[d]` is a recipient's row: status and whether it has a `provider_message_id`.
A batch (`runCampaignProcessOnce`) goes `leer`/`reencolar` → `lote` → for each recipient
`marcar`, `enviar`, `notar` → `contar_cola` → `contar_envio` → `completar`. `Sondear` is the
interval of the page, which asks every four seconds without waiting for the last
answer; the launch runs its first batch in its own request. No handler looks at
the error of its updates, so any may fail: `Mal` counts it. `enviados` is what the
provider took; `huerfanos` those no row ever noted (an update that failed or a
request that died after the send); `pisados` the recipients another request took
or wrote while a batch had them in hand; `aciegas` that something was queued, or a
count failed, where a batch about to finish would not see it. All four are
history. The template has no variables, so validation finds nothing missing; an
accepted message is taken to carry its id, though the type of the code allows
null; import, counters, button actions and delivery reports matched by
`externalId` are left out.

## 4. Runs

| Run | Instance | Shows |
|---|---|---|
| `ventas` | 2 sales, oil sold and consumed by a service, filters; 2 units each | `TypeOK`, `VentaCompleta`, `CuadreSalvoPerturbacion`, `NumeroCreceEnElTiempo`, `ErrorLimpio`, `VentaNoDejaNegativo` under every interleaving, failure and death |
| `ventas_otros` | 1 sale, 1 manual movement or edition, 1 purchase | `CuadreSalvoPerturbacion` and `VentaNoDejaNegativo` with the other writers |
| `ventas_transaccion` | 1 sale | refutes "una transacción Postgres" (`route.ts:174`) |
| `ventas_insumo_directo` | 1 sale | refutes "no dos updates pisándose" (`create-venta-pg.ts:447`) for an input sold both ways |
| `caja` | 2 shifts, 2 numbers, 1 sale in 4 forms, 1 movement of 3 kinds, 2 closings | `UnTurnoPorNumero`, `CierreUnico`, `ArqueoExacto`, `CajaQuietaNoCambia` |
| `caja_en_cierre` | same, 1 closing | refutes "deja de recibir ventas/movimientos" (`server.ts:674`) |
| `caja_detalle` | same, 1 closing | closing and report disagree on a sale paid in two ways (`server.ts:241-244`) |
| `ordenes_compra` | 2 orders of the same 2 products, 3 receptions of 1 unit per line | `SinExcesoSinPermiso`, `StockCuadra`, `EstadoRefleja`, `TerminadaNoVuelve`, repeated numbers included |
| `ordenes_serie` | same, 2 receptions of up to 2 units, creations one at a time | `ImplementaAtomica`, `TodaRecepcionTermina` |
| `documento_electronico` | 2 sessions, 2 rows, 3 numbers, 3 lots (the third of each with one request at a time); 1.35 M states | `AprobadoPorSet`, `DosAprobadosPorReenvio`, `FacturaSigueAlDocumento`, `AprobacionEstable` with every failure, death, lost answer and late verdict, clients that leave and payments written over |
| `facturas` | 2 sessions, an invoice of 2, payments of 1 or 2, 2 notes, 2 lots; 1.0 M states, depth 56 | `SaldoCuadra`, `EstadoSegunSaldo`, `ImpactoPorSet`, `ImpactoUnico`, `CerradaNoReabre` |
| `campanas` | 2 sessions, 2 recipients, batches of 2, 1 failure, 1 validation; 0.74 M states, depth 60 | `EnvioUnico`, `CompletaSinPendientes`, `Termina` |

Why the bounds are enough to be worth running: two sales are the least that
overlap, and every interference in the code is between two requests over one row;
two units let a cart be split in lines and let two carts fit apart but not
together; a third reception lets one wait while another completes the order; two
products in opposite orders give the deadlock. `MaxInsumo`, `MaxCompras` and `MaxAhora`
are the only bounds on quantities; nothing else is capped, since each request
runs once. `ventas`, `caja`, `ordenes_compra`, `documento_electronico` and `facturas` use
symmetry over requests, and check no liveness; `TodaRecepcionTermina` and `Termina`
run without it. The sales runs pad numbers to one digit (`Tope = 10`); with `Previa = 8`
two sales reach the boundary: one after the other they get 9, the last number that
fits, and 10, the first that does not.

The last three runs let a session run any number of requests, and bound what
grows instead:

- `documento_electronico`: two lots are the least that SET can approve twice; one
  regeneration number beyond the first tells a new CDC from a resent one; a second
  row, a draft deleted and made again. Numbers and lots go one further, to 2 and
  3, because a number can be skipped only from the second on, and its two
  approvals need a rejected lot before them; `Despacio` allows that third lot and
  that number only in one row and with one request at a time, which deaths make
  enough (with one number and two lots the property held without its `salto`
  clause). The constraint `Acotado` leaves a state where
  `pisado` holds, or where the second row was sent, unexplored from there on (the state
  itself is checked). Three properties promise nothing after `pisado`; the fourth,
  `AprobadoPorSet`, does, and is proved for every case. `DeAUna` bounds concurrency:
  once SET decided on one of two lots, a request does not start beside another,
  though those begun before go on. All
  overlaps with one lot, whatever its verdict, and with two undecided are there.
  `FacturaAlFinal` keeps clients that leave and payments to the last part: the
  document approved or cancelled from its first lot, with nothing under way or one
  cancellation. With every other step they commute, for only the cancellation writes
  the invoice and no step reads it; the proof has no such bound.
- `facturas`: two units let a payment leave a balance and a note settle it. `Acotada`
  stops after `pisado` and `huerfano`, where `SaldoCuadra`, `ImpactoUnico` and `CerradaNoReabre`
  promise nothing and the other two are proved, and keeps notes and payments
  together to two. `DeAUna`: with a second note, a second lot, a note with its lot and
  a payment, or a void invoice or document, a request does not start beside
  another. Every pair of requests therefore overlaps over one note and one lot,
  or over the payments; the second note is there for what a first one left behind.
- `campanas`: two recipients let a batch be half done. `EntornoAcotado` shares the
  reports of the provider out between the two recipients, which are otherwise
  alike but for their order, takes the approval of the template away only in
  campaigns nobody validated, and lets a failure and a validation share a
  behaviour only when the validation is under way at the failure. Every
  action assumed fair keeps its outcome without failure, so the constraint leaves
  no fairness that cannot be met, and `Termina` is not true for lack of behaviours.
  One failure or death per behaviour; the safety proofs bound neither.

`CHECK_DEADLOCK FALSE` everywhere: when all the requests of the instance have been
answered, or the server has died under them, the system really stops.

Every property is broken by the mutant of the code listed for it: a dropped
guard, a missing movement, an unconditional update, a lock not taken.

### Fairness

- `OrdenesCompra`: weak fairness of each step of an open transaction (a lock that
  becomes free is granted) and of the deadlock detector. Opening a reception,
  creations and cancellations are not fair.
- `Campanas`: weak fairness of the steps of a request under way, and of `Sondear`:
  the page of a campaign being sent asks again every four seconds
  (`CampanasDetailClient.tsx:134-147`), so the assumption is that it stays open.
  Nothing else sends a batch. `Termina` also assumes that batches at last stop
  overlapping (`<>[]UnoALaVez`): without it TLC shows two sessions that alternate,
  each putting back in the queue what the other has in hand and the provider
  refuses, for ever.
- `Ventas`, `Caja`, `DocumentoElectronico` and `Facturas` assume none and check no
  liveness: no statement of theirs waits for another request, so each request ends
  by itself, and what follows depends on a person and on SET.

## 5. What is proved

Every invariant and action property of the passing runs, and the refinement,
for any constants that satisfy the `ASSUME` of each module: any catalogue, recipes,
orders, amounts and bounds. Sales, manual movements, order lines and sessions are
assumed finite in number where something is added up over them (the rows and
requests of one database), and nothing else is.

**`SumasProofs`**: how a sum over a finite set changes. `SumFunctionOnSet` of the
community modules is a recursive function over subsets; the library's induction
theorems need an operator as a parameter, so the module gets induction from the
principle that a set of naturals has a least element (`WFMin`), stated over sets of
sets (`InduccionConjunto`), and from it the equation of the sum, that it is an
integer, that it does not depend on what the function is elsewhere, and what it
becomes when one term changes or one element comes or goes.

**`VentasProofs`**: `TipoCorrecto`, `InvarianteDeVentas` and from it `VentaEsCompleta`
(`VentaCompleta`), `NumerosCrecen` (`NumeroCreceEnElTiempo`), `FallidaSinFilas`
(`ErrorLimpio`) and `SinStockNegativo` (`VentaNoDejaNegativo`). The properties speak of
the end of a sale; the invariant says what holds half way. `CuentaDeUnidades`: each
unit of the cart and each unit consumed is in exactly one of four places
(line, input, taken from the stock, in the ledger), so when the first three are
empty the ledger has them all. `FilasDeVenta`: which tables have rows at each place.
`CopiaAlcanza`: the copy of the stock covers the rest of the lines, so no write from it
is negative; what is left in `SinStockNegativo` is who does write a negative, the
edition of a purchase and the product form. `NumeroTrasAnteriores`: a sale that was
answered keeps its row, so a later read sees it, and the last number as text is no
smaller as long as that sale's fits in the padding (`UltimoEnTexto`). `RollbackAvanza`: what each delete has already cleared.

`StockSegunElLibro` (`CuadreSalvoPerturbacion`): what parts stock and ledger for a
moment is the sum, over sales, of what each took and did not note (`Tomado`), plus,
over manual movements, of what each noted and did not write (`Anotado`). The
invariant needs one thing more, `PorBorrar`: when a rollback is about to delete
movements, their products are already in `perturbado`; otherwise the delete would
part stock and ledger with no mark.

**`CajaProofs`**: `TipoCorrecto`, `InvarianteDeCaja`, `NumeroSinRepetir`
(`UnTurnoPorNumero`), `CierreConArqueoExacto` (`ArqueoExacto`), `CerradaParaSiempre`
(`CierreUnico`), `QuietaParaSiempre` (`CajaQuietaNoCambia`). The invariant relates a
closing still running to the rows: until its shift is touched, what it has read
is what they add up to. The sums are handled by showing that the functions being
folded do not change, so no induction is needed.

**`OrdenesCompraProofs`**: `TipoCorrecto`, `InvarianteDeOrdenes`, `NadaDeMas`
(`SinExcesoSinPermiso`), `ElEstadoDiceLoRecibido` (`EstadoRefleja`),
`LoTerminadoNoVuelve` (`TerminadaNoVuelve`). `LineasDeOrden`: the rows of an order
appear and change state together. `Transacciones`: a reception holds all the rows of
its orders, no two hold the same number, and what it checked under the lock
(not cancelled, not complete, no excess, complete or not) is still true when it
commits. That last part is the reason the check of the excess is not stale.

`InvarianteDelStock`, `ElStockCuadra` (`StockCuadra`): the stock is the initial one plus
what every line received. `CopiaDelStock` says what an open reception has written and
not committed: the committed stock plus what it delivered (`Entregado`) of that
product, which stays true because it holds the product's row to the end.

`CadaOrdenSuNumero` (`NumeroPropio`), `OrdenesAtomicas` (`ImplementaAtomica`): with one creation at a
time no two orders share a number, and then every step of `SpecEnSerie` is one of
`OrdenAtomica` or leaves its variables alone. The step that matters is `Confirmar`,
whose final update goes by number: with numbers that are its own it touches
nothing but the order the abstract reception is of. That hypothesis is needed:
with a repeated number the refinement is false (`EstadoRefleja` and the rest do not
need it).

**`DocumentoProofs`**: `TipoDocumento`, `TipoCorrecto`, `InvarianteDelDocumento`,
`AprobadoLoDiceSet` (`AprobadoPorSet`), `AprobacionSeQueda` (`AprobacionEstable`). `TypeOK`
is not inductive - that a lot can be looked up needs the protocol in a row, or in
a copy of it, to be one SET gave - so `TipoReal` says so. The argument of the other
two is `Coherente`: as long as a request is not `vieja` it knows the state and the
protocol of the row; whatever copy it holds of an approved row, or approval it is
about to write, some lot backs; and a request that did not come to look at the
verdict (`Ajenos`) started from a row with no approval, so if the row has one now
the request is `vieja` and its write is marked.

`InvarianteDeCancelacion`, `LaFacturaSigue` (`FacturaSigueAlDocumento`). A cancellation
writes two rows; between the writes the document is cancelled and the invoice may
still be in force, and otherwise only when a payment was written over the void
invoice; a void invoice whose document is not cancelled was last voided by a client
that left (`Anulacion`). One request at most is between the two writes: a second
would have read the document as approved and, as the row was written since, be
`vieja`. The writes of clients and payments keep the invariant at any moment
(`CancelacionAjena`). On top
of `Coherente` the proof needs what a request that looked at the verdict knows of the
row (`Sabido`).

`InvarianteDeNumeros`, `DosAprobadosSoloAsi` (`DosAprobadosPorReenvio`). While the row is made
once, no number is skipped and nobody writes over what it had not seen (`Limpio`),
a document of number n is in a file, a request or a lot only if SET rejected those
of all smaller numbers (`Fundado`): a number is taken only from `rechazado`, the
protocol of a row in that state is a rejected lot (also in the copies requests
undo with, `Formada`), and without `salto` that lot had the document of the current
number. So if SET approved two documents of different numbers it had rejected the
smaller one too, which therefore was sent twice; if the numbers are equal, that
document was. An attempt at this proof without `salto` failed, and showed the case
that TLC then reproduced with larger bounds (section 6, item 6).

**`FacturasProofs`**: `TipoDeFacturas`, `TipoCorrecto`, `EstadoYSaldo` (`EstadoSegunSaldo`),
`InvarianteDeNotas`, `SoloLoQueAproboSet` (`ImpactoPorSet`). The state of the invoice
follows its balance because every writer computes both from one copy, and every
copy agrees (`Cuadra`), stale or not: that is why this property needs no `pisado`.
`NotaFiel` and `Sabe` follow a lot from SET to the note and the request that read it:
only a request that saw the approval reaches the SQL function, and one that writes
`aprobado` back had read it from a note already applied.

**`SaldoProofs`**: `InvarianteDeImpacto`, `NotaUnica` (`ImpactoUnico`). While nobody
writes the invoice over a change it had not seen, its balance never grows; a note
is made for the balance of its moment, so none is for less than what is owed
(`NotaVale`, `SesionVale`); the SQL function refuses one for more; hence the note it
accepts is for the whole balance, which ends at zero and admits no other (`Unica`).

`InvarianteDelSaldo`, `ElSaldoCuadra` (`SaldoCuadra`). A row of `pagos` is in the hands of the
one request that inserted it and has not written the balance, or it is firm
(`Firmes`); until `pisado`, `huerfano` or a void, the balance is the total less the firm
ones (`SumaFirme`) less what notes took off, also with payments under way (`SaldoFirme`),
and with none under way all are firm.
`LoCerradoNoReabre` (`CerradaNoReabre`). No request that had seen the invoice void or
settled by a note writes it, except a cancellation, which does not look at the
state of the invoice; but it asks for a running term and no payments. A note made
within the term has a firm payment under it (`NotaFirme`; for that, without firm
payments the balance must be all or nothing, `SaldoEntero`), so a cancellation that
gets through meets no invoice settled by a note (`CorregidaFirme`, `CierreSabe`).

**`CampanasProofs`**: `TipoCorrecto`, `InvarianteDeEnvio`, `UnSoloEnvio` (`EnvioUnico`),
`FinSinPendientes` (`CompletaSinPendientes`). For a recipient nobody took away: one batch
has it at most (`UnaMano`), the batch's copy says truly whether it has an id
(`CopiaFiel`), one about to be sent has none (`SinId`), and its messages are those its
row noted, the one in flight and the lost ones (`Mensajes`). `Contado` says what a
batch has counted by each of the last steps.

Model-checked only: the two liveness properties, `TodaRecepcionTermina` and
`Termina`. Their fairness is about `ENABLED`, which this prover
does not expand.

## 6. What the code does that its comments do not say

1. A sale is not "una transacción Postgres": a failure after a discount loses the
   units for good (`ventas_transaccion`).
2. An input sold over the counter and consumed by a service in one cart is
   discounted once (`ventas_insumo_directo`).
3. A shift `en_cierre` still receives the sales and movements that saw it open
   (`caja_en_cierre`). What it does guarantee is `CajaQuietaNoCambia`.
4. The stored closing counts a mixed payment whole as cash, the report by lines
   (`caja_detalle`).

Met while modelling, with no run of their own that expects a violation (the
properties are worded around them):

5. A VTA number can be repeated without the race its comment admits ("race posible
   en entorno multi-usuario", `create-venta-pg.ts:173`): `VTA-1000000` sorts before
   `VTA-999999` as text, so once the latter is stored every sale gets `VTA-1000000`,
   and no index refuses it. That is the premise of `NumeroCreceEnElTiempo`.
6. The regeneration number exists so that a document SET rejected is not sent again
   with its Id (`20260513140000_sifen_factura_electronica_regeneracion_seq.sql:1-2`), but
   `firmar` refuses only `aprobado` and `cancelado` (`firmar/route.ts:26`): a rejected
   document can be signed and sent with the same CDC. From `enviado` the route `xml`
   makes the XML again with the same number, and sending it again, with one
   session and no failure, ends in two lots of one CDC that SET may both approve.
   Two documents with different CDCs can be approved too, with one session that
   dies at the wrong moments: a rejected document; `xml` takes number 1, uploads and
   dies; `xml` takes number 2, the row still being `rechazado`, and dies; `firmar` signs
   the file with number 1, which is sent; the document is `enviado` with number 2, so
   `xml` makes a file with that number, and it is signed and sent. Neither was
   rejected. This is what `salto` marks. `DosAprobadosPorReenvio` says that there is
   no other way, but for a write over an unseen change or a row made twice.
7. The synchronous call that is "solo ayuda diagnóstico"
   (`handle-sifen-enviar-post.ts:241-258`) sends the document. SET may approve what the
   row calls `error_envio`.
8. `inferirEstadoSifenTrasConsultaLote` acts "solo cuando el DE actual sigue en `enviado`"
   (`consulta-lote-sifen-test.ts:230-233`); its code also accepts `en_proceso`, a state
   only credit notes have.
9. For notes "`error_envio` permite regenerar" (`handle-nc-sifen-xml-post.ts:26-27`), but
   by then `estado_erp` is `error` or `rechazada` and the handler refuses it before.
10. A payment made after a note was created, a client that leaves or another draft
    make the SQL function refuse a note that SET approved: the note stays sent for
    good. A note in `error` leaves the unique index, so a second one can be sent and
    both approved; the function refuses the second. It still takes the amount off
    for a draft that was annulled meanwhile. `ImpactoUnico` is what survives all that.
11. A stale query can take an approved note back to `en_proceso`, and an approved
    document back to what it was (`AprobacionEstable` says when).
12. Validation looks at no status of the campaign or of the recipient: rows sent
    before go back to `pending` and, after a second launch, stay queued with their
    id; no batch sends or drops them and the campaign never completes (`Atascada`).
    A cancellation can be overwritten by `completed`.
13. The product form can leave a negative stock: nothing between the field and the
    column looks at the sign (`VentaNoDejaNegativo` names it).
14. A client that leaves voids invoices whose document stays approved at SET, and a
    payment under way can put a void invoice back in force, also one whose document
    was cancelled (`FacturaSigueAlDocumento` names both).
15. The gate that should keep the XML, the signature and the sending of a note
    behind the cancellation of the document lets them through when its own queries
    fail (`evaluate-creation-gate.ts:48-50`, `assert-nc-sifen-cancelacion.ts:13-14`).

## 7. Not modelled

Everything listed as `not_modelled` in `PROJECT.json`: collections, receipts, credits,
budgets and remission notes (section 2); screens (only as the source of inputs); readers and reports; integrations
whose behaviour is a third party's (chat providers, e-mail, storage); raffles,
whose tickets are assigned by SQL functions; schema migrations, used only for the
indexes and cascades the models rely on. A statement of the database that was
applied although its answer was lost is not in the models: a failed statement is
one that was not applied. Lost answers of SET are modelled, and so is a message
the provider took and no row noted; a call to the provider that throws after
taking the message is `Caer` in `notar`.
