----------------------------- MODULE MCCampanas -----------------------------
(* Two sessions over a campaign of two recipients.                         *)
EXTENDS Campanas

MCDestinos == 1..2

(* Only the first recipient answers, only the second's delivery fails, and *)
(* a template loses its approval where nobody validates.  A failure and a  *)
(* validation meet only if the validation was under way.                   *)
EntornoAcotado ==
    /\ dest'[2].st # "replied"
    /\ ~ FallarEntrega(1)
    /\ ~ aprobada' => validaciones' = 0
    /\ fallas = 1 => validaciones' = validaciones
    /\ validaciones = 1 /\ fallas' # fallas =>
          \E s \in Sesiones : sesion[s].paso \in {"validar", "lista"}
=============================================================================
