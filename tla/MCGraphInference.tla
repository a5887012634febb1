--------------------------- MODULE MCGraphInference ---------------------------
(* A part of the graph in resources/graph: five amenities, three property    *)
(* types, both operations and every bucket, with all their edges.            *)
EXTENDS GraphInference

Evoca == {
  <<"terraza", "vida_al_aire_libre", 9>>, <<"terraza", "estilo_moderno", 3>>,
  <<"salon_eventos", "convivencia_familiar", 6>>, <<"salon_eventos", "estilo_moderno", 3>>,
  <<"amueblado", "flexibilidad", 9>>, <<"amueblado", "confort_interior", 6>>,
  <<"jardin", "vida_al_aire_libre", 9>>, <<"jardin", "convivencia_familiar", 6>>,
  <<"jardin", "tranquilidad", 3>>, <<"elevador", "practicidad", 6>>}

Prior == {
  <<"Casa", "convivencia_familiar", 8>>, <<"Casa", "tranquilidad", 6>>,
  <<"Departamento", "practicidad", 8>>, <<"Departamento", "estilo_moderno", 6>>,
  <<"Oficina", "funcionalidad_comercial", 8>>, <<"Oficina", "practicidad", 6>>,
  <<"RENTA", "flexibilidad", 6>>, <<"VENTA", "patrimonio", 8>>,
  <<"a_estrenar", "estilo_moderno", 6>>, <<"a_estrenar", "flexibilidad", 3>>,
  <<"con_historia", "tranquilidad", 3>>, <<"area_amplia", "convivencia_familiar", 3>>,
  <<"en_condominio", "seguridad", 6>>}

Sugiere == {
  <<"rec_4_mas", "familia_grande", 9>>, <<"rec_2_3", "familia_pareja", 6>>,
  <<"rec_1", "profesionista", 6>>, <<"rec_1", "persona_sola", 3>>,
  <<"area_amplia", "familia_grande", 3>>, <<"area_compacta", "persona_sola", 6>>,
  <<"Casa", "familia_grande", 3>>, <<"RENTA", "profesionista", 3>>,
  <<"Oficina", "empresa", 9>>, <<"Oficina", "negocio_emprendedor", 6>>}

EdgesOf(rows, relation) ==
  {[origin |-> row[1], target |-> row[2], weight |-> row[3], relation |-> relation] :
     row \in rows}

GraphEdges ==
  EdgesOf(Evoca, "evoca") \cup EdgesOf(Prior, "prior") \cup EdgesOf(Sugiere, "sugiere")

GraphBlocks ==
  {[origin |-> row[1], target |-> row[2]] : row \in {
     <<"VENTA", "flexibilidad">>, <<"RENTA", "patrimonio">>,
     <<"con_historia", "estilo_moderno">>, <<"area_compacta", "convivencia_familiar">>,
     <<"Oficina", "convivencia_familiar">>}}

GraphThemes ==
  <<"vida_al_aire_libre", "convivencia_familiar", "practicidad", "tranquilidad",
    "seguridad", "estilo_moderno", "patrimonio", "flexibilidad", "confort_interior",
    "funcionalidad_comercial">>

GraphAudiences ==
  <<"familia_grande", "familia_pareja", "profesionista", "persona_sola",
    "negocio_emprendedor", "empresa">>

(* Every name of its own, one with a second one, and one nobody knows.       *)
GraphAlias ==
  [name \in {"terraza", "salon_eventos", "amueblado", "jardin", "elevador", "areas verdes"} |->
     IF name = "areas verdes" THEN "jardin" ELSE name]

GraphNames == DOMAIN GraphAlias \cup {"helipuerto"}
GraphTypes == {"Casa", "Departamento", "Oficina"}
GraphTypeNames == GraphTypes \cup {"Rancho"}

Home(age, area, bedrooms, condominium, parking) ==
  [age |-> age, area |-> area, bedrooms |-> bedrooms, condominium |-> condominium,
   parking |-> parking, rent |-> FALSE, type |-> "Casa", amenities |-> <<>>]

(* Both sides of every limit of the buckets.                                 *)
GraphHomes == {
  Home(1, 179, 2, FALSE, 1), Home(2, 50, 1, TRUE, 0), Home(10, 180, 4, FALSE, 2),
  Home(11, 51, 0, FALSE, 0), Home(30, 100, 3, TRUE, 1), Home(31, 200, 4, FALSE, 1)}
=============================================================================
