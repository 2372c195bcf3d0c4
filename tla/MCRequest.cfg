SPECIFICATION Spec
INVARIANTS FieldsKept OneOwner TextsKeepMeaning DatesRight
PROPERTIES HeaderMeans
