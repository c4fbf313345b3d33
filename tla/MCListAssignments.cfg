SPECIFICATION Spec
CONSTANT Routes <- AssignmentLists
INVARIANT AssignmentsCanBeListed
